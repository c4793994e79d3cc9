------------------------------ MODULE SessionStore ------------------------------
(***************************************************************************)
(* What the session table server promises a client whose calls are served  *)
(* one at a time: a sequence of sessions, oldest first, and calls that     *)
(* take effect on it in single steps.  SessionServer implements this       *)
(* specification when it has one thread.                                   *)
(***************************************************************************)
EXTENDS Integers, Sequences, FiniteSets, Functions, SequencesExt

CONSTANTS Threads, Ids, HASHTABLE_SIZE, BUFFER_MAX, UINT_MAX,
          StartKeys, PageSizes, BatchSizes

VARIABLES
    store,   \* ids of the sessions on the device, oldest first
    cursor,  \* where the next page of a listing begins
    phase,   \* "idle", "busy", "adding", "listing", "sending", "done", for each caller
    op,      \* the call in progress
    key,     \* its session id or start key, and the next key it answers
    size,    \* its page size, or the requests left in its add stream
    out,     \* its answer
    status,  \* its status
    broken   \* the caller left the contract: nothing is promised any more

vars == <<store, cursor, phase, op, key, size, out, status, broken>>
request == <<op, key, size>>

\* a cursor is at a session, past the last one, or at a session removed since
AtEnd == [at |-> "end", id |-> 0]
AtSession(id) == [at |-> "session", id |-> id]
Stale == [at |-> "stale", id |-> 0]

CursorFrom(i) == IF i > Len(store) THEN AtEnd ELSE AtSession(store[i])

In(t, ph, o) == ~broken /\ phase[t] = ph /\ op[t] = o

Become(t, ph) == phase' = [phase EXCEPT ![t] = ph]

Finish(t, s) == Become(t, "done") /\ status' = [status EXCEPT ![t] = s]

Answer(t, entry) == out' = [out EXCEPT ![t] = Append(@, entry)]

\* the session leaves the store; a cursor at it is stale from now on
Drop(id) ==
    /\ \E i \in DOMAIN store : store[i] = id /\ store' = RemoveAt(store, i)
    /\ cursor' = IF cursor = AtSession(id) THEN Stale ELSE cursor

Init ==
    /\ store = <<>>
    /\ cursor = AtEnd
    /\ phase = [t \in Threads |-> "idle"]
    /\ op = [t \in Threads |-> "none"]
    /\ key = [t \in Threads |-> 0]
    /\ size = [t \in Threads |-> 0]
    /\ out = [t \in Threads |-> <<>>]
    /\ status = [t \in Threads |-> "none"]
    /\ broken = FALSE

Call(t) ==
    /\ ~broken
    /\ phase[t] = "idle"
    /\ Become(t, "busy")
    /\ op' = [op EXCEPT ![t] = "add"] \/ op' = [op EXCEPT ![t] = "get"]
       \/ op' = [op EXCEPT ![t] = "del"] \/ op' = [op EXCEPT ![t] = "closed"]
       \/ op' = [op EXCEPT ![t] = "all"]
    /\ \E k \in {0} \cup Ids \cup StartKeys : key' = [key EXCEPT ![t] = k]
    /\ \E n \in {0} \cup PageSizes \cup BatchSizes : size' = [size EXCEPT ![t] = n]
    /\ UNCHANGED <<store, cursor, out, status, broken>>

\* the deadline passed before the call took effect
Abandon(t) ==
    /\ ~broken
    /\ phase[t] = "busy"
    /\ op[t] = "add" \/ out[t] = <<>>
    /\ Finish(t, "CANCELLED")
    /\ UNCHANGED <<store, cursor, request, out, broken>>

\* the next request of an add stream arrives ...
Receive(t) ==
    /\ In(t, "busy", "add")
    /\ size[t] > 0
    /\ \E id \in Ids : key' = [key EXCEPT ![t] = id]
    /\ size' = [size EXCEPT ![t] = @ - 1]
    /\ Become(t, "adding")
    /\ UNCHANGED <<store, cursor, op, out, status, broken>>

\* ... and is either entered, the newest session of all (a stale cursor may come
\* to stand at it: its memory may be the removed session's) ...
Accept(t) ==
    /\ In(t, "adding", "add")
    /\ Len(store) <= HASHTABLE_SIZE
    /\ key[t] \notin Range(store)
    /\ store' = Append(store, key[t])
    /\ \/ UNCHANGED cursor
       \/ cursor = Stale /\ cursor' = AtSession(key[t])
    /\ Become(t, "busy")
    /\ key' = [key EXCEPT ![t] = 0]
    /\ UNCHANGED <<op, size, out, status, broken>>

\* ... or answered with the reason it was not
Refuse(t) ==
    /\ In(t, "adding", "add")
    /\ \/ /\ Len(store) > HASHTABLE_SIZE
          /\ Answer(t, [id |-> key[t], what |-> "_RESOURCE_EXHAUSTED"])
       \/ /\ Len(store) <= HASHTABLE_SIZE
          /\ key[t] \in Range(store)
          /\ Answer(t, [id |-> key[t], what |-> "_ALREADY_EXISTS"])
    /\ Become(t, "busy")
    /\ key' = [key EXCEPT ![t] = 0]
    /\ UNCHANGED <<store, cursor, op, size, status, broken>>

\* the stream ends, after all its requests or where the call was cancelled
EndAdd(t) ==
    /\ In(t, "busy", "add")
    /\ Finish(t, "OK")
    /\ UNCHANGED <<store, cursor, request, out, broken>>

\* get and delete of an id that is not in the store
Miss(t) ==
    /\ In(t, "busy", "get") \/ In(t, "busy", "del")
    /\ key[t] \notin Range(store)
    /\ Finish(t, "NOT_FOUND")
    /\ UNCHANGED <<store, cursor, request, out, broken>>

Get(t) ==
    /\ In(t, "busy", "get")
    /\ key[t] \in Range(store)
    /\ Answer(t, [id |-> key[t], what |-> "_CLOSED"])
    /\ Finish(t, "OK")
    /\ UNCHANGED <<store, cursor, request, broken>>

Delete(t) ==
    /\ In(t, "busy", "del")
    /\ key[t] \in Range(store)
    /\ Answer(t, [id |-> key[t], what |-> "_CLOSED"])
    /\ Drop(key[t])
    /\ Finish(t, "OK")
    /\ UNCHANGED <<request, broken>>

\* the oldest session is collected; after a full page the answers are sent
Collect(t) ==
    /\ In(t, "busy", "closed")
    /\ store # <<>>
    /\ Answer(t, [id |-> Head(store), what |-> "_CLOSED"])
    /\ Drop(Head(store))
    /\ Become(t, IF Len(out'[t]) = size[t] THEN "sending" ELSE "busy")
    /\ UNCHANGED <<request, status, broken>>

\* no session is left to collect
CollectedAll(t) ==
    /\ In(t, "busy", "closed")
    /\ store = <<>>
    /\ \/ /\ out[t] = <<>>
          /\ Finish(t, "NOT_FOUND")
       \/ /\ out[t] # <<>>
          /\ Become(t, "sending")
          /\ UNCHANGED status
    /\ UNCHANGED <<store, cursor, request, out, broken>>

Send(t) ==
    /\ In(t, "sending", "closed")
    /\ \/ /\ out[t] # <<>>
          /\ out' = [out EXCEPT ![t] = Tail(@)]
          /\ UNCHANGED <<phase, status>>
       \/ /\ out[t] = <<>>
          /\ Finish(t, "OK")
          /\ UNCHANGED out
    /\ UNCHANGED <<store, cursor, request, broken>>

\* a listing starts again from the oldest session, or goes on from the cursor;
\* its page is empty when there is nothing more to list
Open(t) ==
    /\ In(t, "busy", "all")
    /\ cursor' = IF key[t] = UINT_MAX THEN CursorFrom(1) ELSE cursor
    /\ \/ cursor' = AtEnd /\ Finish(t, "OK")
       \/ cursor' # AtEnd /\ Become(t, "listing") /\ UNCHANGED status
    /\ UNCHANGED <<store, request, out, broken>>

\* the page: the next BUFFER_MAX sessions from the cursor on, or all there are;
\* the next key is the last id listed
Page(t) ==
    /\ In(t, "listing", "all")
    /\ \E i \in DOMAIN store :
         /\ cursor = AtSession(store[i])
         /\ LET last == IF i + BUFFER_MAX - 1 <= Len(store)
                        THEN i + BUFFER_MAX - 1 ELSE Len(store)
            IN /\ out' = [out EXCEPT ![t] =
                            [j \in 1 .. last - i + 1 |->
                               [id |-> store[i + j - 1], what |-> "_CLOSED"]]]
               /\ cursor' = CursorFrom(last + 1)
               /\ key' = [key EXCEPT ![t] = store[last]]
    /\ Finish(t, "OK")
    /\ UNCHANGED <<store, op, size, broken>>

Clear(t) ==
    /\ ~broken
    /\ phase[t] = "done"
    /\ Become(t, "idle")
    /\ op' = [op EXCEPT ![t] = "none"]
    /\ key' = [key EXCEPT ![t] = 0]
    /\ size' = [size EXCEPT ![t] = 0]
    /\ out' = [out EXCEPT ![t] = <<>>]
    /\ status' = [status EXCEPT ![t] = "none"]
    /\ UNCHANGED <<store, cursor, broken>>

\* a listing goes on from a session removed since the last page, or closed
\* sessions are asked for in pages that do not fit the response array
Break(t) ==
    /\ \/ In(t, "listing", "all") /\ cursor = Stale
       \/ /\ In(t, "busy", "closed")
          /\ size[t] \notin 1 .. BUFFER_MAX
          /\ Len(out[t]) = BUFFER_MAX
          /\ store # <<>>
    /\ broken' = TRUE
    /\ UNCHANGED <<store, cursor, phase, request, out, status>>

Next == \E t \in Threads :
    \/ Call(t) \/ Abandon(t) \/ Clear(t) \/ Break(t)
    \/ Receive(t) \/ Accept(t) \/ Refuse(t) \/ EndAdd(t)
    \/ Miss(t) \/ Get(t) \/ Delete(t)
    \/ Collect(t) \/ CollectedAll(t) \/ Send(t)
    \/ Open(t) \/ Page(t)

Spec == Init /\ [][Next]_vars
=============================================================================
