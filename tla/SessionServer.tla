----------------------------- MODULE SessionServer -----------------------------
(***************************************************************************)
(* The session table server of the framework: the gRPC handlers of         *)
(* opof_session_server.cc and the table functions of opof_server_test.c    *)
(* they call, run by the threads of the synchronous server that            *)
(* opof_server.cc builds.  The table is a uthash table with no lock around *)
(* it, so a step of this module is one uthash macro (or one loop turn) and *)
(* the steps of different threads interleave.                              *)
(*                                                                         *)
(* Undefined behaviour stops the model: ub names what happened and no      *)
(* other action is enabled afterwards.                                     *)
(***************************************************************************)
EXTENDS Integers, Sequences, FiniteSets, Functions, SequencesExt

CONSTANTS
    Threads,         \* server threads that can run a handler at one time
    Ids,             \* session ids the clients use
    Ptr, NULL,       \* addresses malloc can return, and the null pointer
    HASHTABLE_SIZE,  \* opof_hash.h
    BUFFER_MAX,      \* opof.h: slots of a response array
    UINT_MAX,        \* startSession value that asks for the first page
    StartKeys,       \* startSession values the clients send
    PageSizes,       \* page sizes the clients ask for
    BatchSizes       \* numbers of requests the clients put in an add stream

ASSUME ThreadsAssumption == IsFiniteSet(Threads)
ASSUME IdsAssumption == Ids \subseteq Nat
ASSUME PtrAssumption == NULL \notin Ptr
ASSUME SizeAssumption == /\ HASHTABLE_SIZE \in Nat
                         /\ BUFFER_MAX \in Nat \ {0}
                         /\ UINT_MAX \in Nat
                         /\ StartKeys \subseteq Nat
                         /\ PageSizes \subseteq Nat
                         /\ BatchSizes \subseteq Nat

VARIABLES
    sessions,   \* the records linked in the table, in insertion order
    heap,       \* the allocated records that were ever linked, by address
    start,      \* where the next page of getAllSessions begins
    pc,         \* what each thread does next
    op,         \* the call each thread serves
    key,        \* session id of the request; startSession and then nextKey
    size,       \* page size, or requests left in the add stream
    r, tmp,     \* the locals of these names: record in hand, saved successor
    out,        \* response entries built so far
    status,     \* gRPC status of the finished call
    cancelled,  \* the call's deadline passed or the client cancelled it
    lost,       \* closed sessions removed here whose report was not sent
    ub          \* "none", or the undefined behaviour that was met

locals == <<pc, op, key, size, r, tmp, out, status, cancelled>>
table == <<sessions, heap, start>>
vars == <<table, locals, lost, ub>>

State == {"_ESTABLISHED", "_CLOSED"}
Record == [id : Ids, state : State]
Error == {"_RESOURCE_EXHAUSTED", "_ALREADY_EXISTS"}
Entry == [id : Ids, what : State \cup Error]

Ops == {"add", "get", "del", "closed", "all"}
Labels == {"idle", "check", "reply",
           "add_read", "add_count", "add_find", "add_link", "add_fill",
           "get_find", "get_copy", "del_find", "del_unlink",
           "closed_begin", "closed_body", "closed_next", "closed_write",
           "all_begin", "all_step"}

-----------------------------------------------------------------------------
(* uthash, as far as the table functions use it. *)

Alive(p) == p \in DOMAIN heap

Position(p) == CHOOSE i \in DOMAIN sessions : sessions[i] = p

\* HASH_FIND; which of several records with one id it meets depends on the
\* bucket chains, so any of them may be the one
Found(id) == {p \in Range(sessions) : Alive(p) /\ heap[p].id = id}

First == IF sessions = <<>> THEN NULL ELSE sessions[1]

\* p->hh.next
Succ(p) == IF /\ p \in Range(sessions)
              /\ Position(p) < Len(sessions)
           THEN sessions[Position(p) + 1]
           ELSE NULL

\* HASH_ADD of a record allocated at p
Link(p, rec) ==
    /\ sessions' = Append(sessions, p)
    /\ heap' = [q \in DOMAIN heap \cup {p} |-> IF q = p THEN rec ELSE heap[q]]

\* HASH_DEL and free
UnlinkAndFree(p) ==
    /\ sessions' = RemoveAt(sessions, Position(p))
    /\ heap' = [q \in DOMAIN heap \ {p} |-> heap[q]]

-----------------------------------------------------------------------------
(* Control flow shared by the handlers. *)

Goto(t, label) == pc' = [pc EXCEPT ![t] = label]

Return(t, s) == Goto(t, "reply") /\ status' = [status EXCEPT ![t] = s]

\* the table function returns: its locals are gone
Forget(t) ==
    /\ r' = [r EXCEPT ![t] = NULL]
    /\ tmp' = [tmp EXCEPT ![t] = NULL]

\* a handler touches memory it must not touch
Undefined(t, what) ==
    /\ ub' = what
    /\ UNCHANGED <<table, locals, lost>>

At(t, label) == ub = "none" /\ pc[t] = label

ThreadsIdle ==
    /\ pc = [t \in Threads |-> "idle"]
    /\ op = [t \in Threads |-> "none"]
    /\ key = [t \in Threads |-> 0]
    /\ size = [t \in Threads |-> 0]
    /\ r = [t \in Threads |-> NULL]
    /\ tmp = [t \in Threads |-> NULL]
    /\ out = [t \in Threads |-> <<>>]
    /\ status = [t \in Threads |-> "none"]
    /\ cancelled = [t \in Threads |-> FALSE]
    /\ lost = {}
    /\ ub = "none"

Init ==
    /\ sessions = <<>>
    /\ heap = <<>>
    /\ start = NULL
    /\ ThreadsIdle

\* gRPC hands a call of the client to an idle thread
Call(t, o, k, n) ==
    /\ At(t, "idle")
    /\ Goto(t, IF o = "add" THEN "add_read" ELSE "check")
    /\ op' = [op EXCEPT ![t] = o]
    /\ key' = [key EXCEPT ![t] = k]
    /\ size' = [size EXCEPT ![t] = n]
    /\ UNCHANGED <<table, r, tmp, out, status, cancelled, lost, ub>>

CallAdd(t) == \E n \in BatchSizes : Call(t, "add", 0, n)
CallGet(t) == \E id \in Ids : Call(t, "get", id, 0)
CallDelete(t) == \E id \in Ids : Call(t, "del", id, 0)
CallClosed(t) == \E n \in PageSizes : Call(t, "closed", 0, n)
CallAll(t) == \E k \in StartKeys, n \in PageSizes : Call(t, "all", k, n)

\* the deadline of the call passes, or its client goes away
Cancel(t) ==
    /\ ub = "none"
    /\ pc[t] # "idle"
    /\ ~cancelled[t]
    /\ cancelled' = [cancelled EXCEPT ![t] = TRUE]
    /\ UNCHANGED <<table, pc, op, key, size, r, tmp, out, status, lost, ub>>

\* context->IsCancelled() at the top of every handler but addSession
CheckCancelled(t) ==
    /\ At(t, "check")
    /\ IF cancelled[t]
       THEN Return(t, "CANCELLED")
       ELSE /\ Goto(t, CASE op[t] = "get" -> "get_find"
                         [] op[t] = "del" -> "del_find"
                         [] op[t] = "closed" -> "closed_begin"
                         [] OTHER -> "all_begin")
            /\ UNCHANGED status
    /\ UNCHANGED <<table, op, key, size, r, tmp, out, cancelled, lost, ub>>

\* gRPC sends the response and the thread is idle again
Reply(t) ==
    /\ At(t, "reply")
    /\ Goto(t, "idle")
    /\ op' = [op EXCEPT ![t] = "none"]
    /\ key' = [key EXCEPT ![t] = 0]
    /\ size' = [size EXCEPT ![t] = 0]
    /\ out' = [out EXCEPT ![t] = <<>>]
    /\ status' = [status EXCEPT ![t] = "none"]
    /\ cancelled' = [cancelled EXCEPT ![t] = FALSE]
    /\ UNCHANGED <<table, r, tmp, lost, ub>>

-----------------------------------------------------------------------------
(* addSession and opof_add_session_server. *)

\* mutation: Read past the end of the stream
AddReadPastEnd(t) ==
    /\ At(t, "add_read")
    /\ ~cancelled[t]
    /\ \E id \in Ids : key' = [key EXCEPT ![t] = id]
    /\ size' = [size EXCEPT ![t] = @ - 1]
    /\ Goto(t, "add_count")
    /\ UNCHANGED <<table, op, r, tmp, out, status, cancelled, lost, ub>>

\* reader->Read returns a request, in time
AddRead(t) ==
    /\ At(t, "add_read")
    /\ size[t] > 0
    /\ ~cancelled[t]
    /\ \E id \in Ids : key' = [key EXCEPT ![t] = id]
    /\ size' = [size EXCEPT ![t] = @ - 1]
    /\ Goto(t, "add_count")
    /\ UNCHANGED <<table, op, r, tmp, out, status, cancelled, lost, ub>>

\* reader->Read returns a request that was buffered before the cancellation
AddCancelled(t) ==
    /\ At(t, "add_read")
    /\ size[t] > 0
    /\ cancelled[t]
    /\ Return(t, "CANCELLED")
    /\ UNCHANGED <<table, op, key, size, r, tmp, out, cancelled, lost, ub>>

\* mutation: one request of the stream is enough
AddEndEarly(t) ==
    /\ At(t, "add_read")
    /\ Return(t, "OK")
    /\ UNCHANGED <<table, op, key, size, r, tmp, out, cancelled, lost, ub>>

\* reader->Read returns false: no request is left, or the call was cancelled
AddEnd(t) ==
    /\ At(t, "add_read")
    /\ size[t] = 0 \/ cancelled[t]
    /\ Return(t, "OK")
    /\ UNCHANGED <<table, op, key, size, r, tmp, out, cancelled, lost, ub>>

\* mutation: the error is not added to the response
AddErrorSilent(t, error) ==
    /\ UNCHANGED out
    /\ key' = [key EXCEPT ![t] = 0]
    /\ Goto(t, "add_read")

\* opof_add_session_server returned an error: add_responseerror, next request
AddError(t, error) ==
    /\ out' = [out EXCEPT ![t] = Append(@, [id |-> key[t], what |-> error])]
    /\ key' = [key EXCEPT ![t] = 0]
    /\ Goto(t, "add_read")

\* mutation: a check that lets in one more
TableFullLate == Len(sessions) > HASHTABLE_SIZE + 1

TableFull == Len(sessions) > HASHTABLE_SIZE

\* HASH_COUNT and the capacity check
AddCount(t) ==
    /\ At(t, "add_count")
    /\ \/ TableFull /\ AddError(t, "_RESOURCE_EXHAUSTED")
       \/ ~TableFull /\ Goto(t, "add_find") /\ UNCHANGED <<key, out>>
    /\ UNCHANGED <<table, op, size, r, tmp, status, cancelled, lost, ub>>

\* mutation: no duplicate check
AddFindUnchecked(t) ==
    /\ At(t, "add_find")
    /\ Goto(t, "add_link")
    /\ UNCHANGED <<table, op, key, size, r, tmp, out, status, cancelled, lost, ub>>

\* HASH_FIND and the duplicate check
AddFind(t) ==
    /\ At(t, "add_find")
    /\ \/ Found(key[t]) # {} /\ AddError(t, "_ALREADY_EXISTS")
       \/ Found(key[t]) = {} /\ Goto(t, "add_link") /\ UNCHANGED <<key, out>>
    /\ UNCHANGED <<table, op, size, r, tmp, status, cancelled, lost, ub>>

\* HASH_ADD: the record is zeroed but for its key, and 0 is _ESTABLISHED
AddLink(t) ==
    /\ At(t, "add_link")
    /\ \E p \in Ptr \ DOMAIN heap :
         /\ Link(p, [id |-> key[t], state |-> "_ESTABLISHED"])
         /\ r' = [r EXCEPT ![t] = p]
    /\ Goto(t, "add_fill")
    /\ UNCHANGED <<start, op, key, size, tmp, out, status, cancelled, lost, ub>>

\* mutation: the state of the record is left as it was
AddFillNoState(t) ==
    /\ At(t, "add_fill")
    /\ Alive(r[t])
    /\ key' = [key EXCEPT ![t] = 0]
    /\ Forget(t)
    /\ Goto(t, "add_read")
    /\ UNCHANGED <<table, op, size, out, status, cancelled, lost, ub>>

\* the other fields; a new session is entered as _CLOSED
AddFill(t) ==
    /\ At(t, "add_fill")
    /\ Alive(r[t])
    /\ heap' = [heap EXCEPT ![r[t]].state = "_CLOSED"]
    /\ key' = [key EXCEPT ![t] = 0]
    /\ Forget(t)
    /\ Goto(t, "add_read")
    /\ UNCHANGED <<sessions, start, op, size, out, status, cancelled, lost, ub>>

-----------------------------------------------------------------------------
(* getSession and deleteSession. *)

\* HASH_FIND of either call; a miss ends it
Find(t, here, there) ==
    /\ At(t, here)
    /\ \/ /\ Found(key[t]) = {}
          /\ Return(t, "NOT_FOUND")
          /\ UNCHANGED r
       \/ /\ \E p \in Found(key[t]) : r' = [r EXCEPT ![t] = p]
          /\ Goto(t, there)
          /\ UNCHANGED status
    /\ UNCHANGED <<table, op, key, size, tmp, out, cancelled, lost, ub>>

GetFind(t) == Find(t, "get_find", "get_copy")

GetCopy(t) ==
    /\ At(t, "get_copy")
    /\ Alive(r[t])
    /\ out' = [out EXCEPT ![t] = <<[id |-> key[t], what |-> heap[r[t]].state]>>]
    /\ Forget(t)
    /\ Return(t, "OK")
    /\ UNCHANGED <<table, op, key, size, cancelled, lost, ub>>

DelFind(t) == Find(t, "del_find", "del_unlink")

\* copy the statistics, HASH_DEL, free; the reported state is _CLOSED
DelUnlink(t) ==
    /\ At(t, "del_unlink")
    /\ Alive(r[t])
    /\ out' = [out EXCEPT ![t] = <<[id |-> key[t], what |-> "_CLOSED"]>>]
    /\ UnlinkAndFree(r[t])
    /\ Forget(t)
    /\ Return(t, "OK")
    /\ UNCHANGED <<start, op, key, size, cancelled, lost, ub>>

-----------------------------------------------------------------------------
(* getClosedSessions and opof_get_closed_sessions_server. *)

\* how the handler goes on when the scan has collected the entries es
ClosedScanned(t, es) ==
    /\ Forget(t)
    /\ \/ es = <<>> /\ Return(t, "NOT_FOUND")
       \/ es # <<>> /\ Goto(t, "closed_write") /\ UNCHANGED status

\* mutation: the scan saves the record in hand instead of its successor
ClosedBeginUnsafe(t) ==
    /\ At(t, "closed_begin")
    /\ \/ /\ sessions = <<>>
          /\ ClosedScanned(t, <<>>)
       \/ /\ sessions # <<>>
          /\ r' = [r EXCEPT ![t] = First]
          /\ tmp' = [tmp EXCEPT ![t] = First]
          /\ Goto(t, "closed_body")
          /\ UNCHANGED status
    /\ UNCHANGED <<table, op, key, size, out, cancelled, lost, ub>>

\* HASH_ITER starts: el = head, tmp = head's successor
ClosedBegin(t) ==
    /\ At(t, "closed_begin")
    /\ \/ /\ sessions = <<>>
          /\ ClosedScanned(t, <<>>)
       \/ /\ sessions # <<>>
          /\ r' = [r EXCEPT ![t] = First]
          /\ tmp' = [tmp EXCEPT ![t] = Succ(First)]
          /\ Goto(t, "closed_body")
          /\ UNCHANGED status
    /\ UNCHANGED <<table, op, key, size, out, cancelled, lost, ub>>

\* the record in hand is not closed: the body does nothing
ClosedSkip(t) ==
    /\ At(t, "closed_body")
    /\ Alive(r[t])
    /\ heap[r[t]].state # "_CLOSED"
    /\ Goto(t, "closed_next")
    /\ UNCHANGED <<table, op, key, size, r, tmp, out, status, cancelled,
                   lost, ub>>

\* the record in hand is closed: report it, HASH_DEL, free, stop at the size
ClosedTake(t) ==
    /\ At(t, "closed_body")
    /\ Alive(r[t])
    /\ heap[r[t]].state = "_CLOSED"
    /\ Len(out[t]) < BUFFER_MAX
    /\ out' = [out EXCEPT ![t] =
                  Append(@, [id |-> heap[r[t]].id, what |-> "_CLOSED"])]
    /\ UnlinkAndFree(r[t])
    /\ \/ Len(out'[t]) = size[t] /\ ClosedScanned(t, out'[t])
       \/ /\ Len(out'[t]) # size[t]
          /\ Goto(t, "closed_next")
          /\ UNCHANGED <<r, tmp, status>>
    /\ UNCHANGED <<start, op, key, size, cancelled, lost, ub>>

\* responses[i] is past the end of closedSessions[BUFFER_MAX]
ClosedOverflow(t) ==
    /\ At(t, "closed_body")
    /\ Alive(r[t])
    /\ heap[r[t]].state = "_CLOSED"
    /\ Len(out[t]) >= BUFFER_MAX
    /\ Undefined(t, "overflow")

\* mutation: at the end of the list the scan starts over, until the page is full
ClosedNextStartsOver(t) ==
    /\ At(t, "closed_next")
    /\ LET next == IF tmp[t] = NULL THEN First ELSE tmp[t]
       IN \/ /\ next = NULL
             /\ ClosedScanned(t, out[t])
          \/ /\ Alive(next)
             /\ r' = [r EXCEPT ![t] = next]
             /\ tmp' = [tmp EXCEPT ![t] = Succ(next)]
             /\ Goto(t, "closed_body")
             /\ UNCHANGED status
    /\ UNCHANGED <<table, op, key, size, out, cancelled, lost, ub>>

\* mutation: at the end of the list the scan waits for more, until the page is full
ClosedNextWaits(t) ==
    /\ At(t, "closed_next")
    /\ Alive(tmp[t])
    /\ r' = [r EXCEPT ![t] = tmp[t]]
    /\ tmp' = [tmp EXCEPT ![t] = Succ(tmp[t])]
    /\ Goto(t, "closed_body")
    /\ UNCHANGED <<table, op, key, size, out, status, cancelled, lost, ub>>

\* HASH_ITER goes on: el = tmp, tmp = tmp's successor
ClosedNext(t) ==
    /\ At(t, "closed_next")
    /\ \/ /\ tmp[t] = NULL
          /\ ClosedScanned(t, out[t])
       \/ /\ Alive(tmp[t])
          /\ r' = [r EXCEPT ![t] = tmp[t]]
          /\ tmp' = [tmp EXCEPT ![t] = Succ(tmp[t])]
          /\ Goto(t, "closed_body")
          /\ UNCHANGED status
    /\ UNCHANGED <<table, op, key, size, out, cancelled, lost, ub>>

\* writer->Write, its result unused: nothing is sent on a cancelled call
ClosedWrite(t) ==
    /\ At(t, "closed_write")
    /\ \/ /\ out[t] = <<>>
          /\ Return(t, "OK")
          /\ UNCHANGED <<out, lost>>
       \/ /\ out[t] # <<>>
          /\ out' = [out EXCEPT ![t] = Tail(@)]
          /\ lost' = IF cancelled[t] THEN lost \cup {Head(out[t]).id} ELSE lost
          /\ UNCHANGED <<pc, status>>
    /\ UNCHANGED <<table, op, key, size, r, tmp, cancelled, ub>>

-----------------------------------------------------------------------------
(* getAllSessions and getAllSessionsPage. *)

\* mutation: a listing goes on where the last one stopped
AllBeginNoRewind(t) ==
    /\ At(t, "all_begin")
    /\ \/ start = NULL /\ Return(t, "OK") /\ UNCHANGED r
       \/ /\ start # NULL
          /\ r' = [r EXCEPT ![t] = start]
          /\ Goto(t, "all_step")
          /\ UNCHANGED status
    /\ UNCHANGED <<table, op, key, size, tmp, out, cancelled, lost, ub>>

\* where this page begins; with no session there the page is empty
AllBegin(t) ==
    /\ At(t, "all_begin")
    /\ start' = IF key[t] = UINT_MAX THEN First ELSE start
    /\ \/ /\ start' = NULL
          /\ Return(t, "OK")
          /\ UNCHANGED r
       \/ /\ start' # NULL
          /\ r' = [r EXCEPT ![t] = start']
          /\ Goto(t, "all_step")
          /\ UNCHANGED status
    /\ UNCHANGED <<sessions, heap, op, key, size, tmp, out, cancelled, lost, ub>>

\* mutation: the array is checked before its last slot is counted
PageEndsLate(t) == Len(out[t]) = BUFFER_MAX \/ Succ(r[t]) = NULL

\* the record in hand is the last of its page: the array or the list ends
PageEnds(t) == Len(out[t]) + 1 = BUFFER_MAX \/ Succ(r[t]) = NULL

\* mutation: the next page begins at the record listed last
AllStepStaysBehind(t) ==
    /\ At(t, "all_step")
    /\ Alive(r[t])
    /\ out' = [out EXCEPT ![t] =
                  Append(@, [id |-> heap[r[t]].id, what |-> heap[r[t]].state])]
    /\ \/ /\ ~PageEnds(t)
          /\ r' = [r EXCEPT ![t] = Succ(r[t])]
          /\ UNCHANGED <<start, pc, key, tmp, status>>
       \/ /\ PageEnds(t)
          /\ start' = IF Succ(r[t]) = NULL THEN NULL ELSE r[t]
          /\ key' = [key EXCEPT ![t] = heap[r[t]].id]
          /\ Forget(t)
          /\ Return(t, "OK")
    /\ UNCHANGED <<sessions, heap, op, size, cancelled, lost, ub>>

\* list the record in hand; after the page *sessionStart is the id listed last
\* and start the successor.  The page size of the request is not used
AllStep(t) ==
    /\ At(t, "all_step")
    /\ Alive(r[t])
    /\ out' = [out EXCEPT ![t] =
                  Append(@, [id |-> heap[r[t]].id, what |-> heap[r[t]].state])]
    /\ \/ /\ ~PageEnds(t)
          /\ r' = [r EXCEPT ![t] = Succ(r[t])]
          /\ UNCHANGED <<start, pc, key, tmp, status>>
       \/ /\ PageEnds(t)
          /\ start' = Succ(r[t])
          /\ key' = [key EXCEPT ![t] = heap[r[t]].id]
          /\ Forget(t)
          /\ Return(t, "OK")
    /\ UNCHANGED <<sessions, heap, op, size, cancelled, lost, ub>>

-----------------------------------------------------------------------------
(* Undefined behaviour. *)

\* a pointer to a freed record is followed
Dangling(t) ==
    /\ ub = "none"
    /\ \/ /\ pc[t] \in {"add_fill", "get_copy", "del_unlink", "closed_body",
                          "all_step"}
          /\ ~Alive(r[t])
       \/ /\ pc[t] = "closed_next"
          /\ tmp[t] # NULL
          /\ ~Alive(tmp[t])
    /\ Undefined(t, "dangling")

\* the memory a thread's next step reads or writes: the links and the count of
\* the table, the fields of one record, and the static start
Links == <<"links", NULL>>
Fields(p) == <<"fields", p>>
Cursor == <<"start", NULL>>

Writes(t) ==
    CASE pc[t] = "add_link" -> {Links}
      [] pc[t] = "add_fill" -> {Fields(r[t])}
      [] pc[t] = "del_unlink" -> {Links, Fields(r[t])}
      [] pc[t] = "closed_body" ->
            IF Alive(r[t]) /\ heap[r[t]].state = "_CLOSED"
            THEN {Links, Fields(r[t])} ELSE {}
      [] pc[t] = "all_begin" -> IF key[t] = UINT_MAX THEN {Cursor} ELSE {}
      [] pc[t] = "all_step" -> IF PageEnds(t) THEN {Cursor} ELSE {}
      [] OTHER -> {}

Reads(t) ==
    CASE pc[t] \in {"add_count", "add_find", "get_find", "del_find",
                    "closed_begin", "closed_next"} -> {Links}
      [] pc[t] = "all_begin" ->
            IF key[t] = UINT_MAX THEN {Links, Cursor} ELSE {Cursor}
      [] pc[t] \in {"get_copy", "closed_body"} -> {Fields(r[t])}
      [] pc[t] = "all_step" -> {Links, Fields(r[t])}
      [] OTHER -> {}

\* two threads are about to touch the same memory, one of them writing: no
\* lock orders them
DataRace(t) ==
    /\ ub = "none"
    /\ \E u \in Threads \ {t} : Writes(t) \cap (Reads(u) \cup Writes(u)) # {}
    /\ Undefined(t, "race")

\* nothing more is said of a program that has met undefined behaviour
Halted == ub # "none" /\ UNCHANGED vars

-----------------------------------------------------------------------------
AddStep(t) == \/ AddRead(t) \/ AddCancelled(t) \/ AddEnd(t) \/ AddCount(t)
              \/ AddFind(t) \/ AddLink(t) \/ AddFill(t)
ClosedStep(t) == \/ ClosedBegin(t) \/ ClosedSkip(t) \/ ClosedTake(t)
                 \/ ClosedOverflow(t) \/ ClosedNext(t) \/ ClosedWrite(t)

\* a thread runs the handler of its call
Run(t) ==
    \/ CheckCancelled(t) \/ Reply(t)
    \/ AddStep(t)
    \/ GetFind(t) \/ GetCopy(t)
    \/ DelFind(t) \/ DelUnlink(t)
    \/ ClosedStep(t)
    \/ AllBegin(t) \/ AllStep(t)
    \/ Dangling(t)

Client(t) == \/ CallAdd(t) \/ CallGet(t) \/ CallDelete(t) \/ CallClosed(t)
             \/ CallAll(t) \/ Cancel(t)

Next == (\E t \in Threads : Client(t) \/ Run(t) \/ DataRace(t)) \/ Halted

Spec == Init /\ [][Next]_vars

\* the operating system keeps scheduling the server's threads
FairSpec == Spec /\ \A t \in Threads : WF_vars(Run(t))

-----------------------------------------------------------------------------
(* Properties. *)

\* The variables keep their types.
TypeOK ==
    /\ sessions \in Seq(Ptr)
    /\ DOMAIN heap \subseteq Ptr
    /\ heap \in [DOMAIN heap -> Record]
    /\ start \in Ptr \cup {NULL}
    /\ pc \in [Threads -> Labels]
    /\ op \in [Threads -> Ops \cup {"none"}]
    /\ key \in [Threads -> Nat]
    /\ size \in [Threads -> Nat]
    /\ r \in [Threads -> Ptr \cup {NULL}]
    /\ tmp \in [Threads -> Ptr \cup {NULL}]
    /\ out \in [Threads -> Seq(Entry)]
    /\ status \in [Threads -> {"none", "OK", "NOT_FOUND", "CANCELLED"}]
    /\ cancelled \in [Threads -> BOOLEAN]
    /\ lost \subseteq Ids
    /\ ub \in {"none", "race", "dangling", "overflow"}

\* The capacity check of opof_add_session_server (line 155) lets one session
\* too many in, and one more for every other thread between its check and its
\* HASH_ADD; it never lets in more than that.
Capacity == Len(sessions) <= HASHTABLE_SIZE + Cardinality(Threads)

\* For page sizes of 1..BUFFER_MAX no handler writes past the end of a response
\* array, whichever sessions the other threads add and remove meanwhile.
BufferBound ==
    /\ \A t \in Threads : op[t] \in {"closed", "all"} => Len(out[t]) <= BUFFER_MAX
    /\ PageSizes \subseteq 1 .. BUFFER_MAX => ub # "overflow"

\* A session is _ESTABLISHED, and so out of reach of getClosedSessions, only
\* while the thread that added it has still to fill in its record.
NoStuckSession ==
    \A p \in DOMAIN heap :
        heap[p].state = "_ESTABLISHED" =>
            \E t \in Threads : pc[t] = "add_fill" /\ r[t] = p

\* No two sessions of the table have the same id: what the check at lines
\* 159-166 of opof_server_test.c is for.
UniqueIds == \A p, q \in DOMAIN heap : heap[p].id = heap[q].id => p = q

\* When calls come one at a time, a freed record is followed only by
\* getAllSessions, through the page start it keeps between calls.
OnlyPagingDangles ==
    /\ ub # "race"
    /\ ub = "dangling" => \E t \in Threads : pc[t] = "all_step" /\ out[t] = <<>>

\* The turns of its loop that a scan has still to make if no session is added.
Scanning(t) == pc[t] \in {"closed_body", "closed_next"}
RecordsFrom(p) == IF p \in Range(sessions) THEN Len(sessions) - Position(p) + 1 ELSE 0
TurnsLeft(t) == 2 * RecordsFrom(tmp[t]) + (IF pc[t] = "closed_body" THEN 1 ELSE 0)

\* Whichever records the other threads take out of the list that HASH_ITER walks
\* (line 278 of opof_server_test.c), before or behind it or the very successor it
\* saved, the scan gets nearer to its end with every turn and is never set back;
\* only a session added meanwhile can put its end off.
ScansAdvance ==
    [][\A t \in Threads :
          Scanning(t) /\ Scanning(t)' /\ Len(sessions') <= Len(sessions) =>
              /\ TurnsLeft(t)' <= TurnsLeft(t)
              /\ pc'[t] # pc[t] => TurnsLeft(t)' < TurnsLeft(t)]_vars

\* Thread t scans for closed sessions while another has linked a session that is
\* not filled in yet: one that the scan does not take.
MeetsUnfilled(t) ==
    op[t] = "closed" /\ \E u \in Threads \ {t} : pc[u] = "add_fill"

\* Every call returns, unless it meets undefined behaviour.  There is one way to
\* keep a call going for ever: getClosedSessions walks on as long as the others
\* put new sessions at the end of its list, each still unfilled when the scan
\* comes to it.
EveryCallReturns ==
    \A t \in Threads :
        \/ pc[t] # "idle" ~> (pc[t] = "idle" \/ ub # "none")
        \/ []<>MeetsUnfilled(t)

-----------------------------------------------------------------------------
(* What the properties above rest on. *)

\* While behaviour is defined no record is linked twice, and the linked records
\* are those not yet freed: HASH_ADD, HASH_DEL and free of opof_server_test.c come
\* together.  (Table functions that overlap inside a macro are a race, and then
\* nothing is known of the list.)
ListOK ==
    /\ IsInjective(sessions)
    /\ Range(sessions) = DOMAIN heap

\* Each label belongs to one call, a call asks only for what a client may ask
\* for, and an answer begins empty.
CallOK(t) ==
    /\ pc[t] = "idle" => op[t] = "none" /\ out[t] = <<>>
    /\ pc[t] = "check" => op[t] \in Ops \ {"add"} /\ out[t] = <<>>
    /\ pc[t] \in {"add_read", "add_count", "add_find", "add_link", "add_fill"} =>
          op[t] = "add"
    /\ pc[t] \in {"get_find", "get_copy"} => op[t] = "get"
    /\ pc[t] \in {"del_find", "del_unlink"} => op[t] = "del"
    /\ pc[t] \in {"closed_begin", "closed_body", "closed_next", "closed_write"} =>
          op[t] = "closed"
    /\ pc[t] \in {"all_begin", "all_step"} => op[t] = "all"
    /\ pc[t] \in {"closed_begin", "all_begin"} => out[t] = <<>>
    /\ pc[t] \in {"add_count", "add_find", "add_link", "get_copy", "del_unlink"} =>
          key[t] \in Ids
    /\ op[t] = "closed" => size[t] \in PageSizes

CallsOK == \A t \in Threads : CallOK(t)

\* Threads past the capacity check whose session is not linked yet count too.
Admitted == {t \in Threads : pc[t] \in {"add_find", "add_link"}}

CapacityInv ==
    Len(sessions) + Cardinality(Admitted) <= HASHTABLE_SIZE + Cardinality(Threads)

\* A scan that goes on has not reached its page size, nor a page of a listing
\* the end of its array.
BufferInv ==
    /\ \A t \in Threads :
          /\ op[t] \in {"closed", "all"} => Len(out[t]) <= BUFFER_MAX
          /\ pc[t] = "all_step" => Len(out[t]) < BUFFER_MAX
          /\ pc[t] \in {"closed_body", "closed_next"}
               /\ PageSizes \subseteq 1 .. BUFFER_MAX => Len(out[t]) < size[t]
    /\ PageSizes \subseteq 1 .. BUFFER_MAX => ub # "overflow"

\* With one thread nobody adds an id between the check for it and its HASH_ADD.
CheckedIdIsNew ==
    \A t \in Threads : pc[t] = "add_link" =>
        \A p \in DOMAIN heap : heap[p].id # key[t]

-----------------------------------------------------------------------------
(* The specification a server with one thread implements. *)

StorePhase(t) ==
    CASE pc[t] = "idle" -> "idle"
      [] pc[t] = "reply" -> "done"
      [] pc[t] = "closed_write" -> "sending"
      [] pc[t] = "all_step" -> "listing"
      [] pc[t] \in {"add_count", "add_find", "add_link"} -> "adding"
      [] OTHER -> "busy"

StoreCursor ==
    IF start = NULL THEN [at |-> "end", id |-> 0]
    ELSE IF Alive(start) THEN [at |-> "session", id |-> heap[start].id]
    ELSE [at |-> "stale", id |-> 0]

StoreIds == [i \in DOMAIN sessions |-> heap[sessions[i]].id]
StorePhases == [t \in Threads |-> StorePhase(t)]

\* A request is answered from the moment its effect is complete: what a page
\* listed so far, and the key of a request already entered, do not show.
StoreKeys == [t \in Threads |-> IF pc[t] = "add_fill" THEN 0 ELSE key[t]]
StoreAnswers == [t \in Threads |-> IF pc[t] = "all_step" THEN <<>> ELSE out[t]]

Store == INSTANCE SessionStore WITH
    store <- StoreIds, cursor <- StoreCursor, phase <- StorePhases,
    key <- StoreKeys, out <- StoreAnswers, broken <- ub # "none"

\* With one thread the handlers are atomic for their caller: each request of an
\* add stream is entered or refused for a true reason, closed sessions are
\* collected oldest first up to the page size, a page of a listing is the
\* next BUFFER_MAX sessions, and NOT_FOUND means there is none.
ImplementsStore == Store!Spec

=============================================================================
