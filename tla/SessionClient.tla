----------------------------- MODULE SessionClient -----------------------------
(***************************************************************************)
(* A client of the session table server, from its driver down to the table. *)
(* The driver is opof_test1, opof_test9 or opof_test10 of opof_run_tests.c: *)
(* it cleans up with opof_delete_all_sessions, adds sessions batch by batch *)
(* and collects them as closed sessions.  The calls go through the client   *)
(* library (opof_clientlib.cc, opof_session_client.cc) to SessionServer,    *)
(* whose threads may still serve a call its client has given up.            *)
(*                                                                         *)
(* The driver shares no memory with the server, so what it does between two *)
(* calls is part of the step in which the first of them returns.            *)
(***************************************************************************)
EXTENDS SessionServer

CONSTANTS
    Test,           \* the driver: 1, 9 or 10
    Existing,       \* ids of the sessions that may be in the table beforehand
    MaxSessions,    \* max_sessions: the driver adds the ids 0 .. MaxSessions - 1
    PageSize,       \* pageSize of the driver
    RetryAttempts,  \* getRetryAttempts()
    IntSize,        \* number of values of an unsigned int
    LongSize,       \* number of values of an unsigned long
    Faults,         \* what the environment does to calls and server
    MaxFaults       \* bound on how often

ASSUME DriverAssumption ==
    /\ Test \in {1, 9, 10}
    /\ MaxSessions \in Nat \ {0}
    /\ 0 .. MaxSessions - 1 \subseteq Ids
    /\ Existing \subseteq Ids
    /\ PageSize \in 1 .. BUFFER_MAX
    /\ PageSizes = {PageSize}
    /\ NULL \notin Threads
    /\ RetryAttempts \in Nat
ASSUME WidthAssumption ==
    /\ IntSize \in Nat /\ LongSize \in Nat
    /\ IntSize < LongSize /\ LongSize % IntSize = 0
    /\ UINT_MAX = IntSize - 1
ASSUME FaultAssumption ==
    /\ Faults \subseteq {"deadline", "unavailable", "kill"}
    /\ MaxFaults \in Nat

VARIABLES
    stage,         \* the loop the driver is in: "list" and "delete" clean up
    on,            \* the thread that serves the driver's call, or NULL
    sessionStart,  \* start key of the next page
    todo,          \* ids of the page still to be deleted
    attempts,      \* how often the call was retried
    sessionId,     \* id of the next session to add
    closed,        \* ids the running getClosedSessions call has delivered
    reported,      \* ids that earlier ones delivered
    result,        \* what opof_delete_all_sessions returned
    stream,        \* requests of an add call that its thread has not read
    up,            \* a server process is running
    acked,         \* ids the running server has acknowledged
    faults         \* the loops of the driver that met a fault, in order

driver == <<stage, on, sessionStart, todo, attempts, sessionId, closed,
            reported, result>>
world == <<stream, up, acked, faults>>
allVars == <<vars, driver, world>>

Stages == {"list", "delete", "kill", "add", "collect", "done", "failed"}
Statuses == {"OK", "NOT_FOUND", "CANCELLED", "DEADLINE_EXCEEDED", "UNAVAILABLE"}

IdsOf(entries) == [i \in DOMAIN entries |-> entries[i].id]

-----------------------------------------------------------------------------
(* The client library. *)

\* an unsigned long passed as an int, and the int put into a 64 bit field
AsInt(id) ==
    LET low == id % IntSize
    IN IF low < IntSize \div 2 THEN low ELSE LongSize - IntSize + low

\* a call goes out to an idle thread of the server
Issue(t, o, k, n) ==
    /\ up
    /\ on = NULL
    /\ Call(t, o, k, n)
    /\ on' = t

-----------------------------------------------------------------------------
(* The driver: what it does with the answer of each call. *)

\* the call is made again, up to limit times, after the status retried
Again(st, retried, limit) == st = retried /\ attempts < limit

Retry == attempts' = attempts + 1 /\ UNCHANGED stage

\* opof_get_all_sessions returned a page.  sessionStart takes the answer's
\* nextKey, which is 0 when there is no answer
ListAnswered(st, ids, next) ==
    /\ stage = "list"
    /\ sessionStart' = next
    /\ \/ /\ Again(st, "UNAVAILABLE", RetryAttempts)
          /\ Retry
          /\ UNCHANGED <<todo, result>>
       \/ /\ ~Again(st, "UNAVAILABLE", RetryAttempts)
          /\ attempts' = 0
          /\ todo' = ids
          /\ \/ ids # <<>> /\ stage' = "delete" /\ UNCHANGED result
             \/ /\ ids = <<>>
                /\ stage' = IF Test = 9 THEN "kill" ELSE "add"
                /\ result' = st
    /\ UNCHANGED <<sessionId, closed, reported>>

\* opof_del_session returned; its status is looked at for the retry only
DeleteAnswered(st) ==
    /\ stage = "delete"
    /\ \/ /\ Again(st, "UNAVAILABLE", RetryAttempts)
          /\ Retry
          /\ UNCHANGED todo
       \/ /\ ~Again(st, "UNAVAILABLE", RetryAttempts)
          /\ attempts' = 0
          /\ todo' = Tail(todo)
          /\ stage' = IF Tail(todo) = <<>> THEN "list" ELSE "delete"
    /\ UNCHANGED <<sessionStart, sessionId, closed, reported, result>>

\* mutation: the last batch is not cut
BatchSizeUncut == PageSize

\* the batch opof_add_session is called with
BatchSize == IF MaxSessions - sessionId < PageSize
             THEN MaxSessions - sessionId ELSE PageSize
Batch == [i \in 1 .. BatchSize |-> sessionId + i - 1]

\* test 9 retries while the server is away, test 10 once after a deadline
AddAgain(st) == \/ Test = 9 /\ Again(st, "UNAVAILABLE", RetryAttempts)
                \/ Test = 10 /\ Again(st, "DEADLINE_EXCEEDED", 1)

AddAnswered(st) ==
    /\ stage = "add"
    /\ \/ AddAgain(st) /\ Retry /\ UNCHANGED sessionId
       \/ /\ ~AddAgain(st)
          /\ attempts' = 0
          /\ \/ st # "OK" /\ stage' = "failed" /\ UNCHANGED sessionId
             \/ /\ st = "OK"
                /\ sessionId' = sessionId + BatchSize
                /\ stage' = IF sessionId' < MaxSessions THEN "add" ELSE "collect"
    /\ UNCHANGED <<sessionStart, todo, closed, reported, result>>

CollectAgain(st) == Test = 10 /\ Again(st, "DEADLINE_EXCEEDED", 1)

\* mutation: the count of the call before is kept
CollectKeepsCount(st) ==
    /\ stage = "collect"
    /\ UNCHANGED <<closed, attempts>>
    /\ reported' = reported \o closed
    /\ stage' = IF closed = <<>> THEN "done" ELSE "collect"
    /\ UNCHANGED <<sessionStart, todo, sessionId, result>>

\* mutation: the loop waits for a call that succeeds with nothing left
CollectUntilOK(st) ==
    /\ stage = "collect"
    /\ closed' = <<>>
    /\ attempts' = 0
    /\ reported' = reported \o closed
    /\ stage' = IF closed = <<>> /\ st = "OK" THEN "done" ELSE "collect"
    /\ UNCHANGED <<sessionStart, todo, sessionId, result>>

\* mutation: an answer overwrites what the calls before it reported
CollectOverwrites(st) ==
    /\ stage = "collect"
    /\ closed' = <<>>
    /\ attempts' = 0
    /\ reported' = IF closed = <<>> THEN reported ELSE closed
    /\ stage' = IF closed = <<>> THEN "done" ELSE "collect"
    /\ UNCHANGED <<sessionStart, todo, sessionId, result>>

\* opof_get_closed_sessions returned; the loop ends on an empty answer, and a
\* retry of test 10 overwrites what the first call had delivered
CollectAnswered(st) ==
    /\ stage = "collect"
    /\ closed' = <<>>
    /\ \/ CollectAgain(st) /\ Retry /\ UNCHANGED reported
       \/ /\ ~CollectAgain(st)
          /\ attempts' = 0
          /\ reported' = reported \o closed
          /\ stage' = IF closed = <<>> THEN "done" ELSE "collect"
    /\ UNCHANGED <<sessionStart, todo, sessionId, result>>

\* the call in progress, or the one the driver wants to make, ends
Answered(st, ids, next) ==
    /\ on' = NULL
    /\ \/ ListAnswered(st, ids, next)
       \/ DeleteAnswered(st)
       \/ AddAnswered(st)
       \/ CollectAnswered(st)

Fails(st) == Answered(st, <<>>, 0)

\* the driver makes its next call
ListCall(t) == /\ stage = "list"
               /\ Issue(t, "all", sessionStart, PageSize)
               /\ UNCHANGED stream
DeleteCall(t) == /\ stage = "delete"
                 /\ Issue(t, "del", AsInt(Head(todo)), 0)
                 /\ UNCHANGED stream
AddCall(t) == /\ stage = "add"
              /\ Issue(t, "add", 0, BatchSize)
              /\ stream' = [stream EXCEPT ![t] = Batch]
CollectCall(t) == /\ stage = "collect"
                  /\ Issue(t, "closed", 0, PageSize)
                  /\ UNCHANGED stream

DriverCall(t) ==
    /\ ListCall(t) \/ DeleteCall(t) \/ AddCall(t) \/ CollectCall(t)
    /\ UNCHANGED <<stage, sessionStart, todo, attempts, sessionId, closed,
                   reported, result, up, acked, faults>>

-----------------------------------------------------------------------------
(* The server's steps, and what the client sees of them. *)

\* a request of an add stream is read
Receive(t) ==
    /\ AddRead(t)
    /\ key'[t] = Head(stream[t])
    /\ stream' = [stream EXCEPT ![t] = Tail(@)]
    /\ UNCHANGED <<driver, up, acked, faults>>

\* a closed session is written; only a client that waits for it receives it
Deliver(t) ==
    /\ ClosedWrite(t)
    /\ closed' = IF on = t /\ out[t] # <<>>
                 THEN Append(closed, Head(out[t]).id) ELSE closed
    /\ UNCHANGED <<stage, on, sessionStart, todo, attempts, sessionId, reported,
                   result, world>>

\* ids of an add call that its answer does not report as refused for capacity
Refused(t) == {e.id : e \in {x \in Range(out[t]) : x.what = "_RESOURCE_EXHAUSTED"}}
Entered(t) == Range(Batch) \ Refused(t)

\* the handler returns; its answer is dropped when the client gave up
Answer(t) ==
    /\ Reply(t)
    /\ stream' = [stream EXCEPT ![t] = <<>>]
    /\ \/ /\ on = t
          /\ Answered(status[t], IdsOf(out[t]), key[t])
          /\ acked' = IF op[t] = "add" /\ status[t] = "OK"
                      THEN acked \cup Entered(t) ELSE acked
       \/ /\ on # t
          /\ UNCHANGED <<driver, acked>>
    /\ UNCHANGED <<up, faults>>

\* every other step of a handler
Work(t) ==
    /\ pc[t] \notin {"closed_write", "reply"}
    /\ Run(t)
    /\ pc[t] = "add_read" => pc'[t] # "add_count"
    /\ UNCHANGED <<driver, world>>

Race(t) == DataRace(t) /\ UNCHANGED <<driver, world>>

\* the server notices that the client gave up
NoticeCancel(t) ==
    /\ on # t
    /\ Cancel(t)
    /\ UNCHANGED <<driver, world>>

-----------------------------------------------------------------------------
(* Faults. *)

Fault(kind) ==
    /\ ub = "none"
    /\ kind \in Faults
    /\ Len(faults) < MaxFaults
    /\ faults' = Append(faults, stage)

\* the deadline of the driver's call passes
Deadline ==
    /\ Fault("deadline")
    /\ on # NULL
    /\ Fails("DEADLINE_EXCEEDED")
    /\ UNCHANGED <<vars, stream, up, acked>>

\* the connection breaks, during a call or before it reached the server
Disconnect ==
    /\ Fault("unavailable")
    /\ up
    /\ Fails("UNAVAILABLE")
    /\ UNCHANGED <<vars, stream, up, acked>>

\* the process ends, and its table and its handlers with it
Die ==
    /\ ub = "none"
    /\ up
    /\ up' = FALSE
    /\ sessions' = <<>> /\ heap' = <<>> /\ start' = NULL
    /\ pc' = [t \in Threads |-> "idle"]
    /\ op' = [t \in Threads |-> "none"]
    /\ key' = [t \in Threads |-> 0]
    /\ size' = [t \in Threads |-> 0]
    /\ r' = [t \in Threads |-> NULL]
    /\ tmp' = [t \in Threads |-> NULL]
    /\ out' = [t \in Threads |-> <<>>]
    /\ status' = [t \in Threads |-> "none"]
    /\ cancelled' = [t \in Threads |-> FALSE]
    /\ stream' = [t \in Threads |-> <<>>]
    /\ acked' = {}
    /\ UNCHANGED <<lost, ub>>

\* somebody kills the server
Crash ==
    /\ Fault("kill")
    /\ Die
    /\ \/ on = NULL /\ UNCHANGED driver
       \/ on # NULL /\ Fails("UNAVAILABLE")

\* test 9 kills the server before it adds its sessions (that it finds none to
\* kill, and reads an uninitialized line for its pid, is left out)
KillTestServer ==
    /\ stage = "kill"
    /\ Die
    /\ stage' = "add"
    /\ UNCHANGED <<on, sessionStart, todo, attempts, sessionId, closed, reported,
                   result, faults>>

\* the server is started again: by an operator, or in the retry loop of test 9
StartTestServer ==
    /\ ~up
    /\ up' = TRUE
    /\ UNCHANGED <<vars, driver, stream, acked, faults>>

\* a call while no server is running
NoServer ==
    /\ ~up
    /\ Fails("UNAVAILABLE")
    /\ UNCHANGED <<vars, world>>

-----------------------------------------------------------------------------
\* the table as earlier clients left it, its listing anywhere
Populated ==
    \E n \in 0 .. HASHTABLE_SIZE + 1 :
      \E ids \in {s \in [1 .. n -> Existing] : IsInjective(s)},
         ptrs \in {s \in [1 .. n -> Ptr] : IsInjective(s)} :
        /\ sessions = ptrs
        /\ heap = [p \in Range(ptrs) |->
                     [id |-> ids[CHOOSE i \in 1 .. n : ptrs[i] = p],
                      state |-> "_CLOSED"]]
        /\ start \in Range(ptrs) \cup {NULL}

ClientInit ==
    /\ Populated
    /\ ThreadsIdle
    /\ stage = "list"
    /\ on = NULL
    /\ sessionStart = UINT_MAX
    /\ todo = <<>>
    /\ attempts = 0
    /\ sessionId = 0
    /\ closed = <<>>
    /\ reported = <<>>
    /\ result = "none"
    /\ stream = [t \in Threads |-> <<>>]
    /\ up = TRUE
    /\ acked = {}
    /\ faults = <<>>

\* the driver has returned and no handler is left, or behaviour is undefined
Ended ==
    /\ \/ stage \in {"done", "failed"} /\ \A t \in Threads : pc[t] = "idle"
       \/ ub # "none"
    /\ UNCHANGED allVars

Serve(t) == Receive(t) \/ Deliver(t) \/ Answer(t) \/ Work(t)

ClientNext ==
    \/ \E t \in Threads : DriverCall(t) \/ Serve(t) \/ Race(t) \/ NoticeCancel(t)
    \/ KillTestServer \/ StartTestServer \/ NoServer
    \/ Deadline \/ Disconnect \/ Crash
    \/ Ended

ClientSpec == ClientInit /\ [][ClientNext]_allVars

\* Server threads are scheduled, and the driver's process goes on, whether a server
\* answers its next call or none is running.  That a dead server ever comes back is
\* not assumed.
ClientFairSpec ==
    /\ ClientSpec
    /\ \A t \in Threads : WF_allVars(Serve(t))
    /\ WF_allVars((\E t \in Threads : DriverCall(t)) \/ NoServer)
    /\ WF_allVars(KillTestServer)

-----------------------------------------------------------------------------
(* Properties. *)

\* The variables of the driver and of its environment keep their types.
ClientTypeOK ==
    /\ stage \in Stages
    /\ on \in Threads \cup {NULL}
    /\ sessionStart \in Nat
    /\ todo \in Seq(Ids)
    /\ attempts \in Nat
    /\ sessionId \in 0 .. MaxSessions
    /\ closed \in Seq(Ids) /\ reported \in Seq(Ids)
    /\ result \in Statuses \cup {"none"}
    /\ stream \in [Threads -> Seq(Ids)]
    /\ up \in BOOLEAN
    /\ acked \subseteq Ids
    /\ faults \in Seq(Stages)

TableIds == {heap[p].id : p \in Range(sessions)}

\* sessions that getClosedSessions has removed and not written yet
Underway == UNION {Range(IdsOf(out[t])) : t \in {u \in Threads : op[u] = "closed"}}

CleanupReturnsOK ==
    stage = "list" /\ stage' \in {"kill", "add"} /\ result' = "OK"

\* Session id that an int holds, so that the client library hands it on unchanged.
FitsInt(id) == AsInt(id) = id

\* When opof_delete_all_sessions returns OK, no session is left whose id an int holds,
\* also when the server is killed and started again in between and when other
\* sessions of the table are asked for under a wrong id.  One whose id no int holds
\* is listed, not found, passed over and left behind.
CleanupEmpties ==
    [][CleanupReturnsOK => \A id \in TableIds' : ~FitsInt(id)]_allVars

\* No session is reported closed to the driver twice.
ReportedOnce == IsInjective(reported \o closed)

\* A session the server has acknowledged is in its table, on its way in an
\* answer of getClosedSessions, or reported to the driver.
AcknowledgedIsAccountedFor ==
    ub = "none" =>
        acked \subseteq TableIds \cup Range(reported) \cup Range(closed)
                  \cup Underway

\* While sessions are added, those acknowledged are in the table, even when a
\* retry of an add call runs beside the call its client gave up.  A fault of the
\* clean-up's delete calls is excepted: their handlers may still be running, and
\* remove what they found, or what has its address now.
AcknowledgedIsStored ==
    stage = "add" /\ ub = "none" /\ "delete" \notin Range(faults) =>
        acked \subseteq TableIds

\* What a call costs that fails for its client and is executed all the same: a
\* collecting call that was cut short takes with it no more sessions than one page,
\* even if its retry runs beside its handler, and a delete of the clean-up no more
\* than one that was added since.  No other acknowledged session gets lost.
CutShort(loop) == Cardinality({i \in DOMAIN faults : faults[i] = loop})

LossIsBounded ==
    ub = "none" =>
        Cardinality(acked \ (TableIds \cup Range(reported) \cup Range(closed)
                             \cup Underway))
          <= PageSize * CutShort("collect") + CutShort("delete")

\* A driver that met no fault has been told of every session it entered.
EveryAddedIsReported ==
    stage = "done" /\ faults = <<>> => acked = Range(reported)

\* One client whose calls are never cut short by a deadline or a broken connection
\* meets undefined behaviour in one way only: its clean-up deletes, under the id that
\* is left of one no int holds, the session at which the next page begins.
WellDefined ==
    ub # "none" =>
        /\ ub = "dangling" /\ stage = "list"
        /\ \E id \in TableIds : ~FitsInt(id) /\ AsInt(id) \in Existing \ TableIds

\* The driver comes to an end, whatever fails and even if no server ever comes back,
\* when no session of the table has the id UINT_MAX, which is also the key that
\* starts the listing again; sessions that the clean-up cannot delete do not hold it up.
DriverEnds ==
    UINT_MAX \notin Existing => <>(stage \in {"done", "failed"} \/ ub # "none")
=============================================================================
