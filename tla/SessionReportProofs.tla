-------------------------- MODULE SessionReportProofs --------------------------
(***************************************************************************)
(* What becomes of the sessions: each is in the table, on its way in an     *)
(* answer of getClosedSessions, or reported to the driver, and in one of    *)
(* these places only.  The calls are those of one client that no deadline   *)
(* and no broken connection cuts short; the server may be killed at any     *)
(* moment, as often as the bound on the faults allows.                      *)
(***************************************************************************)
EXTENDS SessionClientProofs

-----------------------------------------------------------------------------
(* The table and the answers under the steps of a handler. *)

\* The sessions of the table are those of the live records.
LEMMA TableIdsOfHeap ==
    ASSUME TableOK
    PROVE  TableIds = {heap[p].id : p \in DOMAIN heap} /\ TableIds \subseteq Ids
<1>1. TableIds = {heap[p].id : p \in DOMAIN heap}
  BY DEF TableOK, ListOK, TableIds
<1>2. \A p \in DOMAIN heap : heap[p].id \in Ids
  BY DEF TableOK, Record
<1> QED
  BY <1>1, <1>2

\* A handler enters the session in its hand, takes one out, or leaves the
\* sessions of the table as they are.
LEMMA TableIdsStep ==
    ASSUME BaseInv, UniqueIds, NEW t \in Threads, Alone(t), Run(t)
    PROVE  /\ AddLink(t) => TableIds' = TableIds \cup {key[t]}
           /\ ClosedTake(t) \/ DelUnlink(t) =>
                /\ r[t] \in DOMAIN heap /\ heap[r[t]].id \in TableIds
                /\ TableIds' = TableIds \ {heap[r[t]].id}
           /\ ~(AddLink(t) \/ ClosedTake(t) \/ DelUnlink(t)) => TableIds' = TableIds
<1>1. [Next]_vars
  BY DEF Next
<1>2. TableOK /\ TableOK'
  BY <1>1, TableInductive DEF BaseInv
<1>3. /\ TableIds = {heap[p].id : p \in DOMAIN heap}
      /\ TableIds' = {heap'[p].id : p \in DOMAIN heap'}
  <2>1. TableOK' => TableIds' = {heap'[p].id : p \in DOMAIN heap'}
    BY DEF TableOK, ListOK, TableIds
  <2> QED
    BY <1>2, <2>1, TableIdsOfHeap
<1>4. ASSUME NEW u \in Threads,
             AddLink(u) \/ AddFill(u) \/ DelUnlink(u) \/ ClosedTake(u)
      PROVE  u = t
  BY <1>4 DEF AddLink, AddFill, DelUnlink, ClosedTake, At, Alone
<1>5. ASSUME UNCHANGED <<sessions, heap>>
      PROVE  TableIds' = TableIds
  BY <1>3, <1>5
<1>6. ASSUME AddLink(t)
      PROVE  TableIds' = TableIds \cup {key[t]}
  <2>1. PICK p \in Ptr \ DOMAIN heap :
           Link(p, [id |-> key[t], state |-> "_ESTABLISHED"])
    BY <1>6 DEF AddLink
  <2>2. /\ DOMAIN heap' = DOMAIN heap \cup {p} /\ heap'[p].id = key[t]
        /\ \A q \in DOMAIN heap : heap'[q] = heap[q]
    BY <2>1 DEF Link
  <2> QED
    BY <1>3, <2>2
<1>7. ASSUME AddFill(t)
      PROVE  TableIds' = TableIds
  <2>1. DOMAIN heap' = DOMAIN heap /\ \A q \in DOMAIN heap : heap'[q].id = heap[q].id
    BY <1>2, <1>7, FillKeepsTable DEF AddFill, Alive
  <2> QED
    BY <1>3, <2>1
<1>8. ASSUME ClosedTake(t) \/ DelUnlink(t)
      PROVE  /\ r[t] \in DOMAIN heap /\ heap[r[t]].id \in TableIds
             /\ TableIds' = TableIds \ {heap[r[t]].id}
  <2>1. r[t] \in DOMAIN heap /\ UnlinkAndFree(r[t])
    BY <1>8 DEF ClosedTake, DelUnlink, Alive
  <2>2. DOMAIN heap' = DOMAIN heap \ {r[t]} /\ \A q \in DOMAIN heap' : heap'[q] = heap[q]
    BY <2>1 DEF UnlinkAndFree
  <2>3. \A q \in DOMAIN heap : heap[q].id = heap[r[t]].id => q = r[t]
    BY <2>1 DEF UniqueIds
  <2> QED
    BY <1>3, <2>1, <2>2, <2>3
<1>9. ASSUME ~(AddLink(t) \/ ClosedTake(t) \/ DelUnlink(t))
      PROVE  TableIds' = TableIds
  BY <1>1, <1>4, <1>5, <1>7, <1>9, TableStep
<1> QED
  BY <1>6, <1>8, <1>9

\* Whatever other threads do, HASH_ADD enters the session in hand, and filling in
\* its record enters none.
LEMMA TableIdsOfAdd ==
    ASSUME TableOK, CallsOK, NEW t \in Threads
    PROVE  /\ AddLink(t) => TableIds' = TableIds \cup {key[t]}
           /\ AddFill(t) => TableIds' = TableIds
<1>1. TableIds = {heap[p].id : p \in DOMAIN heap}
  BY TableIdsOfHeap
<1>2. TableOK' => TableIds' = {heap'[p].id : p \in DOMAIN heap'}
  BY DEF TableOK, ListOK, TableIds
<1>3. ASSUME AddLink(t)
      PROVE  TableIds' = TableIds \cup {key[t]}
  <2> DEFINE rec == [id |-> key[t], state |-> "_ESTABLISHED"]
  <2>1. rec \in Record
    BY <1>3 DEF AddLink, At, CallsOK, CallOK, Record, State
  <2>2. PICK p \in Ptr \ DOMAIN heap : Link(p, rec)
    BY <1>3 DEF AddLink
  <2>3. /\ TableOK' /\ DOMAIN heap' = DOMAIN heap \cup {p} /\ heap'[p] = rec
        /\ \A q \in DOMAIN heap : heap'[q] = heap[q]
    BY <2>1, <2>2, LinkKeepsTable
  <2> QED
    BY <1>1, <1>2, <2>3
<1>4. ASSUME AddFill(t)
      PROVE  TableIds' = TableIds
  <2>1. /\ TableOK' /\ DOMAIN heap' = DOMAIN heap
        /\ \A q \in DOMAIN heap : heap'[q].id = heap[q].id
    BY <1>4, FillKeepsTable DEF AddFill, Alive
  <2> QED
    BY <1>1, <1>2, <2>1
<1> QED
  BY <1>3, <1>4

\* getClosedSessions changes its answer by the session it takes, until it writes.
LEMMA WorkOfClosed ==
    ASSUME BaseInv, NEW t \in Threads, Work(t), op[t] = "closed"
    PROVE  ClosedTake(t) \/ out' = out
<1> USE DEF At
<1>1. CallOK(t)
  BY DEF BaseInv, CallsOK
<1>2. ~Reply(t) /\ ~ClosedWrite(t)
  BY DEF Work, Reply, ClosedWrite
<1>3. ~AddStep(t)
  BY <1>1 DEF AddStep, AddRead, AddCancelled, AddEnd, AddCount, AddFind, AddLink,
              AddFill, CallOK
<1>4. ~(GetFind(t) \/ GetCopy(t) \/ DelFind(t) \/ DelUnlink(t))
  BY <1>1 DEF GetFind, GetCopy, DelFind, DelUnlink, Find, CallOK
<1>5. ~(AllBegin(t) \/ AllStep(t))
  BY <1>1 DEF AllBegin, AllStep, CallOK
<1>6. CASE CheckCancelled(t) \/ ClosedBegin(t) \/ ClosedSkip(t) \/ ClosedNext(t)
  BY <1>6 DEF CheckCancelled, ClosedBegin, ClosedSkip, ClosedNext
<1>7. CASE Dangling(t) \/ ClosedOverflow(t)
  BY <1>7 DEF Dangling, ClosedOverflow, Undefined, locals
<1> QED
  BY <1>2, <1>3, <1>4, <1>5, <1>6, <1>7 DEF Work, Run, ClosedStep

\* The answer of a call, or its failure, moves the driver between its loops; no
\* loop is entered again once a later one has begun.
LEMMA AnsweredMoves ==
    ASSUME NEW st, NEW ids, NEW next, Answered(st, ids, next),
           st # "DEADLINE_EXCEEDED"
    PROVE  /\ on' = NULL
           /\ \/ /\ stage = "list" /\ stage' \in {"list", "delete", "kill", "add"}
                 /\ UNCHANGED <<sessionId, closed, reported>>
              \/ /\ stage = "delete" /\ stage' \in {"list", "delete"}
                 /\ UNCHANGED <<sessionId, closed, reported>>
              \/ /\ stage = "add" /\ stage' \in {"add", "collect", "failed"}
                 /\ UNCHANGED <<closed, reported>>
              \/ /\ stage = "collect" /\ stage' \in {"collect", "done"}
                 /\ reported' = reported \o closed /\ closed' = <<>>
                 /\ stage' = "done" <=> closed = <<>>
                 /\ UNCHANGED sessionId
<1>1. CASE ListAnswered(st, ids, next)
  BY <1>1 DEF Answered, ListAnswered, Retry
<1>2. CASE DeleteAnswered(st)
  BY <1>2 DEF Answered, DeleteAnswered, Retry
<1>3. CASE AddAnswered(st)
  BY <1>3 DEF Answered, AddAnswered, Retry
<1>4. CASE CollectAnswered(st)
  BY <1>4 DEF Answered, CollectAnswered, CollectAgain, Again
<1> QED
  BY <1>1, <1>2, <1>3, <1>4 DEF Answered

\* A call fails only because the server died or is not there.
LEMMA FailsMoves ==
    ASSUME Fails("UNAVAILABLE")
    PROVE  Answered("UNAVAILABLE", <<>>, 0)
BY DEF Fails

-----------------------------------------------------------------------------
(* No session in two places. *)

\* The ids the driver has been told, in order.
Told == reported \o closed

\* Until it collects, the driver has been told nothing.
ToldLater == stage \notin {"collect", "done"} => reported = <<>> /\ closed = <<>>

\* No session is in two of the places a session can be in: the table, an answer
\* of getClosedSessions, and what the driver has been told.
OnePlace ==
    /\ IsInjective(Told)
    /\ TableIds \cap Range(Told) = {}
    /\ \A t \in Threads : op[t] = "closed" =>
         /\ IsInjective(IdsOf(out[t]))
         /\ Range(IdsOf(out[t])) \cap (TableIds \cup Range(Told)) = {}

\* Only closed calls have sessions under way.
LEMMA OneClosedCall ==
    ASSUME TypedInv, OneCall, NEW t \in Threads, Alone(t), NEW u \in Threads,
           op[u] = "closed"
    PROVE  u = t
BY DEF TypedInv, BaseInv, CallsOK, CallOK, Alone

\* Sessions leave the table and answers are dropped without harm.
LEMMA OnePlaceKept ==
    ASSUME OnePlace, TableIds' \subseteq TableIds, Told' = Told,
           \A t \in Threads : op'[t] = "closed" =>
              (op[t] = "closed" /\ out'[t] = out[t]) \/ out'[t] = <<>>
    PROVE  OnePlace'
<1>1. IdsOf(<<>>) = <<>> /\ IsInjective(<<>>) /\ Range(<<>>) = {}
  <2>1. IdsOf(<<>>) = <<>>
    <3>1. <<>> \in Seq(Entry)
      OBVIOUS
    <3> QED
      BY <3>1, IdsOfSteps
  <2> QED
    BY <2>1 DEF IsInjective, Range
<1>2. IsInjective(Told)' /\ (TableIds \cap Range(Told) = {})'
  BY DEF OnePlace
<1>3. ASSUME NEW t \in Threads, op'[t] = "closed"
      PROVE  /\ IsInjective(IdsOf(out'[t]))
             /\ Range(IdsOf(out'[t])) \cap (TableIds' \cup Range(Told')) = {}
  <2>1. CASE op[t] = "closed" /\ out'[t] = out[t]
    BY <2>1 DEF OnePlace
  <2>2. CASE out'[t] = <<>>
    BY <1>1, <2>2
  <2> QED
    BY <1>3, <2>1, <2>2
<1> QED
  BY <1>2, <1>3 DEF OnePlace

\* A session that is written moves from the answer to what the driver was told.
LEMMA DeliverMoves ==
    ASSUME TypedInv, NEW t \in Threads, on = t, op[t] = "closed", Deliver(t)
    PROVE  \/ out' = out /\ Told' = Told
           \/ \E x \in Ids :
                /\ out[t] # <<>> /\ x = Head(IdsOf(out[t]))
                /\ IdsOf(out'[t]) = Tail(IdsOf(out[t]))
                /\ Told' = Append(Told, x)
<1> DEFINE es == out[t]
<1>1. es \in Seq(Entry) /\ reported \in Seq(Ids) /\ closed \in Seq(Ids)
      /\ out \in [Threads -> Seq(Entry)]
  BY DEF TypedInv, BaseInv, LocalsOK, ClientTypeOK
<1>2. CASE es = <<>>
  BY <1>2 DEF Deliver, ClosedWrite, Told
<1>3. CASE es # <<>>
  <2>1. out'[t] = Tail(es)
    BY <1>1, <1>3 DEF Deliver, ClosedWrite
  <2>2. Head(es) \in Entry
    BY <1>1, <1>3
  <2>3. Head(es).id \in Ids
    BY <2>2 DEF Entry
  <2>4. IdsOf(Tail(es)) = Tail(IdsOf(es)) /\ Head(IdsOf(es)) = Head(es).id
    BY <1>1, <1>3, IdsOfSteps
  <2>5. closed' = Append(closed, Head(es).id) /\ reported' = reported
    BY <1>3 DEF Deliver
  <2>6. Told' = Append(Told, Head(es).id)
    BY <1>1, <2>3, <2>5, ToldSteps DEF Told
  <2> QED
    BY <1>3, <2>1, <2>3, <2>4, <2>6
<1> QED
  BY <1>2, <1>3

\* The driver's part in it: it is told nothing by an answer or a failure.
LEMMA AnswerTellsNothing ==
    ASSUME TypedInv, NEW st, NEW ids, NEW next, Answered(st, ids, next),
           st # "DEADLINE_EXCEEDED", ToldLater
    PROVE  Told' = Told /\ ToldLater'
<1>1. reported \in Seq(Ids) /\ closed \in Seq(Ids)
  BY DEF TypedInv, ClientTypeOK
<1>2. Told' = Told
  <2>1. reported \o closed \in Seq(Ids)
    BY <1>1
  <2>2. (reported \o closed) \o <<>> = reported \o closed
    BY <2>1
  <2> QED
    BY <2>2, AnsweredMoves DEF Told
<1>3. ToldLater'
  BY AnsweredMoves DEF ToldLater
<1> QED
  BY <1>2, <1>3

\* No step of the driver, of the handler at work or of the environment brings a
\* session to a second place.
LEMMA OnePlaceInductive ==
    ASSUME NoneCut, TypedInv, OneCall, ServerInv, ToldLater, OnePlace,
           [ClientNext]_allVars
    PROVE  ToldLater' /\ OnePlace'
<1>0. /\ Told \in Seq(Ids) /\ reported \in Seq(Ids) /\ closed \in Seq(Ids)
  BY DEF TypedInv, ClientTypeOK, Told
<1>1. ASSUME NEW t \in Threads, Alone(t), pc[t] = "idle", DriverCall(t)
      PROVE  ToldLater' /\ OnePlace'
  <2>1. UNCHANGED <<stage, reported, closed, sessions, heap, out>>
    BY <1>1 DEF DriverCall, ListCall, DeleteCall, AddCall, CollectCall, Issue, Call,
                table
  <2>2. TableIds' = TableIds /\ Told' = Told
    BY <2>1 DEF TableIds, Told
  <2>3. \A u \in Threads : out[u] = <<>>
    BY <1>1 DEF TypedInv, BaseInv, CallsOK, CallOK, Alone
  <2> QED
    BY <2>1, <2>2, <2>3, OnePlaceKept DEF ToldLater
<1>2. ASSUME NEW t \in Threads, Receive(t)
      PROVE  ToldLater' /\ OnePlace'
  <2>1. UNCHANGED <<stage, reported, closed, sessions, heap, out, op>>
    BY <1>2 DEF Receive, AddRead, driver, table
  <2>2. TableIds' = TableIds /\ Told' = Told
    BY <2>1 DEF TableIds, Told
  <2> QED
    BY <2>1, <2>2, OnePlaceKept DEF ToldLater
<1>3. ASSUME NEW t \in Threads, on = t, Alone(t), Deliver(t)
      PROVE  ToldLater' /\ OnePlace'
  <2>1. op[t] = "closed" /\ stage = "collect"
    BY <1>3, DriverAssumption
       DEF Deliver, ClosedWrite, At, TypedInv, BaseInv, CallsOK, CallOK, OneCall, Makes
  <2>2. UNCHANGED <<stage, reported, sessions, heap, op>>
    BY <1>3 DEF Deliver, ClosedWrite, table
  <2>3. TableIds' = TableIds
    BY <2>2 DEF TableIds
  <2>4. ToldLater'
    BY <2>1, <2>2 DEF ToldLater
  <2>5. CASE out' = out /\ Told' = Told
    BY <2>2, <2>3, <2>4, <2>5, OnePlaceKept
  <2>6. ASSUME NEW x \in Ids, out[t] # <<>>, x = Head(IdsOf(out[t])),
               IdsOf(out'[t]) = Tail(IdsOf(out[t])), Told' = Append(Told, x)
        PROVE  OnePlace'
    <3> DEFINE ids == IdsOf(out[t])
    <3>1. out[t] \in Seq(Entry) /\ Told \in Seq(Ids)
      BY DEF TypedInv, BaseInv, LocalsOK, ClientTypeOK, Told
    <3>2. ids \in Seq(Ids) /\ ids # <<>>
      BY <2>6, <3>1, IdsOfTyped
    <3>3. IsInjective(ids) /\ Range(ids) \cap (TableIds \cup Range(Told)) = {}
      BY <2>1 DEF OnePlace
    <3> HIDE DEF ids
    <3>4. /\ x \in Range(ids) /\ Range(ids) = Range(Tail(ids)) \cup {x}
          /\ IsInjective(Tail(ids)) /\ x \notin Range(Tail(ids))
      BY <2>6, <3>2, <3>3, InjectiveTail DEF ids
    <3>5. IsInjective(Told') /\ Range(Told') = Range(Told) \cup {x}
      <4>1. IsInjective(Told) /\ x \notin Range(Told)
        BY <3>3, <3>4 DEF OnePlace
      <4> QED
        BY <2>6, <3>1, <4>1, InjectiveAppend
    <3>6. TableIds' \cap Range(Told') = {}
      BY <2>3, <3>3, <3>4, <3>5 DEF OnePlace
    <3>7. ASSUME NEW u \in Threads, op'[u] = "closed"
          PROVE  /\ IsInjective(IdsOf(out'[u]))
                 /\ Range(IdsOf(out'[u])) \cap (TableIds' \cup Range(Told')) = {}
      <4>1. u = t
        BY <1>3, <2>2, <3>7, OneClosedCall
      <4>2. IdsOf(out'[u]) = Tail(ids)
        BY <2>6, <4>1 DEF ids
      <4>3. Range(Tail(ids)) \cap (TableIds' \cup Range(Told')) = {}
        BY <2>3, <3>3, <3>4, <3>5
      <4> QED
        BY <3>4, <4>2, <4>3
    <3> QED
      BY <3>5, <3>6, <3>7 DEF OnePlace
  <2> QED
    BY <1>3, <2>1, <2>4, <2>5, <2>6, DeliverMoves
<1>4. ASSUME NEW t \in Threads, on = t, Alone(t), Work(t)
      PROVE  ToldLater' /\ OnePlace'
  <2>1. UNCHANGED <<stage, reported, closed, op>>
    BY <1>4, WorkGoesOn DEF Work, driver, TypedInv
  <2>2. Told' = Told /\ ToldLater'
    BY <2>1 DEF Told, ToldLater
  <2>3. Run(t)
    BY <1>4 DEF Work
  <2>4. CASE op[t] # "closed"
    <3>1. \A u \in Threads : op'[u] # "closed"
      BY <1>4, <2>1, <2>4, OneClosedCall
    <3>2. CASE TableIds' \subseteq TableIds
      BY <2>2, <3>1, <3>2, OnePlaceKept
    <3>3. CASE AddLink(t)
      <4>1. stage = "add"
        BY <1>4, <3>3, DriverAssumption
           DEF AddLink, At, TypedInv, BaseInv, CallsOK, CallOK, OneCall, Makes
      <4>2. Told = <<>>
        BY <4>1 DEF ToldLater, Told
      <4>3. Range(Told) = {}
        BY <4>2 DEF Range
      <4> QED
        BY <2>2, <3>1, <4>3 DEF OnePlace
    <3> QED
      BY <1>4, <2>2, <2>3, <3>2, <3>3, TableIdsStep DEF TypedInv, ServerInv
  <2>5. CASE op[t] = "closed"
    <3>1. CASE ClosedTake(t)
      <4> DEFINE x == heap[r[t]].id
                 ids == IdsOf(out[t])
      <4>1. x \in TableIds /\ TableIds' = TableIds \ {x}
        BY <1>4, <2>3, <3>1, TableIdsStep DEF TypedInv, ServerInv
      <4>2. x \in Ids
        BY <4>1, TableIdsOfHeap DEF TypedInv, BaseInv
      <4> DEFINE e == [id |-> x, what |-> "_CLOSED"]
      <4>3. out[t] \in Seq(Entry) /\ out \in [Threads -> Seq(Entry)]
        BY DEF TypedInv, BaseInv, LocalsOK
      <4>4. out'[t] = Append(out[t], e) /\ e.id = x
        BY <3>1, <4>3 DEF ClosedTake
      <4>5. e \in Entry
        BY <4>2 DEF Entry, State
      <4>6. ids \in Seq(Ids)
        BY <4>3, IdsOfTyped
      <4>7. IsInjective(ids) /\ Range(ids) \cap (TableIds \cup Range(Told)) = {}
        BY <2>5 DEF OnePlace
      <4> HIDE DEF x, e
      <4>8. IdsOf(out'[t]) = Append(ids, x)
        BY <4>3, <4>4, <4>5, IdsOfSteps
      <4> HIDE DEF ids
      <4>9. x \notin Range(ids) /\ x \notin Range(Told)
        BY <4>1, <4>7 DEF OnePlace
      <4>10. IsInjective(Append(ids, x)) /\ Range(Append(ids, x)) = Range(ids) \cup {x}
        BY <4>2, <4>6, <4>7, <4>9, InjectiveAppend
      <4>11. ASSUME NEW u \in Threads, op'[u] = "closed"
             PROVE  /\ IsInjective(IdsOf(out'[u]))
                    /\ Range(IdsOf(out'[u])) \cap (TableIds' \cup Range(Told')) = {}
        <5>1. u = t
          BY <1>4, <2>1, <4>11, OneClosedCall
        <5>2. Range(Append(ids, x)) \cap (TableIds' \cup Range(Told')) = {}
          BY <2>2, <4>1, <4>7, <4>9, <4>10
        <5> QED
          BY <4>8, <4>10, <5>1, <5>2
      <4>12. IsInjective(Told') /\ TableIds' \cap Range(Told') = {}
        BY <2>2, <4>1 DEF OnePlace
      <4> QED
        BY <2>2, <4>11, <4>12 DEF OnePlace
    <3>2. CASE out' = out
      <4>1. ~AddLink(t)
        BY <2>5 DEF AddLink, At, TypedInv, BaseInv, CallsOK, CallOK
      <4>2. TableIds' \subseteq TableIds
        BY <1>4, <2>3, <4>1, TableIdsStep DEF TypedInv, ServerInv
      <4> QED
        BY <2>1, <2>2, <3>2, <4>2, OnePlaceKept
    <3> QED
      BY <1>4, <2>5, <3>1, <3>2, WorkOfClosed DEF TypedInv
  <2> QED
    BY <2>4, <2>5
<1>5. ASSUME NEW t \in Threads, on = t, Alone(t), Answer(t)
      PROVE  ToldLater' /\ OnePlace'
  <2>1. Answered(status[t], IdsOf(out[t]), key[t]) /\ status[t] # "DEADLINE_EXCEEDED"
    BY <1>5 DEF Answer, TypedInv, BaseInv, LocalsOK
  <2>2. Told' = Told /\ ToldLater'
    BY <2>1, AnswerTellsNothing
  <2>3. /\ UNCHANGED sessions /\ UNCHANGED heap
        /\ op' = [op EXCEPT ![t] = "none"] /\ out' = [out EXCEPT ![t] = <<>>]
    BY <1>5 DEF Answer, Reply, table
  <2>4. TableIds' = TableIds
    BY <2>3 DEF TableIds
  <2>5. op \in [Threads -> Ops \cup {"none"}] /\ out \in [Threads -> Seq(Entry)]
    BY DEF TypedInv, BaseInv, LocalsOK
  <2> QED
    BY <2>2, <2>3, <2>4, <2>5, OnePlaceKept
<1>6. ASSUME Die, Told' = Told
      PROVE  OnePlace'
  <2>1. TableIds' = {} /\ \A t \in Threads : op'[t] = "none"
    BY <1>6, DieEndsCalls DEF TableIds, Range
  <2> QED
    BY <1>6, <2>1, OnePlaceKept
<1>7. ASSUME Fails("UNAVAILABLE")
      PROVE  Told' = Told /\ ToldLater'
  BY <1>7, FailsMoves, AnswerTellsNothing
<1>8. CASE Crash
  <2>1. Told' = Told /\ ToldLater'
    BY <1>7, <1>8 DEF Crash, driver, Told, ToldLater
  <2> QED
    BY <1>6, <1>8, <2>1 DEF Crash
<1>9. CASE KillTestServer
  <2>1. Told' = Told /\ ToldLater'
    BY <1>9 DEF KillTestServer, Told, ToldLater
  <2> QED
    BY <1>6, <1>9, <2>1 DEF KillTestServer
<1>10. CASE NoServer
  <2>1. Told' = Told /\ ToldLater' /\ UNCHANGED vars
    BY <1>7, <1>10 DEF NoServer
  <2>2. TableIds' = TableIds /\ op' = op /\ out' = out
    BY <2>1 DEF TableIds, vars, table, locals
  <2> QED
    BY <2>1, <2>2, OnePlaceKept
<1>11. CASE UNCHANGED <<vars, driver>>
  <2>1. /\ TableIds' = TableIds /\ op' = op /\ out' = out /\ Told' = Told
        /\ UNCHANGED <<stage, reported, closed>>
    BY <1>11 DEF TableIds, vars, table, locals, Told, driver
  <2> QED
    BY <2>1, OnePlaceKept DEF ToldLater
<1> QED
  BY <1>1, <1>2, <1>3, <1>4, <1>5, <1>8, <1>9, <1>10, <1>11, SerialCases DEF allVars

\* What holds of the driver and the server it calls, one call at a time.
SerialClientInv == TypedInv /\ OneCall /\ ServerInv

\* It holds when the driver starts.
LEMMA SerialClientInit ==
    ASSUME ClientInit
    PROVE  SerialClientInv
<1>1. TypedInv
  BY ClientInitTyped
<1>2. OneCall
  BY DEF ClientInit, ThreadsIdle, OneCall
<1>3. /\ UniqueIds
      /\ \A p \in DOMAIN heap : heap[p].state = "_CLOSED"
  BY PopulatedTable DEF ClientInit
<1>4. /\ \A t \in Threads : pc[t] = "idle" /\ op[t] = "none"
      /\ ub = "none"
  BY DEF ClientInit, ThreadsIdle
<1>5. BufferInv /\ NoStuckSession /\ CheckedIdIsNew /\ \A t \in Threads : HoldsLive(t)
  BY <1>3, <1>4 DEF BufferInv, NoStuckSession, CheckedIdIsNew, HoldsLive
<1> QED
  BY <1>1, <1>2, <1>3, <1>5 DEF SerialClientInv, ServerInv

\* Every step keeps it.
LEMMA SerialClientStep ==
    ASSUME NoneCut, SerialClientInv, [ClientNext]_allVars
    PROVE  SerialClientInv'
BY ClientKeepsBase, ClientTypesInductive, OneCallInductive, ServerInvInductive
   DEF SerialClientInv, TypedInv

\* Whatever is in the table when the driver starts, whenever the server is killed
\* and started again: no session is reported closed to the driver twice
\* (opof_get_closed_sessions_server takes out what it reports, and a new server
\* begins with an empty table).
THEOREM ReportedOnceSerial ==
    ASSUME OnlyKills
    PROVE  ClientSpec => []ReportedOnce
<1> DEFINE Inv == SerialClientInv /\ ToldLater /\ OnePlace
<1>1. ClientInit => Inv
  <2> SUFFICES ASSUME ClientInit PROVE Inv
    OBVIOUS
  <2>1. SerialClientInv
    BY SerialClientInit
  <2>2. /\ reported = <<>> /\ closed = <<>> /\ Told = <<>>
        /\ \A t \in Threads : op[t] = "none"
    BY DEF ClientInit, ThreadsIdle, Told
  <2>3. ToldLater
    BY <2>2 DEF ToldLater
  <2>4. OnePlace
    BY <2>2 DEF OnePlace, IsInjective, Range
  <2> QED
    BY <2>1, <2>3, <2>4
<1>2. Inv /\ [ClientNext]_allVars => Inv'
  BY OnlyKills, KillsCutNone, SerialClientStep, OnePlaceInductive DEF SerialClientInv
<1>3. Inv => ReportedOnce
  BY DEF OnePlace, Told, ReportedOnce
<1> QED
  BY <1>1, <1>2, <1>3, PTL DEF ClientSpec

-----------------------------------------------------------------------------
(* The requests of an add stream are answered in their order. *)

\* The id of the request an add handler reads next, and of the first request
\* that it has neither entered nor refused.
NextId(t) == sessionId + BatchSize - size[t]
InHand(t) == pc[t] \in {"add_count", "add_find", "add_link"}
Undecided(t) == IF InHand(t) THEN NextId(t) - 1 ELSE NextId(t)

\* What is left of the stream are the last ids of the batch, the request in hand
\* is the one before them, and those before it are entered or refused.
AddOrder(t) ==
    op[t] = "add" =>
        /\ size[t] <= BatchSize
        /\ \A i \in 1 .. size[t] : stream[t][i] = NextId(t) + i - 1
        /\ InHand(t) => size[t] < BatchSize /\ key[t] = NextId(t) - 1
        /\ pc[t] = "reply" => size[t] = 0
        /\ sessionId .. Undecided(t) - 1 \subseteq TableIds \cup Refused(t)

AddsInOrder == \A t \in Threads : AddOrder(t)

\* An answer without errors refuses nothing; an error that is added refuses its
\* session when it tells of the capacity, and nothing else.
LEMMA RefusedSteps ==
    ASSUME LocalsOK, NEW t \in Threads
    PROVE  /\ out'[t] = out[t] => Refused(t)' = Refused(t)
           /\ out'[t] = <<>> => Refused(t)' = {}
           /\ \A e \in Entry : out'[t] = Append(out[t], e) =>
                Refused(t)' = IF e.what = "_RESOURCE_EXHAUSTED"
                              THEN Refused(t) \cup {e.id} ELSE Refused(t)
<1>1. out'[t] = out[t] => Refused(t)' = Refused(t)
  BY DEF Refused
<1>2. out'[t] = <<>> => Refused(t)' = {}
  BY DEF Refused, Range
<1>3. ASSUME NEW e \in Entry, out'[t] = Append(out[t], e)
      PROVE  Refused(t)' = IF e.what = "_RESOURCE_EXHAUSTED"
                           THEN Refused(t) \cup {e.id} ELSE Refused(t)
  <2>1. out[t] \in Seq(Entry)
    BY DEF LocalsOK
  <2>2. Range(out'[t]) = Range(out[t]) \cup {e}
    BY <1>3, <2>1, InjectiveAppend
  <2> QED
    BY <2>2 DEF Refused
<1> QED
  BY <1>1, <1>2, <1>3

\* The numbers the order of an add call is told in.
LEMMA AddNumbers ==
    ASSUME TypedInv, NEW t \in Threads
    PROVE  /\ sessionId \in Nat /\ BatchSize \in Nat /\ size[t] \in Nat
           /\ NextId(t) \in Int /\ Undecided(t) \in Int
<1>1. sessionId \in Nat /\ BatchSize \in Nat
  BY BatchTyped, DriverAssumption DEF TypedInv, ClientTypeOK
<1>2. size[t] \in Nat
  BY DEF TypedInv, BaseInv, LocalsOK
<1> QED
  BY <1>1, <1>2 DEF NextId, Undecided

\* Reading a request takes the next id of the batch in hand.
LEMMA ReceiveInOrder ==
    ASSUME TypedInv, NEW t \in Threads, AddOrder(t), Receive(t)
    PROVE  AddOrder(t)'
<1>1. /\ op[t] = "add" /\ pc[t] = "add_read"
      /\ pc'[t] = "add_count" /\ size'[t] = size[t] - 1 /\ size[t] > 0
      /\ key'[t] = Head(stream[t]) /\ stream'[t] = Tail(stream[t])
      /\ UNCHANGED <<sessions, heap, out, sessionId>>
  BY DEF Receive, AddRead, At, Goto, driver, table, TypedInv, BaseInv, LocalsOK,
         CallsOK, CallOK, ClientTypeOK
<1>2. /\ size[t] <= BatchSize
      /\ \A i \in 1 .. size[t] : stream[t][i] = NextId(t) + i - 1
      /\ sessionId .. NextId(t) - 1 \subseteq TableIds \cup Refused(t)
  BY <1>1 DEF AddOrder, Undecided, InHand
<1>3. /\ sessionId \in Nat /\ BatchSize \in Nat /\ size[t] \in Nat /\ NextId(t) \in Int
  BY AddNumbers
<1>4. BatchSize' = BatchSize
  BY <1>1 DEF BatchSize
<1>5. NextId(t)' = NextId(t) + 1
  BY <1>1, <1>3, <1>4 DEF NextId
<1>6. InHand(t)' /\ Undecided(t)' = NextId(t)
  BY <1>1, <1>3, <1>5 DEF InHand, Undecided
<1>7. TableIds' = TableIds /\ Refused(t)' = Refused(t)
  BY <1>1 DEF TableIds, Refused
<1>8. stream[t] \in Seq(Ids) /\ Len(stream[t]) = size[t]
  BY <1>1 DEF TypedInv, ClientTypeOK, InputsOK
<1>9. /\ Head(stream[t]) = stream[t][1]
      /\ \A i \in 1 .. size[t] - 1 : Tail(stream[t])[i] = stream[t][i + 1]
  BY <1>1, <1>8
<1>10. key'[t] = NextId(t)
  BY <1>1, <1>2, <1>3, <1>9
<1>11. \A i \in 1 .. size[t] - 1 : stream[t][i + 1] = NextId(t) + 1 + i - 1
  BY <1>2, <1>3
<1>12. \A i \in 1 .. size'[t] : stream'[t][i] = NextId(t)' + i - 1
  BY <1>1, <1>3, <1>5, <1>9, <1>11
<1>13. size'[t] < BatchSize /\ key'[t] = NextId(t)' - 1
  BY <1>1, <1>2, <1>3, <1>5, <1>10
<1>14. size'[t] <= BatchSize' /\ size'[t] < BatchSize'
  BY <1>1, <1>2, <1>3, <1>4
<1>15. sessionId' .. Undecided(t)' - 1 \subseteq TableIds' \cup Refused(t)'
  BY <1>1, <1>2, <1>6, <1>7
<1> QED
  BY <1>1, <1>12, <1>13, <1>14, <1>15 DEF AddOrder

\* What a step of an add handler does: it enters or refuses the request in its
\* hand, or leaves the requests as they are.
LEMMA AddWorkCases ==
    ASSUME TypedInv, NEW t \in Threads, ~cancelled[t], op[t] = "add", Work(t)
    PROVE  \/ /\ InHand(t)' <=> InHand(t)
              /\ InHand(t) => key'[t] = key[t]
              /\ pc'[t] = "reply" => size[t] = 0
              /\ TableIds' = TableIds /\ Refused(t)' = Refused(t)
           \/ /\ InHand(t) /\ ~InHand(t)' /\ pc'[t] # "reply" /\ key[t] \in Ids
              /\ \/ TableIds' = TableIds \cup {key[t]} /\ Refused(t)' = Refused(t)
                 \/ TableIds' = TableIds /\ Refused(t)' = Refused(t) \cup {key[t]}
                 \/ TableIds' = TableIds /\ Refused(t)' = Refused(t) /\ key[t] \in TableIds
<1> USE DEF At, Goto
<1>0. BaseInv /\ TableOK /\ LocalsOK /\ CallsOK /\ CallOK(t)
  BY DEF TypedInv, BaseInv, CallsOK
<1>1. Run(t)
  BY DEF Work
<1>2. CASE AddEnd(t)
  <2>1. size[t] = 0 /\ pc'[t] = "reply" /\ pc[t] = "add_read" /\ out' = out
    BY <1>0, <1>2 DEF AddEnd, Return, LocalsOK
  <2>2. TableIds' = TableIds /\ Refused(t)' = Refused(t)
    BY <1>2, <2>1 DEF AddEnd, table, TableIds, Refused
  <2> QED
    BY <2>1, <2>2 DEF InHand
<1>3. CASE AddCount(t)
  <2>1. TableIds' = TableIds /\ pc[t] = "add_count"
    BY <1>3 DEF AddCount, table, TableIds
  <2>2. CASE Goto(t, "add_find") /\ UNCHANGED <<key, out>>
    <3>1. Refused(t)' = Refused(t) /\ pc'[t] = "add_find"
      BY <1>0, <2>2 DEF Refused, LocalsOK
    <3> QED
      BY <2>1, <2>2, <3>1 DEF InHand
  <2>3. CASE AddError(t, "_RESOURCE_EXHAUSTED")
    <3> DEFINE e == [id |-> key[t], what |-> "_RESOURCE_EXHAUSTED"]
    <3>1. out'[t] = Append(out[t], e) /\ pc'[t] = "add_read"
      BY <1>0, <2>3 DEF AddError, LocalsOK
    <3>2. e \in Entry /\ key[t] \in Ids
      BY <1>0, <2>1 DEF CallOK, Entry, Error
    <3>3. Refused(t)' = Refused(t) \cup {key[t]}
      BY <1>0, <3>1, <3>2, RefusedSteps
    <3> QED
      BY <2>1, <3>1, <3>2, <3>3 DEF InHand
  <2> QED
    BY <1>3, <2>2, <2>3 DEF AddCount
<1>4. CASE AddFind(t)
  <2>1. TableIds' = TableIds /\ pc[t] = "add_find"
    BY <1>4 DEF AddFind, table, TableIds
  <2>2. CASE Goto(t, "add_link") /\ UNCHANGED <<key, out>>
    <3>1. Refused(t)' = Refused(t) /\ pc'[t] = "add_link"
      BY <1>0, <2>2 DEF Refused, LocalsOK
    <3> QED
      BY <2>1, <2>2, <3>1 DEF InHand
  <2>3. CASE Found(key[t]) # {} /\ AddError(t, "_ALREADY_EXISTS")
    <3> DEFINE e == [id |-> key[t], what |-> "_ALREADY_EXISTS"]
    <3>1. out'[t] = Append(out[t], e) /\ pc'[t] = "add_read"
      BY <1>0, <2>3 DEF AddError, LocalsOK
    <3>2. e \in Entry /\ key[t] \in Ids
      BY <1>0, <2>1 DEF CallOK, Entry, Error
    <3>3. Refused(t)' = Refused(t)
      BY <1>0, <3>1, <3>2, RefusedSteps
    <3>4. key[t] \in TableIds
      BY <2>3 DEF Found, TableIds
    <3> QED
      BY <2>1, <3>1, <3>2, <3>3, <3>4 DEF InHand
  <2> QED
    BY <1>4, <2>2, <2>3 DEF AddFind
<1>5. CASE AddLink(t)
  <2>1. TableIds' = TableIds \cup {key[t]}
    BY <1>0, <1>5, TableIdsOfAdd
  <2>2. pc'[t] = "add_fill" /\ pc[t] = "add_link" /\ out' = out /\ key[t] \in Ids
    BY <1>0, <1>5 DEF AddLink, LocalsOK, CallOK
  <2>3. Refused(t)' = Refused(t)
    BY <2>2 DEF Refused
  <2> QED
    BY <2>1, <2>2, <2>3 DEF InHand
<1>6. CASE AddFill(t)
  <2>1. TableIds' = TableIds
    BY <1>0, <1>6, TableIdsOfAdd
  <2>2. pc'[t] = "add_read" /\ pc[t] = "add_fill" /\ out' = out
    BY <1>0, <1>6 DEF AddFill, LocalsOK
  <2>3. Refused(t)' = Refused(t)
    BY <2>2 DEF Refused
  <2> QED
    BY <2>1, <2>2, <2>3 DEF InHand
<1>7. CASE Dangling(t)
  <2>1. /\ TableIds' = TableIds /\ Refused(t)' = Refused(t) /\ pc' = pc /\ key' = key
        /\ pc[t] # "reply"
    BY <1>7 DEF Dangling, Undefined, table, locals, TableIds, Refused
  <2> QED
    BY <2>1 DEF InHand
<1>8. ~AddRead(t) /\ ~AddCancelled(t) /\ ~Reply(t) /\ ~CheckCancelled(t)
  <2>1. AddRead(t) => pc[t] = "add_read" /\ pc'[t] = "add_count"
    BY <1>0 DEF AddRead, LocalsOK
  <2>2. ~AddCancelled(t) /\ ~Reply(t) /\ ~CheckCancelled(t)
    BY <1>0 DEF AddCancelled, Work, Reply, CheckCancelled, CallOK
  <2> QED
    BY <2>1, <2>2 DEF Work
<1>9. ~(GetFind(t) \/ GetCopy(t) \/ DelFind(t) \/ DelUnlink(t) \/ AllBegin(t) \/ AllStep(t))
  BY <1>0 DEF GetFind, GetCopy, DelFind, DelUnlink, Find, AllBegin, AllStep, CallOK
<1>10. ~ClosedStep(t)
  BY <1>0 DEF ClosedStep, ClosedBegin, ClosedSkip, ClosedTake, ClosedOverflow,
              ClosedNext, ClosedWrite, CallOK
<1> QED
  BY <1>1, <1>2, <1>3, <1>4, <1>5, <1>6, <1>7, <1>8, <1>9, <1>10 DEF Run, AddStep

\* The request in hand is entered or refused before the next one is read.
LEMMA WorkInOrder ==
    ASSUME TypedInv, NEW t \in Threads, ~cancelled[t], op[t] = "add", AddOrder(t),
           Work(t)
    PROVE  AddOrder(t)'
<1>0. TypedInv /\ BaseInv /\ LocalsOK /\ CallOK(t)
  BY DEF TypedInv, BaseInv, CallsOK
<1>1. op' = op /\ size' = size /\ UNCHANGED <<sessionId, stream>>
  BY <1>0, WorkGoesOn DEF Work, driver, world
<1>2. /\ size[t] <= BatchSize
      /\ \A i \in 1 .. size[t] : stream[t][i] = NextId(t) + i - 1
      /\ InHand(t) => size[t] < BatchSize /\ key[t] = NextId(t) - 1
      /\ sessionId .. Undecided(t) - 1 \subseteq TableIds \cup Refused(t)
  BY DEF AddOrder
<1>3. BatchSize' = BatchSize /\ NextId(t)' = NextId(t)
  BY <1>1 DEF BatchSize, NextId
<1>4. /\ sessionId \in Nat /\ BatchSize \in Nat /\ size[t] \in Nat
      /\ NextId(t) \in Int /\ Undecided(t) \in Int
  BY <1>0, AddNumbers
<1>5. CASE InHand(t)' <=> InHand(t)
  <2>1. /\ InHand(t) => key'[t] = key[t]
        /\ pc'[t] = "reply" => size[t] = 0
        /\ TableIds' = TableIds /\ Refused(t)' = Refused(t)
    BY <1>5, AddWorkCases
  <2>2. Undecided(t)' = Undecided(t)
    BY <1>3, <1>5 DEF Undecided
  <2> QED
    BY <1>1, <1>2, <1>3, <1>5, <2>1, <2>2 DEF AddOrder
<1>6. CASE ~(InHand(t)' <=> InHand(t))
  <2>1. /\ InHand(t) /\ ~InHand(t)' /\ pc'[t] # "reply"
        /\ TableIds \cup Refused(t) \cup {key[t]} \subseteq TableIds' \cup Refused(t)'
    BY <1>6, AddWorkCases
  <2>2. /\ Undecided(t) = key[t] /\ Undecided(t)' = key[t] + 1 /\ key[t] \in Int
    BY <1>2, <1>3, <1>4, <2>1 DEF Undecided
  <2>3. sessionId .. Undecided(t)' - 1 \subseteq (sessionId .. Undecided(t) - 1) \cup {key[t]}
    BY <1>4, <2>2
  <2>4. sessionId .. Undecided(t)' - 1 \subseteq TableIds' \cup Refused(t)'
    BY <1>2, <2>1, <2>3
  <2> QED
    BY <1>1, <1>2, <1>3, <2>1, <2>4 DEF AddOrder
<1> QED
  BY <1>5, <1>6

\* The stream of a new call is the batch.
LEMMA AddCallInOrder ==
    ASSUME TypedInv, NEW t \in Threads, DriverCall(t), AddCall(t)
    PROVE  AddOrder(t)'
<1>1. /\ size'[t] = BatchSize /\ stream'[t] = Batch /\ pc'[t] = "add_read"
      /\ UNCHANGED <<sessionId, out>>
  BY DEF AddCall, Issue, Call, Goto, DriverCall, TypedInv, BaseInv, LocalsOK,
         ClientTypeOK
<1>2. sessionId \in Nat /\ BatchSize \in Nat
  BY AddNumbers
<1>3. BatchSize' = BatchSize
  BY <1>1 DEF BatchSize
<1>4. NextId(t)' = sessionId /\ Undecided(t)' = sessionId
  BY <1>1, <1>2, <1>3 DEF NextId, Undecided, InHand
<1>5. \A i \in 1 .. BatchSize : Batch[i] = sessionId + i - 1
  BY DEF Batch
<1>6. sessionId .. sessionId - 1 = {}
  BY <1>2
<1>7. sessionId' .. Undecided(t)' - 1 = {}
  BY <1>1, <1>4, <1>6
<1>8. size'[t] <= BatchSize'
  BY <1>1, <1>2, <1>3
<1> QED
  BY <1>1, <1>3, <1>4, <1>5, <1>7, <1>8 DEF AddOrder, InHand

\* What an answer acknowledges is in the table.
LEMMA EnteredAreStored ==
    ASSUME TypedInv, NEW t \in Threads, op[t] = "add", pc[t] = "reply", AddOrder(t)
    PROVE  Entered(t) \subseteq TableIds
<1>1. sessionId .. Undecided(t) - 1 \subseteq TableIds \cup Refused(t) /\ size[t] = 0
  BY DEF AddOrder
<1>2. sessionId \in Nat /\ BatchSize \in Nat
  BY AddNumbers
<1>3. Undecided(t) = sessionId + BatchSize
  BY <1>1, <1>2 DEF Undecided, NextId, InHand
<1>4. Range(Batch) = sessionId .. sessionId + BatchSize - 1
  BY BatchTyped DEF TypedInv, ClientTypeOK
<1>5. Range(Batch) \subseteq TableIds \cup Refused(t)
  BY <1>1, <1>2, <1>3, <1>4
<1> QED
  BY <1>5 DEF Entered

\* The handler at work answers in order; the others serve no call.
LEMMA AddsInOrderInductive ==
    ASSUME NoneCut, SerialClientInv, AddsInOrder, [ClientNext]_allVars
    PROVE  AddsInOrder'
<1>0. TypedInv /\ OneCall
  BY DEF SerialClientInv
<1>1. ASSUME NEW t \in Threads, Alone(t), pc[t] = "idle", DriverCall(t)
      PROVE  AddsInOrder'
  <2>1. ASSUME NEW u \in Threads, op'[u] = "add"
        PROVE  u = t /\ AddCall(t)
    <3>1. op[u] = "none"
      BY <1>0, <1>1 DEF TypedInv, BaseInv, CallsOK, CallOK, Alone
    <3>2. CASE AddCall(t)
      BY <2>1, <3>1, <3>2 DEF AddCall, Issue, Call, TypedInv, BaseInv, LocalsOK
    <3>3. CASE ListCall(t) \/ DeleteCall(t) \/ CollectCall(t)
      BY <1>0, <2>1, <3>1, <3>3 DEF ListCall, DeleteCall, CollectCall, Issue, Call,
                                    TypedInv, BaseInv, LocalsOK
    <3> QED
      BY <1>1, <3>2, <3>3 DEF DriverCall
  <2>2. ASSUME AddCall(t)
        PROVE  AddOrder(t)'
    BY <1>0, <1>1, <2>2, AddCallInOrder
  <2> QED
    BY <2>1, <2>2 DEF AddsInOrder, AddOrder
<1>2. ASSUME NEW t \in Threads, on = t, Alone(t), ~cancelled[t], Receive(t) \/ Work(t)
      PROVE  AddsInOrder'
  <2>1. op' = op
    BY <1>0, <1>2, WorkGoesOn DEF Receive, AddRead, TypedInv
  <2>2. ASSUME NEW u \in Threads, op[u] = "add"
        PROVE  u = t
    BY <1>0, <1>2, <2>2 DEF TypedInv, BaseInv, CallsOK, CallOK, Alone
  <2>3. ASSUME op[t] = "add"
        PROVE  AddOrder(t)'
    BY <1>0, <1>2, <2>3, ReceiveInOrder, WorkInOrder DEF AddsInOrder
  <2> QED
    BY <2>1, <2>2, <2>3 DEF AddsInOrder, AddOrder
<1>3. ASSUME NEW t \in Threads, Alone(t), Deliver(t)
      PROVE  AddsInOrder'
  <2>1. op' = op /\ op[t] = "closed"
    BY <1>0, <1>3 DEF Deliver, ClosedWrite, At, TypedInv, BaseInv, CallsOK, CallOK
  <2>2. \A u \in Threads : op'[u] # "add"
    BY <1>0, <1>3, <2>1 DEF TypedInv, BaseInv, CallsOK, CallOK, Alone
  <2> QED
    BY <2>2 DEF AddsInOrder, AddOrder
<1>4. ASSUME NEW t \in Threads, Alone(t), Answer(t)
      PROVE  AddsInOrder'
  <2>1. op' = [op EXCEPT ![t] = "none"]
    BY <1>4 DEF Answer, Reply
  <2>2. \A u \in Threads : op'[u] # "add"
    BY <1>0, <1>4, <2>1 DEF TypedInv, BaseInv, LocalsOK, CallsOK, CallOK, Alone
  <2> QED
    BY <2>2 DEF AddsInOrder, AddOrder
<1>5. CASE Crash \/ KillTestServer
  <2>1. \A u \in Threads : op'[u] # "add"
    BY <1>5, DieEndsCalls DEF Crash, KillTestServer
  <2> QED
    BY <2>1 DEF AddsInOrder, AddOrder
<1>6. CASE NoServer /\ on = NULL
  <2>1. \A u \in Threads : op'[u] # "add"
    BY <1>0, <1>6, DriverAssumption
       DEF NoServer, vars, locals, OneCall, TypedInv, BaseInv, CallsOK, CallOK
  <2> QED
    BY <2>1 DEF AddsInOrder, AddOrder
<1>7. CASE UNCHANGED <<vars, driver, stream>>
  BY <1>7 DEF vars, table, locals, driver, AddsInOrder, AddOrder, InHand, Undecided,
              NextId, BatchSize, TableIds, Refused
<1> QED
  BY <1>0, <1>1, <1>2, <1>3, <1>4, <1>5, <1>6, <1>7, SerialCases DEF allVars, world

-----------------------------------------------------------------------------
(* No acknowledged session is lost. *)

\* While the driver cleans up, the server has acknowledged nothing.
AckedLater == stage \in {"list", "delete", "kill"} => acked = {}

\* The sessions an answer of getClosedSessions holds are written before it ends.
AllWritten == \A t \in Threads : op[t] = "closed" /\ pc[t] = "reply" => out[t] = <<>>

\* Where a session can be.
Places == TableIds \cup Range(Told) \cup Underway

AcksInv == AckedLater /\ AllWritten /\ AddsInOrder /\ acked \subseteq Places

\* With one handler at work, the sessions under way are those in its answer.
LEMMA UnderwayOfOne ==
    ASSUME TypedInv, NEW t \in Threads, Alone(t)
    PROVE  Underway = IF op[t] = "closed" THEN Range(IdsOf(out[t])) ELSE {}
<1>1. {u \in Threads : op[u] = "closed"} = IF op[t] = "closed" THEN {t} ELSE {}
  BY DEF TypedInv, BaseInv, CallsOK, CallOK, Alone
<1>2. CASE op[t] = "closed"
  BY <1>1, <1>2 DEF Underway
<1>3. CASE op[t] # "closed"
  BY <1>1, <1>3 DEF Underway
<1> QED
  BY <1>2, <1>3

\* getClosedSessions ends its call when it has written everything, or has found
\* nothing.
LEMMA AllWrittenInductive ==
    ASSUME SerialClientInv, AllWritten, NEW t \in Threads, Alone(t),
           DriverCall(t) \/ Run(t)
    PROVE  AllWritten'
<1> USE DEF At, Goto
<1>0. TypedInv /\ BaseInv /\ LocalsOK /\ CallsOK /\ CallOK(t)
  BY DEF SerialClientInv, TypedInv, BaseInv, CallsOK
<1>1. \A u \in Threads \ {t} : pc'[u] = "idle"
  <2>1. ASSUME DriverCall(t)
        PROVE  \A u \in Threads \ {t} : pc'[u] = "idle"
    BY <1>0, <2>1 DEF Alone, DriverCall, ListCall, DeleteCall, AddCall, CollectCall,
                      Issue, Call, LocalsOK
  <2>2. ASSUME Run(t)
        PROVE  \A u \in Threads \ {t} : pc'[u] = "idle"
    BY <1>0, <2>2, OthersKeepLocals DEF Same, Alone
  <2> QED
    BY <2>1, <2>2
<1>2. SUFFICES ASSUME op'[t] = "closed", pc'[t] = "reply"
               PROVE  out'[t] = <<>>
  BY <1>1 DEF AllWritten
<1>3. ~DriverCall(t)
  <2>1. ASSUME DriverCall(t)
        PROVE  pc'[t] \in {"add_read", "check"}
    BY <1>0, <2>1 DEF DriverCall, ListCall, DeleteCall, AddCall, CollectCall, Issue,
                      Call, LocalsOK
  <2> QED
    BY <1>2, <2>1
<1>4. CASE CheckCancelled(t)
  BY <1>0, <1>4 DEF CheckCancelled, CallOK
<1>5. CASE ClosedBegin(t)
  BY <1>0, <1>5 DEF ClosedBegin, CallOK
<1>6. CASE ClosedSkip(t)
  BY <1>0, <1>2, <1>6 DEF ClosedSkip, LocalsOK
<1>7. CASE ClosedTake(t)
  <2>1. out'[t] # <<>>
    BY <1>0, <1>7 DEF ClosedTake, LocalsOK
  <2> QED
    BY <1>0, <1>2, <1>7, <2>1 DEF ClosedTake, ClosedScanned, LocalsOK
<1>8. CASE ClosedNext(t)
  BY <1>0, <1>2, <1>8 DEF ClosedNext, ClosedScanned, LocalsOK
<1>9. CASE ClosedWrite(t)
  BY <1>0, <1>2, <1>9 DEF ClosedWrite, Return, LocalsOK
<1>10. CASE Dangling(t) \/ ClosedOverflow(t)
  BY <1>2, <1>10 DEF Dangling, ClosedOverflow, Undefined, locals, AllWritten
<1>11. ~Reply(t)
  BY <1>0, <1>2 DEF Reply, LocalsOK
<1>12. ~AddStep(t)
  <2>1. AddStep(t) => op'[t] = "add"
    BY <1>0 DEF AddStep, AddRead, AddCancelled, AddEnd, AddCount, AddFind, AddLink,
                AddFill, CallOK
  <2> QED
    BY <1>2, <2>1
<1>13. ~(GetFind(t) \/ GetCopy(t) \/ DelFind(t) \/ DelUnlink(t) \/ AllBegin(t) \/ AllStep(t))
  BY <1>0, <1>2 DEF GetFind, GetCopy, DelFind, DelUnlink, Find, AllBegin, AllStep, CallOK
<1> QED
  BY <1>3, <1>4, <1>5, <1>6, <1>7, <1>8, <1>9, <1>10, <1>11, <1>12, <1>13
     DEF Run, ClosedStep

\* What the driver knows to be acknowledged stays in one of its places when the
\* table and the answer under way keep what they hold.
LEMMA PlacesKept ==
    ASSUME AcksInv, acked' \subseteq acked, TableIds \subseteq TableIds', Told' = Told,
           \A t \in Threads : op[t] = "closed" =>
              (op'[t] = "closed" /\ out'[t] = out[t]) \/ out[t] = <<>>
    PROVE  acked' \subseteq Places'
<1>1. Range(IdsOf(<<>>)) = {}
  <2>1. <<>> \in Seq(Entry)
    OBVIOUS
  <2>2. IdsOf(<<>>) = <<>>
    BY <2>1, IdsOfSteps
  <2> QED
    BY <2>2 DEF Range
<1>2. Underway \subseteq Underway'
  <2>1. ASSUME NEW t \in Threads, op[t] = "closed", NEW x \in Range(IdsOf(out[t]))
        PROVE  op'[t] = "closed" /\ x \in Range(IdsOf(out'[t]))
    BY <1>1, <2>1
  <2>2. ASSUME NEW x \in Underway
        PROVE  x \in Underway'
    <3>1. PICK t \in Threads : op[t] = "closed" /\ x \in Range(IdsOf(out[t]))
      BY DEF Underway
    <3>2. op'[t] = "closed" /\ x \in Range(IdsOf(out'[t]))
      BY <2>1, <3>1
    <3> QED
      BY <3>2 DEF Underway
  <2> QED
    BY <2>2
<1> QED
  BY <1>2 DEF AcksInv, Places

\* No step loses an acknowledged session.
LEMMA AcksInductive ==
    ASSUME NoneCut, SerialClientInv, ToldLater, AcksInv, [ClientNext]_allVars
    PROVE  AcksInv'
<1>0. /\ TypedInv /\ OneCall /\ ServerInv /\ SerialClientInv' /\ TypedInv'
      /\ AckedLater /\ AllWritten /\ AddsInOrder /\ AddsInOrder'
      /\ Told \in Seq(Ids)
  BY SerialClientStep, AddsInOrderInductive
     DEF SerialClientInv, AcksInv, TypedInv, ClientTypeOK, Told
<1>1. ASSUME NEW t \in Threads, on = NULL, Alone(t), pc[t] = "idle", DriverCall(t)
      PROVE  AcksInv'
  <2>1. UNCHANGED <<stage, reported, closed, sessions, heap, out, acked>>
    BY <1>1 DEF DriverCall, ListCall, DeleteCall, AddCall, CollectCall, Issue, Call,
                table
  <2>2. TableIds' = TableIds /\ Told' = Told
    BY <2>1 DEF TableIds, Told
  <2>3. \A u \in Threads : out[u] = <<>>
    BY <1>0, <1>1 DEF TypedInv, BaseInv, CallsOK, CallOK, Alone
  <2>4. acked' \subseteq Places'
    BY <2>1, <2>2, <2>3, PlacesKept
  <2>5. AllWritten'
    BY <1>0, <1>1, AllWrittenInductive
  <2> QED
    BY <1>0, <2>1, <2>4, <2>5 DEF AcksInv, AckedLater
<1>2. ASSUME NEW t \in Threads, on = t, Alone(t), Receive(t)
      PROVE  AcksInv'
  <2>1. UNCHANGED <<stage, reported, closed, sessions, heap, out, op, acked>> /\ Run(t)
    BY <1>2 DEF Receive, AddRead, driver, table, Run, AddStep
  <2>2. TableIds' = TableIds /\ Told' = Told
    BY <2>1 DEF TableIds, Told
  <2>3. AllWritten'
    BY <1>0, <1>2, <2>1, AllWrittenInductive
  <2>4. acked' \subseteq Places'
    BY <2>1, <2>2, PlacesKept
  <2> QED
    BY <1>0, <2>1, <2>3, <2>4 DEF AcksInv, AckedLater
<1>3. ASSUME NEW t \in Threads, on = t, Alone(t), Deliver(t)
      PROVE  AcksInv'
  <2>1. op[t] = "closed" /\ Run(t)
    BY <1>0, <1>3
       DEF Deliver, ClosedWrite, At, TypedInv, BaseInv, CallsOK, CallOK, Run, ClosedStep
  <2>2. UNCHANGED <<stage, sessions, heap, op, acked>>
    BY <1>3 DEF Deliver, ClosedWrite, table, world
  <2>3. TableIds' = TableIds /\ AckedLater'
    BY <1>0, <2>2 DEF TableIds, AckedLater
  <2>4. AllWritten'
    BY <1>0, <1>3, <2>1, AllWrittenInductive
  <2>5. CASE out' = out /\ Told' = Told
    <3>1. acked' \subseteq Places'
      BY <2>2, <2>3, <2>5, PlacesKept
    <3> QED
      BY <1>0, <2>3, <2>4, <3>1 DEF AcksInv
  <2>6. ASSUME NEW x \in Ids, out[t] # <<>>, x = Head(IdsOf(out[t])),
               IdsOf(out'[t]) = Tail(IdsOf(out[t])), Told' = Append(Told, x)
        PROVE  AcksInv'
    <3> DEFINE ids == IdsOf(out[t])
    <3>1. out[t] \in Seq(Entry)
      BY <1>0 DEF TypedInv, BaseInv, LocalsOK
    <3>2. ids \in Seq(Ids) /\ ids # <<>>
      BY <2>6, <3>1, IdsOfTyped
    <3>3. Underway = Range(ids)
      BY <1>0, <1>3, <2>1, UnderwayOfOne
    <3> HIDE DEF ids
    <3>4. Range(ids) = Range(Tail(ids)) \cup {x}
      BY <2>6, <3>2, InjectiveTail DEF ids
    <3>5. Range(Told') = Range(Told) \cup {x}
      BY <1>0, <2>6, InjectiveAppend
    <3>6. Range(Tail(ids)) \subseteq Underway'
      BY <2>1, <2>2, <2>6 DEF Underway, ids
    <3>7. acked' \subseteq Places'
      BY <2>2, <2>3, <3>3, <3>4, <3>5, <3>6 DEF AcksInv, Places
    <3> QED
      BY <1>0, <2>3, <2>4, <3>7 DEF AcksInv
  <2> QED
    BY <1>0, <1>3, <2>1, <2>5, <2>6, DeliverMoves
<1>4. ASSUME NEW t \in Threads, on = t, Alone(t), Work(t)
      PROVE  AcksInv'
  <2>1. UNCHANGED <<stage, reported, closed, op, acked>> /\ Run(t)
    BY <1>0, <1>4, WorkGoesOn DEF Work, driver, world, TypedInv
  <2>2. Told' = Told /\ AckedLater'
    BY <1>0, <2>1 DEF Told, AckedLater
  <2>3. AllWritten'
    BY <1>0, <1>4, <2>1, AllWrittenInductive
  <2>4. ASSUME NEW u \in Threads, op[u] = "closed"
        PROVE  u = t
    BY <1>0, <1>4, <2>4, OneClosedCall
  <2>5. acked' \subseteq Places'
    <3>1. CASE DelUnlink(t)
      <4>1. stage = "delete"
        BY <1>0, <1>4, <3>1, DriverAssumption
           DEF DelUnlink, At, TypedInv, BaseInv, CallsOK, CallOK, OneCall, Makes
      <4> QED
        BY <1>0, <2>1, <4>1 DEF AckedLater
    <3>2. CASE ClosedTake(t)
      <4> DEFINE x == heap[r[t]].id
                 e == [id |-> x, what |-> "_CLOSED"]
                 ids == IdsOf(out[t])
      <4>1. x \in TableIds /\ TableIds' = TableIds \ {x} /\ x \in Ids /\ op[t] = "closed"
        <5>1. x \in TableIds /\ TableIds' = TableIds \ {x}
          BY <1>0, <1>4, <2>1, <3>2, TableIdsStep DEF TypedInv, ServerInv
        <5> QED
          BY <1>0, <3>2, <5>1, TableIdsOfHeap
             DEF TypedInv, BaseInv, CallsOK, CallOK, ClosedTake, At
      <4>2. out[t] \in Seq(Entry) /\ out \in [Threads -> Seq(Entry)]
        BY <1>0 DEF TypedInv, BaseInv, LocalsOK
      <4>3. out'[t] = Append(out[t], e) /\ e.id = x
        BY <3>2, <4>2 DEF ClosedTake
      <4>4. e \in Entry
        BY <4>1 DEF Entry, State
      <4>5. ids \in Seq(Ids)
        BY <4>2, IdsOfTyped
      <4> HIDE DEF x, e
      <4>6. IdsOf(out'[t]) = Append(ids, x)
        BY <4>2, <4>3, <4>4, IdsOfSteps
      <4>7. Underway = Range(ids)
        BY <1>0, <1>4, <4>1, UnderwayOfOne
      <4> HIDE DEF ids
      <4>8. Range(Append(ids, x)) = Range(ids) \cup {x}
        BY <4>1, <4>5, InjectiveAppend
      <4>9. Range(ids) \cup {x} \subseteq Underway'
        BY <2>1, <4>1, <4>6, <4>8 DEF Underway
      <4> QED
        BY <2>1, <2>2, <4>1, <4>7, <4>9 DEF AcksInv, Places
    <3>3. CASE ~DelUnlink(t) /\ ~ClosedTake(t)
      <4>1. TableIds \subseteq TableIds'
        BY <1>0, <1>4, <2>1, <3>3, TableIdsStep DEF TypedInv, ServerInv
      <4>2. op[t] = "closed" => out' = out
        BY <1>0, <1>4, <3>3, WorkOfClosed DEF TypedInv
      <4> QED
        BY <2>1, <2>2, <2>4, <4>1, <4>2, PlacesKept
    <3> QED
      BY <3>1, <3>2, <3>3
  <2> QED
    BY <1>0, <2>2, <2>3, <2>5 DEF AcksInv
<1>5. ASSUME NEW t \in Threads, on = t, Alone(t), Answer(t)
      PROVE  AcksInv'
  <2>1. Answered(status[t], IdsOf(out[t]), key[t]) /\ status[t] # "DEADLINE_EXCEEDED"
    BY <1>0, <1>5 DEF Answer, TypedInv, BaseInv, LocalsOK
  <2>2. /\ UNCHANGED sessions /\ UNCHANGED heap /\ pc[t] = "reply" /\ Run(t)
        /\ op' = [op EXCEPT ![t] = "none"] /\ out' = [out EXCEPT ![t] = <<>>]
    BY <1>5 DEF Answer, Reply, table, At, Run
  <2>3. TableIds' = TableIds
    BY <2>2 DEF TableIds
  <2>4. Told' = Told
    BY <1>0, <2>1, AnswerTellsNothing
  <2>5. AllWritten'
    BY <1>0, <1>5, <2>2, AllWrittenInductive
  <2>6. Makes(stage, op[t])
    BY <1>0, <1>5, DriverAssumption DEF OneCall
  <2>7. CASE op[t] = "add" /\ status[t] = "OK"
    <3>1. acked' = acked \cup Entered(t)
      BY <1>5, <2>7 DEF Answer
    <3>2. stage = "add"
      BY <2>6, <2>7 DEF Makes
    <3>3. AckedLater'
      BY <2>1, <3>2, AnsweredMoves DEF AckedLater
    <3>4. Entered(t) \subseteq TableIds
      BY <1>0, <2>2, <2>7, EnteredAreStored DEF AddsInOrder
    <3>5. Underway = {}
      BY <1>0, <1>5, <2>7, UnderwayOfOne
    <3>6. acked' \subseteq Places'
      BY <2>3, <2>4, <3>1, <3>4, <3>5 DEF AcksInv, Places
    <3> QED
      BY <1>0, <2>5, <3>3, <3>6 DEF AcksInv
  <2>8. CASE ~(op[t] = "add" /\ status[t] = "OK")
    <3>1. acked' = acked
      BY <1>5, <2>8 DEF Answer
    <3>2. AckedLater'
      BY <1>0, <2>1, <3>1, AnsweredMoves DEF AckedLater
    <3>3. ASSUME NEW u \in Threads, op[u] = "closed"
          PROVE  out[u] = <<>>
      <4>1. u = t
        BY <1>0, <1>5, <3>3, OneClosedCall
      <4> QED
        BY <1>0, <2>2, <3>3, <4>1 DEF AllWritten
    <3>4. acked' \subseteq Places'
      BY <2>3, <2>4, <3>1, <3>3, PlacesKept
    <3> QED
      BY <1>0, <2>5, <3>2, <3>4 DEF AcksInv
  <2> QED
    BY <2>7, <2>8
<1>6. CASE Crash \/ KillTestServer
  <2>1. acked' = {} /\ \A t \in Threads : op'[t] = "none"
    BY <1>6, DieEndsCalls DEF Crash, KillTestServer
  <2> QED
    BY <1>0, <2>1 DEF AcksInv, AckedLater, AllWritten
<1>7. CASE NoServer
  <2>1. Fails("UNAVAILABLE") /\ UNCHANGED vars /\ acked' = acked
    BY <1>7 DEF NoServer, world
  <2>2. Answered("UNAVAILABLE", <<>>, 0)
    BY <2>1, FailsMoves
  <2>3. Told' = Told
    BY <1>0, <2>2, AnswerTellsNothing
  <2>4. AckedLater'
    BY <1>0, <2>1, <2>2, AnsweredMoves DEF AckedLater
  <2>5. TableIds' = TableIds /\ op' = op /\ out' = out /\ pc' = pc
    BY <2>1 DEF TableIds, vars, table, locals
  <2>6. acked' \subseteq Places'
    BY <2>1, <2>3, <2>5, PlacesKept
  <2> QED
    BY <1>0, <2>4, <2>5, <2>6 DEF AcksInv, AllWritten
<1>8. CASE UNCHANGED <<vars, driver, acked>>
  <2>1. /\ TableIds' = TableIds /\ op' = op /\ out' = out /\ pc' = pc /\ Told' = Told
        /\ UNCHANGED <<stage, acked>>
    BY <1>8 DEF TableIds, vars, table, locals, Told, driver
  <2>2. acked' \subseteq Places'
    BY <2>1, PlacesKept
  <2> QED
    BY <1>0, <2>1, <2>2 DEF AcksInv, AllWritten, AckedLater
<1> QED
  BY <1>0, <1>1, <1>2, <1>3, <1>4, <1>5, <1>6, <1>7, <1>8, SerialCases DEF allVars, world

\* No acknowledged session is lost: it is in the table, on its way in an answer
\* of getClosedSessions, or reported, for as long as the server that acknowledged
\* it lives (opof_get_closed_sessions_server unlinks a session before the handler
\* has sent it, addSession acknowledges a batch by the errors it leaves out).
THEOREM AcknowledgedIsAccountedForSerial ==
    ASSUME OnlyKills
    PROVE  ClientSpec => []AcknowledgedIsAccountedFor
<1> DEFINE Inv == SerialClientInv /\ ToldLater /\ OnePlace /\ AcksInv
<1>1. ClientInit => Inv
  <2> SUFFICES ASSUME ClientInit PROVE Inv
    OBVIOUS
  <2>1. SerialClientInv
    BY SerialClientInit
  <2>2. /\ reported = <<>> /\ closed = <<>> /\ Told = <<>> /\ acked = {}
        /\ \A t \in Threads : op[t] = "none"
    BY DEF ClientInit, ThreadsIdle, Told
  <2>3. ToldLater
    BY <2>2 DEF ToldLater
  <2>4. OnePlace
    BY <2>2 DEF OnePlace, IsInjective, Range
  <2>5. AcksInv
    BY <2>2 DEF AcksInv, AckedLater, AllWritten, AddsInOrder, AddOrder
  <2> QED
    BY <2>1, <2>3, <2>4, <2>5
<1>2. Inv /\ [ClientNext]_allVars => Inv'
  BY OnlyKills, KillsCutNone, SerialClientStep, OnePlaceInductive, AcksInductive
     DEF SerialClientInv
<1>3. Inv => AcknowledgedIsAccountedFor
  <2> SUFFICES ASSUME Inv PROVE AcknowledgedIsAccountedFor
    OBVIOUS
  <2>1. reported \in Seq(Ids) /\ closed \in Seq(Ids)
    BY DEF SerialClientInv, TypedInv, ClientTypeOK
  <2>2. Range(Told) = Range(reported) \cup Range(closed)
    BY <2>1, ToldRange DEF Told
  <2> QED
    BY <2>2 DEF AcksInv, Places, AcknowledgedIsAccountedFor
<1> QED
  BY <1>1, <1>2, <1>3, PTL DEF ClientSpec

-----------------------------------------------------------------------------
(* Sessions that are added while calls fail and their handlers run on. *)

\* The loops up to the one that adds sessions.
Early == {"list", "delete", "kill", "add"}

\* No fault met the delete calls of the clean-up.
Undeleted == "delete" \notin Range(faults)

\* The thread on serves the call the driver waits for and is not cancelled, and a
\* server that is down serves none.
Served ==
    /\ ~up => on = NULL
    /\ on # NULL => pc[on] # "idle" /\ ~cancelled[on] /\ Makes(stage, op[on])
    /\ \A t \in Threads : pc[t] = "idle" => ~cancelled[t]

\* Before sessions are collected, only the delete call of the clean-up removes any.
NothingRemoved ==
    stage \in Early /\ Undeleted =>
        \A t \in Threads : op[t] # "closed" /\ (op[t] = "del" => on = t)

\* The add call the driver waits for is answered in order, beside the handlers of
\* calls it has given up.
InOrder == stage = "add" /\ Undeleted /\ on # NULL => AddOrder(on)

Stored == stage = "add" /\ Undeleted => acked \subseteq TableIds

StoredInv == Served /\ NothingRemoved /\ InOrder /\ AckedLater /\ Stored

\* The driver never goes back to an earlier part of its work.
LEMMA NeverBack ==
    ASSUME NEW st, NEW ids, NEW next, Answered(st, ids, next)
    PROVE  /\ on' = NULL
           /\ stage' \in Early => stage \in Early
           /\ stage' = "add" => stage \in {"list", "add"}
           /\ stage' \in {"list", "delete", "kill"} => stage \in {"list", "delete"}
<1>1. on' = NULL
  BY DEF Answered
<1>2. CASE ListAnswered(st, ids, next)
  BY <1>1, <1>2 DEF ListAnswered, Retry, Early
<1>3. CASE DeleteAnswered(st)
  BY <1>1, <1>3 DEF DeleteAnswered, Retry, Early
<1>4. CASE AddAnswered(st)
  BY <1>1, <1>4 DEF AddAnswered, Retry, Early
<1>5. CASE CollectAnswered(st)
  BY <1>1, <1>5 DEF CollectAnswered, Retry, Early
<1> QED
  BY <1>2, <1>3, <1>4, <1>5 DEF Answered

\* A fault is remembered with the loop it met.
LEMMA FaultIsNoted ==
    ASSUME TypedInv, NEW kind, Fault(kind), Undeleted'
    PROVE  Undeleted /\ stage # "delete"
<1>1. faults \in Seq(Stages) /\ stage \in Stages
  BY DEF TypedInv, ClientTypeOK
<1>2. Range(faults') = Range(faults) \cup {stage}
  BY <1>1, InjectiveAppend DEF Fault
<1> QED
  BY <1>2 DEF Undeleted

\* While nothing is removed, the table keeps the ids it has.
LEMMA TableIdsGrow ==
    ASSUME BaseInv, [Next]_vars,
           \A t \in Threads : op[t] # "closed" /\ op[t] # "del"
    PROVE  TableIds \subseteq TableIds'
<1>1. TableOK /\ CallsOK
  BY DEF BaseInv
<1>2. ASSUME NEW t \in Threads
      PROVE  ~DelUnlink(t) /\ ~ClosedTake(t)
  BY <1>1 DEF DelUnlink, ClosedTake, At, CallsOK, CallOK
<1>3. UNCHANGED <<sessions, heap>> => TableIds' = TableIds
  BY DEF TableIds
<1> QED
  BY <1>1, <1>2, <1>3, TableStep, TableIdsOfAdd

\* Steps beside an add handler leave its requests in order.
LEMMA OrderKept ==
    ASSUME NEW t \in Threads, AddOrder(t), TableIds \subseteq TableIds',
           pc'[t] = pc[t], op'[t] = op[t], key'[t] = key[t], size'[t] = size[t],
           out'[t] = out[t], stream'[t] = stream[t], sessionId' = sessionId
    PROVE  AddOrder(t)'
<1>1. BatchSize' = BatchSize /\ Refused(t)' = Refused(t) /\ (InHand(t)' <=> InHand(t))
  BY DEF BatchSize, Refused, InHand
<1>2. NextId(t)' = NextId(t)
  BY <1>1 DEF NextId
<1>3. Undecided(t)' = Undecided(t)
  BY <1>1, <1>2 DEF Undecided
<1> QED
  BY <1>1, <1>2, <1>3 DEF AddOrder

\* A driver that waits for no call any more, in the same loop or a later one, and
\* no acknowledgement that is not in the table.
LEMMA StoredKept ==
    ASSUME TypedInv, StoredInv, NEW st, NEW ids, NEW next, Answered(st, ids, next),
           UNCHANGED <<sessions, heap, pc, op, cancelled, acked>>,
           Undeleted' => Undeleted /\ (stage = "delete" => on = NULL)
    PROVE  StoredInv'
<1>1. /\ on' = NULL
      /\ stage' \in Early => stage \in Early
      /\ stage' = "add" => stage \in {"list", "add"}
      /\ stage' \in {"list", "delete", "kill"} => stage \in {"list", "delete"}
  BY NeverBack
<1>2. TableIds' = TableIds
  BY DEF TableIds
<1>3. Served'
  BY <1>1 DEF StoredInv, Served
<1>4. NothingRemoved'
  <2>1. SUFFICES ASSUME stage' \in Early, Undeleted', NEW t \in Threads
                 PROVE  op[t] # "closed" /\ op[t] # "del"
    BY DEF NothingRemoved
  <2>2. op[t] # "closed" /\ (op[t] = "del" => on = t)
    BY <1>1, <2>1 DEF StoredInv, NothingRemoved
  <2>3. op[t] = "del" => stage = "delete"
    BY <2>2, DriverAssumption DEF StoredInv, Served, Makes
  <2> QED
    BY <2>1, <2>2, <2>3, DriverAssumption
<1>5. InOrder' /\ AckedLater'
  BY <1>1 DEF StoredInv, InOrder, AckedLater
<1>6. Stored'
  BY <1>1, <1>2 DEF StoredInv, Stored, AckedLater
<1> QED
  BY <1>3, <1>4, <1>5, <1>6 DEF StoredInv

\* A handler leaves the others alone.
LEMMA HandlerStep ==
    ASSUME TypedInv, NEW t \in Threads,
           Receive(t) \/ Deliver(t) \/ Work(t) \/ Answer(t)
    PROVE  /\ Run(t) /\ [Next]_vars /\ pc[t] # "idle"
           /\ \A u \in Threads \ {t} :
                /\ pc'[u] = pc[u] /\ op'[u] = op[u] /\ key'[u] = key[u]
                /\ size'[u] = size[u] /\ out'[u] = out[u] /\ cancelled'[u] = cancelled[u]
                /\ stream'[u] = stream[u]
<1>1. Run(t)
  BY DEF Receive, Deliver, Work, Answer, Run, AddStep, ClosedStep
<1>2. [Next]_vars
  BY <1>1 DEF Next
<1>3. pc[t] # "idle"
  <2>1. CASE Work(t)
    BY <2>1, WorkGoesOn DEF TypedInv
  <2>2. CASE ~Work(t)
    BY <2>2 DEF Receive, Deliver, Answer, AddRead, ClosedWrite, Reply, At
  <2> QED
    BY <2>1, <2>2
<1>4. ASSUME NEW u \in Threads \ {t}
      PROVE  /\ pc'[u] = pc[u] /\ op'[u] = op[u] /\ key'[u] = key[u]
             /\ size'[u] = size[u] /\ out'[u] = out[u]
  BY <1>1, OthersKeepLocals DEF Same, TypedInv, BaseInv
<1>5. ASSUME NEW u \in Threads \ {t}
      PROVE  stream'[u] = stream[u]
  <2>1. stream \in [Threads -> Seq(Ids)]
    BY DEF TypedInv, ClientTypeOK
  <2> QED
    BY <2>1 DEF Receive, Deliver, Work, Answer, world
<1>6. ASSUME NEW u \in Threads \ {t}
      PROVE  cancelled'[u] = cancelled[u]
  <2>1. CASE Work(t)
    BY <2>1, WorkGoesOn DEF TypedInv
  <2>2. CASE Receive(t) \/ Deliver(t)
    BY <2>2 DEF Receive, AddRead, Deliver, ClosedWrite
  <2>3. CASE Answer(t)
    <3>1. cancelled \in [Threads -> BOOLEAN] /\ u # t
      BY DEF TypedInv, BaseInv, LocalsOK
    <3> QED
      BY <2>3, <3>1, Zenon DEF Answer, Reply
  <2> QED
    BY <2>1, <2>2, <2>3
<1> QED
  BY <1>1, <1>2, <1>3, <1>4, <1>5, <1>6

\* A handler that goes on, whether its client waits for it or not.
LEMMA HandlerKeepsStored ==
    ASSUME TypedInv, StoredInv, NEW t \in Threads, Receive(t) \/ Deliver(t) \/ Work(t)
    PROVE  StoredInv'
<1>0. BaseInv /\ Served /\ NothingRemoved /\ InOrder /\ AckedLater /\ Stored
  BY DEF TypedInv, StoredInv
<1>1. UNCHANGED <<stage, on, up, acked, faults, sessionId, op, cancelled>>
  <2>1. CASE Work(t)
    BY <1>0, <2>1, WorkGoesOn DEF Work, driver, world
  <2>2. CASE Receive(t) \/ Deliver(t)
    BY <2>2 DEF Receive, AddRead, Deliver, ClosedWrite, driver, world
  <2> QED
    BY <2>1, <2>2
<1>2. /\ [Next]_vars /\ pc[t] # "idle"
      /\ \A u \in Threads \ {t} :
           /\ pc'[u] = pc[u] /\ op'[u] = op[u] /\ key'[u] = key[u]
           /\ size'[u] = size[u] /\ out'[u] = out[u] /\ cancelled'[u] = cancelled[u]
           /\ stream'[u] = stream[u]
  BY HandlerStep
<1>3. pc'[t] # "idle"
  <2>1. CASE Work(t)
    BY <1>0, <2>1, WorkGoesOn
  <2>2. CASE Receive(t) \/ Deliver(t)
    BY <1>0, <2>2 DEF Receive, AddRead, Deliver, ClosedWrite, Return, Goto, At, BaseInv,
                      LocalsOK
  <2> QED
    BY <2>1, <2>2
<1>4. Undeleted' = Undeleted
  BY <1>1 DEF Undeleted
<1>5. Served'
  <2>1. on # NULL => on \in Threads
    BY DEF TypedInv, ClientTypeOK
  <2>2. \A u \in Threads : pc'[u] = "idle" => pc[u] = "idle"
    BY <1>2, <1>3
  <2>3. \A u \in Threads : pc[u] # "idle" => pc'[u] # "idle"
    BY <1>2, <1>3
  <2> QED
    BY <1>0, <1>1, <2>1, <2>2, <2>3 DEF Served
<1>6. NothingRemoved' /\ AckedLater'
  BY <1>0, <1>1, <1>4 DEF NothingRemoved, AckedLater
<1>7. ASSUME stage = "add", Undeleted
      PROVE  TableIds \subseteq TableIds'
  <2>1. ASSUME NEW u \in Threads
        PROVE  op[u] # "closed" /\ op[u] # "del"
    <3>1. op[u] # "closed" /\ (op[u] = "del" => on = u)
      BY <1>0, <1>7 DEF NothingRemoved, Early
    <3> QED
      BY <1>0, <1>7, <3>1, DriverAssumption DEF Served, Makes
  <2> QED
    BY <1>0, <1>2, <2>1, TableIdsGrow
<1>8. Stored'
  BY <1>0, <1>1, <1>4, <1>7 DEF Stored
<1>9. InOrder'
  <2>1. SUFFICES ASSUME stage = "add", Undeleted, on # NULL
                 PROVE  AddOrder(on)'
    BY <1>1, <1>4 DEF InOrder
  <2>2. AddOrder(on) /\ ~cancelled[on] /\ op[on] = "add" /\ on \in Threads
    BY <1>0, <2>1 DEF InOrder, Served, Makes, TypedInv, ClientTypeOK
  <2>3. CASE on # t
    <3>1. on \in Threads \ {t}
      BY <2>2, <2>3
    <3> QED
      BY <1>1, <1>2, <1>7, <2>1, <2>2, <3>1, OrderKept
  <2>4. CASE on = t
    <3>1. ~Deliver(t)
      BY <1>0, <2>2, <2>4 DEF Deliver, ClosedWrite, At, BaseInv, CallsOK, CallOK
    <3>2. AddOrder(t)'
      BY <2>2, <2>4, <3>1, ReceiveInOrder, WorkInOrder
    <3> QED
      BY <1>1, <2>4, <3>2
  <2> QED
    BY <2>3, <2>4
<1> QED
  BY <1>5, <1>6, <1>8, <1>9 DEF StoredInv

\* An answer acknowledges what is stored; one that nobody waits for, nothing.
LEMMA AnswerKeepsStored ==
    ASSUME TypedInv, StoredInv, NEW t \in Threads, Answer(t)
    PROVE  StoredInv'
<1>0. /\ BaseInv /\ LocalsOK /\ Served /\ NothingRemoved /\ InOrder /\ AckedLater /\ Stored
      /\ acked \subseteq Ids
  BY DEF TypedInv, BaseInv, StoredInv, ClientTypeOK
<1>1. /\ UNCHANGED <<sessions, heap, up, faults>> /\ pc[t] = "reply"
      /\ pc'[t] = "idle" /\ op'[t] = "none" /\ ~cancelled'[t]
  BY <1>0 DEF Answer, Reply, Goto, table, At, LocalsOK
<1>2. \A u \in Threads \ {t} :
           /\ pc'[u] = pc[u] /\ op'[u] = op[u] /\ key'[u] = key[u]
           /\ size'[u] = size[u] /\ out'[u] = out[u] /\ cancelled'[u] = cancelled[u]
           /\ stream'[u] = stream[u]
  BY HandlerStep
<1>3. Undeleted' = Undeleted /\ TableIds' = TableIds
  BY <1>1 DEF Undeleted, TableIds
<1>4. CASE on = t
  <2>1. Answered(status[t], IdsOf(out[t]), key[t])
    BY <1>4 DEF Answer
  <2>2. /\ on' = NULL
        /\ stage' \in Early => stage \in Early
        /\ stage' = "add" => stage \in {"list", "add"}
        /\ stage' \in {"list", "delete", "kill"} => stage \in {"list", "delete"}
    BY <2>1, NeverBack
  <2>3. Makes(stage, op[t])
    BY <1>0, <1>4, DriverAssumption DEF Served
  <2>4. Served'
    BY <1>0, <1>1, <1>2, <2>2 DEF Served
  <2>5. NothingRemoved'
    <3>1. SUFFICES ASSUME stage' \in Early, Undeleted', NEW u \in Threads
                   PROVE  op'[u] # "closed" /\ op'[u] # "del"
      BY DEF NothingRemoved
    <3>2. op[u] # "closed" /\ (op[u] = "del" => on = u)
      BY <1>0, <1>3, <2>2, <3>1 DEF NothingRemoved
    <3> QED
      BY <1>1, <1>2, <1>4, <3>2
  <2>6. AckedLater'
    <3>1. stage \in {"list", "delete"} => op[t] # "add"
      BY <2>3 DEF Makes
    <3> QED
      BY <1>0, <1>4, <2>2, <3>1 DEF Answer, AckedLater
  <2>7. Stored'
    <3>1. CASE stage = "add"
      <4>1. op[t] = "add"
        BY <2>3, <3>1 DEF Makes
      <4>2. acked' \subseteq acked \cup Entered(t)
        BY <1>4, <4>1 DEF Answer
      <4>3. Undeleted => Entered(t) \subseteq TableIds
        BY <1>0, <1>1, <1>4, <3>1, <4>1, EnteredAreStored, DriverAssumption DEF InOrder
      <4> QED
        BY <1>0, <1>3, <3>1, <4>2, <4>3 DEF Stored
    <3>2. CASE stage = "list"
      <4>1. acked' = {}
        BY <1>0, <1>4, <2>3, <3>2 DEF Answer, AckedLater, Makes
      <4> QED
        BY <4>1 DEF Stored
    <3> QED
      BY <2>2, <3>1, <3>2 DEF Stored
  <2> QED
    BY <2>2, <2>4, <2>5, <2>6, <2>7 DEF StoredInv, InOrder
<1>5. CASE on # t
  <2>1. UNCHANGED <<stage, on, sessionId, acked>>
    BY <1>5 DEF Answer, driver
  <2>2. Served'
    BY <1>0, <1>1, <1>2, <1>5, <2>1 DEF Served, TypedInv, ClientTypeOK
  <2>3. NothingRemoved'
    <3>1. SUFFICES ASSUME stage \in Early, Undeleted, NEW u \in Threads
                   PROVE  op'[u] # "closed" /\ (op'[u] = "del" => on = u)
      BY <1>3, <2>1 DEF NothingRemoved
    <3>2. op[u] # "closed" /\ (op[u] = "del" => on = u)
      BY <1>0, <3>1 DEF NothingRemoved
    <3> QED
      BY <1>1, <1>2, <3>2
  <2>4. AckedLater' /\ Stored'
    BY <1>0, <1>3, <2>1 DEF AckedLater, Stored
  <2>5. InOrder'
    <3>1. SUFFICES ASSUME stage = "add", Undeleted, on # NULL
                   PROVE  AddOrder(on)'
      BY <1>3, <2>1 DEF InOrder
    <3>2. AddOrder(on) /\ on \in Threads \ {t}
      BY <1>0, <1>5, <3>1 DEF InOrder, TypedInv, ClientTypeOK
    <3> QED
      BY <1>2, <1>3, <2>1, <3>2, OrderKept
  <2> QED
    BY <2>2, <2>3, <2>4, <2>5 DEF StoredInv
<1> QED
  BY <1>4, <1>5

\* The driver makes a call.
LEMMA CallKeepsStored ==
    ASSUME TypedInv, StoredInv, NEW t \in Threads, DriverCall(t)
    PROVE  StoredInv'
<1>0. /\ BaseInv /\ LocalsOK /\ CallsOK /\ Served /\ NothingRemoved /\ InOrder
      /\ AckedLater /\ Stored
  BY DEF TypedInv, BaseInv, StoredInv
<1>1. /\ UNCHANGED <<stage, up, acked, faults, sessions, heap, cancelled>>
      /\ on = NULL /\ on' = t /\ up /\ pc[t] = "idle" /\ pc'[t] # "idle"
      /\ Makes(stage, op'[t])
      /\ \A u \in Threads \ {t} : pc'[u] = pc[u] /\ op'[u] = op[u]
  <2>1. CASE ListCall(t)
    BY <1>0, <2>1 DEF DriverCall, ListCall, Issue, Call, Goto, At, table, LocalsOK, Makes
  <2>2. CASE DeleteCall(t)
    BY <1>0, <2>2 DEF DriverCall, DeleteCall, Issue, Call, Goto, At, table, LocalsOK, Makes
  <2>3. CASE AddCall(t)
    BY <1>0, <2>3 DEF DriverCall, AddCall, Issue, Call, Goto, At, table, LocalsOK, Makes
  <2>4. CASE CollectCall(t)
    BY <1>0, <2>4 DEF DriverCall, CollectCall, Issue, Call, Goto, At, table, LocalsOK, Makes
  <2> QED
    BY <2>1, <2>2, <2>3, <2>4 DEF DriverCall
<1>2. Undeleted' = Undeleted /\ TableIds' = TableIds
  BY <1>1 DEF Undeleted, TableIds
<1>3. Served'
  BY <1>0, <1>1, DriverAssumption DEF Served
<1>4. NothingRemoved'
  <2>1. SUFFICES ASSUME stage \in Early, Undeleted, NEW u \in Threads
                 PROVE  op'[u] # "closed" /\ (op'[u] = "del" => u = t)
    BY <1>1, <1>2 DEF NothingRemoved
  <2>2. CASE u = t
    BY <1>1, <2>1, <2>2 DEF Makes, Early
  <2>3. CASE u # t
    <3>1. op[u] # "closed" /\ op[u] # "del"
      BY <1>0, <1>1, <2>1, DriverAssumption DEF NothingRemoved
    <3> QED
      BY <1>1, <2>3, <3>1
  <2> QED
    BY <2>2, <2>3
<1>5. AckedLater' /\ Stored'
  BY <1>0, <1>1, <1>2 DEF AckedLater, Stored
<1>6. InOrder'
  <2>1. SUFFICES ASSUME stage = "add"
                 PROVE  AddOrder(t)'
    BY <1>1 DEF InOrder
  <2>2. AddCall(t)
    BY <2>1 DEF DriverCall, ListCall, DeleteCall, CollectCall
  <2> QED
    BY <2>2, AddCallInOrder
<1> QED
  BY <1>3, <1>4, <1>5, <1>6 DEF StoredInv

\* When the server dies there is nothing left to be removed or acknowledged.
LEMMA DeathKeepsStored ==
    ASSUME TypedInv, StoredInv, Crash \/ KillTestServer
    PROVE  StoredInv'
<1>1. /\ \A t \in Threads : op'[t] = "none" /\ ~cancelled'[t]
      /\ acked' = {}
  BY DieEndsCalls DEF Crash, KillTestServer
<1>2. on' = NULL
  <2>1. CASE Crash
    BY <2>1 DEF Crash, Fails, Answered, driver
  <2>2. CASE KillTestServer
    BY <2>2, DriverAssumption DEF KillTestServer, StoredInv, Served, Makes
  <2> QED
    BY <2>1, <2>2
<1> QED
  BY <1>1, <1>2 DEF StoredInv, Served, NothingRemoved, InOrder, AckedLater, Stored

\* Every step keeps what is stored, whichever calls fail.
LEMMA StoredInductive ==
    ASSUME TypedInv, StoredInv, [ClientNext]_allVars
    PROVE  StoredInv'
<1>0. Served /\ NothingRemoved
  BY DEF StoredInv
<1>1. ASSUME NEW t \in Threads, DriverCall(t) \/ Serve(t)
      PROVE  StoredInv'
  BY <1>1, CallKeepsStored, HandlerKeepsStored, AnswerKeepsStored DEF Serve
<1>2. ASSUME UNCHANGED <<sessions, heap, pc, op, key, size, out, cancelled>>,
             UNCHANGED <<stage, on, sessionId, stream, acked, faults>>,
             ~up' => ~up
      PROVE  StoredInv'
  <2>1. TableIds' = TableIds /\ Undeleted' = Undeleted
    BY <1>2 DEF TableIds, Undeleted
  <2>2. InOrder'
    <3>1. SUFFICES ASSUME stage = "add", Undeleted, on # NULL
                   PROVE  AddOrder(on)'
      BY <1>2, <2>1 DEF InOrder
    <3>2. on \in Threads /\ AddOrder(on)
      BY <3>1 DEF StoredInv, InOrder, TypedInv, ClientTypeOK
    <3> QED
      BY <1>2, <2>1, <3>2, OrderKept
  <2> QED
    BY <1>2, <2>1, <2>2 DEF StoredInv, Served, NothingRemoved, AckedLater, Stored
<1>3. ASSUME NEW t \in Threads, Race(t)
      PROVE  StoredInv'
  BY <1>2, <1>3 DEF Race, DataRace, Undefined, table, locals, driver, world
<1>4. ASSUME NEW t \in Threads, NoticeCancel(t)
      PROVE  StoredInv'
  <2>1. /\ UNCHANGED <<sessions, heap, pc, op, key, size, out>>
        /\ UNCHANGED <<stage, on, sessionId, stream, acked, faults, up>>
        /\ on # t /\ pc[t] # "idle"
    BY <1>4 DEF NoticeCancel, Cancel, table, driver, world
  <2>2. \A u \in Threads \ {t} : cancelled'[u] = cancelled[u]
    <3>1. cancelled \in [Threads -> BOOLEAN]
      BY DEF TypedInv, BaseInv, LocalsOK
    <3> QED
      BY <1>4, <3>1, Zenon DEF NoticeCancel, Cancel
  <2>3. TableIds' = TableIds /\ Undeleted' = Undeleted
    BY <2>1 DEF TableIds, Undeleted
  <2>4. InOrder'
    <3>1. SUFFICES ASSUME stage = "add", Undeleted, on # NULL
                   PROVE  AddOrder(on)'
      BY <2>1, <2>3 DEF InOrder
    <3>2. on \in Threads /\ AddOrder(on)
      BY <3>1 DEF StoredInv, InOrder, TypedInv, ClientTypeOK
    <3> QED
      BY <2>1, <2>3, <3>2, OrderKept
  <2>5. Served'
    <3>1. on # NULL => on \in Threads \ {t}
      BY <2>1 DEF TypedInv, ClientTypeOK
    <3> QED
      BY <1>0, <2>1, <2>2, <3>1 DEF Served
  <2> QED
    BY <2>1, <2>3, <2>4, <2>5 DEF StoredInv, NothingRemoved, AckedLater, Stored
<1>5. CASE StartTestServer \/ Ended \/ UNCHANGED allVars
  BY <1>2, <1>5 DEF StartTestServer, Ended, allVars, vars, table, locals, driver, world
<1>6. CASE NoServer
  <2>1. /\ Answered("UNAVAILABLE", <<>>, 0) /\ on = NULL
        /\ UNCHANGED <<sessions, heap, pc, op, cancelled, acked, faults>>
    BY <1>0, <1>6 DEF NoServer, Fails, vars, table, locals, world, Served
  <2>2. Undeleted' = Undeleted
    BY <2>1 DEF Undeleted
  <2> QED
    BY <2>1, <2>2, StoredKept
<1>7. CASE Deadline \/ Disconnect
  <2>1. /\ \E st \in Statuses : Answered(st, <<>>, 0)
        /\ \E kind \in {"deadline", "unavailable"} : Fault(kind)
        /\ UNCHANGED <<sessions, heap, pc, op, cancelled, acked>>
    BY <1>7 DEF Deadline, Disconnect, Fails, vars, table, locals, Statuses
  <2>2. Undeleted' => Undeleted /\ stage # "delete"
    BY <2>1, FaultIsNoted
  <2> QED
    BY <2>1, <2>2, StoredKept
<1> QED
  BY <1>1, <1>3, <1>4, <1>5, <1>6, <1>7, DeathKeepsStored DEF ClientNext

\* While sessions are added, those acknowledged are in the table, whichever calls
\* meet a deadline or a broken connection and whenever the server is killed, also
\* beside the handlers of calls that were given up and made again (addSession runs
\* on without its client; opof_test10 and opof_test9 repeat the batch).  Only
\* faults of the clean-up's delete calls are excepted.
THEOREM AcknowledgedIsStoredAlways == ClientSpec => []AcknowledgedIsStored
<1>1. ClientInit => TypedInv /\ StoredInv
  <2> SUFFICES ASSUME ClientInit PROVE TypedInv /\ StoredInv
    OBVIOUS
  <2>1. /\ stage = "list" /\ on = NULL /\ acked = {}
        /\ \A t \in Threads : op[t] = "none" /\ ~cancelled[t]
    BY DEF ClientInit, ThreadsIdle
  <2> QED
    BY <2>1, ClientInitTyped
       DEF StoredInv, Served, NothingRemoved, InOrder, AckedLater, Stored
<1>2. TypedInv /\ StoredInv /\ [ClientNext]_allVars => TypedInv' /\ StoredInv'
  BY ClientKeepsBase, ClientTypesInductive, StoredInductive DEF TypedInv
<1>3. StoredInv => AcknowledgedIsStored
  BY DEF StoredInv, Stored, Undeleted, AcknowledgedIsStored
<1> QED
  BY <1>1, <1>2, <1>3, PTL DEF ClientSpec

=============================================================================
