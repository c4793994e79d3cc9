--------------------------- MODULE SessionClientProofs ---------------------------
(***************************************************************************)
(* Safety of a client and its server, for any number of threads, sessions, *)
(* addresses, retries and faults and any sizes of pages and of the table.  *)
(***************************************************************************)
EXTENDS SessionClient, SessionServerProofs

-----------------------------------------------------------------------------
(* Conversions and batches. *)

\* What the client library makes of a session id is a number.
LEMMA AsIntIsNat ==
    ASSUME NEW id \in Nat
    PROVE  AsInt(id) \in Nat
<1>1. IntSize \in Nat /\ LongSize \in Nat /\ 0 < IntSize /\ IntSize < LongSize
  BY WidthAssumption, SizeAssumption
<1>2. id % IntSize \in 0 .. IntSize - 1
  BY <1>1
<1> DEFINE low == id % IntSize
<1>3. low \in Nat
  BY <1>1, <1>2
<1> HIDE DEF low
<1>4. AsInt(id) = IF low < IntSize \div 2 THEN low ELSE LongSize - IntSize + low
  BY DEF AsInt, low
<1> QED
  BY <1>1, <1>3, <1>4

\* A batch holds the next ids in ascending order, and stays below MaxSessions.
LEMMA BatchTyped ==
    ASSUME sessionId \in 0 .. MaxSessions
    PROVE  /\ BatchSize \in Nat /\ sessionId + BatchSize \in 0 .. MaxSessions
           /\ Batch \in Seq(Ids) /\ Len(Batch) = BatchSize
           /\ Batch = [i \in 1 .. BatchSize |-> sessionId + i - 1]
           /\ Range(Batch) = sessionId .. sessionId + BatchSize - 1
<1>1. /\ MaxSessions \in Nat /\ PageSize \in Nat /\ sessionId \in Nat
      /\ 0 .. MaxSessions - 1 \subseteq Ids
  BY DriverAssumption, SizeAssumption
<1>2. BatchSize \in Nat /\ sessionId + BatchSize \in 0 .. MaxSessions
  BY <1>1 DEF BatchSize
<1>3. \A i \in 1 .. BatchSize : sessionId + i - 1 \in 0 .. MaxSessions - 1
  BY <1>1, <1>2
<1>4. Batch \in [1 .. BatchSize -> Ids]
  BY <1>1, <1>3 DEF Batch
<1>5. Batch \in Seq(Ids) /\ Len(Batch) = BatchSize
  BY <1>2, <1>4
<1>6. Range(Batch) = sessionId .. sessionId + BatchSize - 1
  <2>1. \A i \in 1 .. BatchSize : Batch[i] \in sessionId .. sessionId + BatchSize - 1
    BY <1>1, <1>2 DEF Batch
  <2>2. ASSUME NEW n \in sessionId .. sessionId + BatchSize - 1
        PROVE  \E i \in DOMAIN Batch : Batch[i] = n
    <3>1. n - sessionId + 1 \in 1 .. BatchSize
      BY <1>1, <1>2
    <3>2. Batch[n - sessionId + 1] = n
      BY <1>1, <3>1 DEF Batch
    <3> QED
      BY <1>4, <3>1, <3>2
  <2> QED
    BY <1>4, <2>1, <2>2 DEF Range
<1> QED
  BY <1>2, <1>5, <1>6 DEF Batch

\* The ids of an answer are session ids.
LEMMA IdsOfTyped ==
    ASSUME NEW entries \in Seq(Entry)
    PROVE  /\ IdsOf(entries) \in Seq(Ids) /\ Len(IdsOf(entries)) = Len(entries)
           /\ DOMAIN IdsOf(entries) = DOMAIN entries
           /\ \A i \in DOMAIN entries : IdsOf(entries)[i] = entries[i].id
           /\ IdsOf(entries) = <<>> <=> entries = <<>>
<1>1. /\ DOMAIN entries = 1 .. Len(entries) /\ Len(entries) \in Nat
      /\ \A i \in 1 .. Len(entries) : entries[i] \in Entry
  OBVIOUS
<1>2. \A i \in 1 .. Len(entries) : entries[i].id \in Ids
  BY <1>1 DEF Entry
<1>3. IdsOf(entries) = [i \in 1 .. Len(entries) |-> entries[i].id]
  BY <1>1 DEF IdsOf
<1>4. IdsOf(entries) \in Seq(Ids) /\ Len(IdsOf(entries)) = Len(entries)
  BY <1>1, <1>2, <1>3
<1>5. Len(entries) = 0 <=> entries = <<>>
  OBVIOUS
<1>6. Len(IdsOf(entries)) = 0 <=> IdsOf(entries) = <<>>
  BY <1>4
<1> QED
  BY <1>1, <1>3, <1>4, <1>5, <1>6

-----------------------------------------------------------------------------
(* Types. *)

\* What ClientTypeOK rests on: there is an id to delete while ids are deleted,
\* and the requests a handler has still to read are the rest of its stream.
InputsOK ==
    /\ stage = "delete" => todo # <<>>
    /\ \A t \in Threads : op[t] = "add" => Len(stream[t]) = size[t]

TypedInv == BaseInv /\ ClientTypeOK /\ InputsOK

\* A call with arguments a client may use keeps the types of the server.
LEMMA CallKeepsBase ==
    ASSUME BaseInv, NEW t \in Threads, NEW o \in Ops, NEW k \in Nat, NEW n \in Nat,
           o = "closed" => n \in PageSizes, Call(t, o, k, n)
    PROVE  BaseInv'
<1>1. TableOK'
  BY DEF BaseInv, TableOK, ListOK, IsInjective, Range, Call, table
<1>2. LocalsOK'
  BY DEF BaseInv, LocalsOK, Labels, Call, At, Goto, table
<1>3. CallsOK'
  <2>1. ASSUME NEW u \in Threads \ {t}
        PROVE  CallOK(u)'
    BY DEF BaseInv, LocalsOK, CallsOK, CallOK, Call, Goto
  <2>2. CallOK(t)'
    BY DEF BaseInv, LocalsOK, CallsOK, CallOK, Call, At, Goto, Ops
  <2> QED
    BY <2>1, <2>2 DEF CallsOK
<1> QED
  BY <1>1, <1>2, <1>3 DEF BaseInv

\* The driver makes only such calls.
LEMMA DriverCallIsCall ==
    ASSUME TypedInv, NEW t \in Threads, DriverCall(t)
    PROVE  \E o \in Ops, k \in Nat, n \in Nat :
              (o = "closed" => n \in PageSizes) /\ Call(t, o, k, n)
<1>1. PageSize \in Nat /\ PageSize \in PageSizes
  BY DriverAssumption, SizeAssumption
<1>2. CASE ListCall(t)
  BY <1>1, <1>2 DEF ListCall, Issue, TypedInv, ClientTypeOK, Ops
<1>3. CASE DeleteCall(t)
  <2>1. Head(todo) \in Nat
    <3>1. todo \in Seq(Ids) /\ todo # <<>>
      BY <1>3 DEF DeleteCall, TypedInv, ClientTypeOK, InputsOK
    <3>2. Head(todo) \in Ids
      BY <3>1
    <3> QED
      BY <3>2, IdsAssumption
  <2>2. AsInt(Head(todo)) \in Nat
    BY <2>1, AsIntIsNat
  <2>3. Call(t, "del", AsInt(Head(todo)), 0)
    BY <1>3 DEF DeleteCall, Issue
  <2>4. "del" \in Ops /\ 0 \in Nat
    BY DEF Ops
  <2> QED
    BY <2>2, <2>3, <2>4
<1>4. CASE AddCall(t)
  <2>1. BatchSize \in Nat
    BY BatchTyped DEF TypedInv, ClientTypeOK
  <2> QED
    BY <1>4, <2>1 DEF AddCall, Issue, Ops
<1>5. CASE CollectCall(t)
  BY <1>1, <1>5 DEF CollectCall, Issue, Ops
<1> QED
  BY <1>2, <1>3, <1>4, <1>5 DEF DriverCall

\* A server that is started again begins with an empty table.
LEMMA DieKeepsBase ==
    ASSUME BaseInv, Die
    PROVE  BaseInv'
<1>1. TableOK'
  BY DEF Die, TableOK, ListOK, IsInjective, Range
<1>2. LocalsOK'
  BY DEF Die, BaseInv, LocalsOK, Labels
<1>3. CallsOK'
  BY DEF Die, CallsOK, CallOK
<1> QED
  BY <1>1, <1>2, <1>3 DEF BaseInv

\* What becomes of the server in a step of the client.
LEMMA ServerSide ==
    ASSUME [ClientNext]_allVars
    PROVE  \/ \E t \in Threads : DriverCall(t)
           \/ \E t \in Threads :
                /\ Receive(t) \/ Deliver(t) \/ Answer(t) \/ Work(t) \/ Race(t)
                     \/ NoticeCancel(t)
                /\ Client(t) \/ Run(t) \/ DataRace(t)
           \/ Die
           \/ UNCHANGED vars
<1>1. ASSUME NEW t \in Threads, Receive(t)
      PROVE  Run(t)
  BY <1>1 DEF Receive, Run, AddStep
<1>2. ASSUME NEW t \in Threads, Deliver(t)
      PROVE  Run(t)
  BY <1>2 DEF Deliver, Run, ClosedStep
<1>3. ASSUME NEW t \in Threads, Answer(t)
      PROVE  Run(t)
  BY <1>3 DEF Answer, Run
<1>4. ASSUME NEW t \in Threads, Work(t) \/ Race(t) \/ NoticeCancel(t)
      PROVE  Client(t) \/ Run(t) \/ DataRace(t)
  BY <1>4 DEF Work, Race, NoticeCancel, Client
<1>5. Crash \/ KillTestServer => Die
  BY DEF Crash, KillTestServer
<1>6. StartTestServer \/ NoServer \/ Deadline \/ Disconnect \/ Ended => UNCHANGED vars
  BY DEF StartTestServer, NoServer, Deadline, Disconnect, Ended, allVars
<1>7. UNCHANGED allVars => UNCHANGED vars
  BY DEF allVars
<1> QED
  BY <1>1, <1>2, <1>3, <1>4, <1>5, <1>6, <1>7 DEF ClientNext, Serve

\* The server keeps its types whatever the client and the faults do to it.
LEMMA ClientKeepsBase ==
    ASSUME TypedInv, [ClientNext]_allVars
    PROVE  BaseInv'
<1>1. ASSUME NEW t \in Threads, DriverCall(t)
      PROVE  BaseInv'
  BY <1>1, DriverCallIsCall, CallKeepsBase DEF TypedInv
<1>2. ASSUME [Next]_vars
      PROVE  BaseInv'
  BY <1>2, TableInductive, LocalsInductive, CallsInductive DEF TypedInv, BaseInv
<1>3. ASSUME NEW t \in Threads, Client(t) \/ Run(t) \/ DataRace(t)
      PROVE  [Next]_vars
  BY <1>3 DEF Next
<1>4. CASE Die
  BY <1>4, DieKeepsBase DEF TypedInv
<1> QED
  BY <1>1, <1>2, <1>3, <1>4, ServerSide

\* The answer of a call, or its failure, leaves the driver with values of their
\* types, and with something to delete if it goes on deleting.
LEMMA AnsweredTyped ==
    ASSUME ClientTypeOK, InputsOK, NEW st \in Statuses \cup {"none"},
           NEW ids \in Seq(Ids), NEW next \in Nat, Answered(st, ids, next)
    PROVE  /\ stage' \in Stages /\ on' = NULL /\ sessionStart' \in Nat
           /\ todo' \in Seq(Ids) /\ attempts' \in Nat
           /\ sessionId' \in 0 .. MaxSessions
           /\ closed' \in Seq(Ids) /\ reported' \in Seq(Ids)
           /\ result' \in Statuses \cup {"none"}
           /\ stage' = "delete" => todo' # <<>>
<1> USE DEF ClientTypeOK
<1>0. on' = NULL
  BY DEF Answered
<1>1. CASE ListAnswered(st, ids, next)
  <2>1. stage' \in Stages
    BY <1>1 DEF ListAnswered, Retry, Stages
  <2>2. attempts' \in Nat
    BY <1>1 DEF ListAnswered, Retry
  <2>3. /\ todo' \in Seq(Ids) /\ sessionStart' \in Nat /\ sessionId' = sessionId
        /\ closed' = closed /\ reported' = reported
        /\ result' \in Statuses \cup {"none"}
    BY <1>1 DEF ListAnswered
  <2>4. stage' = "delete" => todo' # <<>>
    BY <1>1 DEF ListAnswered, Retry
  <2> QED
    BY <1>0, <2>1, <2>2, <2>3, <2>4
<1>2. CASE DeleteAnswered(st)
  <2>1. stage' \in Stages
    BY <1>2 DEF DeleteAnswered, Retry, Stages
  <2>2. attempts' \in Nat
    BY <1>2 DEF DeleteAnswered, Retry
  <2>3. todo # <<>>
    BY <1>2 DEF DeleteAnswered, InputsOK
  <2>4. Tail(todo) \in Seq(Ids)
    BY <2>3
  <2>5. /\ todo' \in Seq(Ids) /\ sessionStart' = sessionStart /\ sessionId' = sessionId
        /\ closed' = closed /\ reported' = reported /\ result' = result
    BY <1>2, <2>4 DEF DeleteAnswered
  <2>6. stage' = "delete" => todo' # <<>>
    BY <1>2, <2>3 DEF DeleteAnswered, Retry
  <2> QED
    BY <1>0, <2>1, <2>2, <2>5, <2>6
<1>3. CASE AddAnswered(st)
  <2>1. stage' \in Stages /\ stage' # "delete"
    BY <1>3 DEF AddAnswered, Retry, Stages
  <2>2. attempts' \in Nat
    BY <1>3 DEF AddAnswered, Retry
  <2>3. sessionId' \in 0 .. MaxSessions
    BY <1>3, BatchTyped DEF AddAnswered
  <2>4. UNCHANGED <<sessionStart, todo, closed, reported, result>>
    BY <1>3 DEF AddAnswered
  <2> QED
    BY <1>0, <2>1, <2>2, <2>3, <2>4
<1>4. CASE CollectAnswered(st)
  <2>1. stage' \in Stages /\ stage' # "delete"
    BY <1>4 DEF CollectAnswered, Retry, Stages
  <2>2. attempts' \in Nat
    BY <1>4 DEF CollectAnswered, Retry
  <2>3. reported \o closed \in Seq(Ids)
    OBVIOUS
  <2>4. reported' \in Seq(Ids) /\ closed' \in Seq(Ids)
    <3>1. closed' = <<>> /\ (reported' = reported \/ reported' = reported \o closed)
      BY <1>4 DEF CollectAnswered
    <3>2. reported \in Seq(Ids)
      OBVIOUS
    <3>3. closed' \in Seq(Ids)
      BY <3>1
    <3> QED
      BY <2>3, <3>1, <3>2, <3>3
  <2>5. UNCHANGED <<sessionStart, todo, sessionId, result>>
    BY <1>4 DEF CollectAnswered
  <2> QED
    BY <1>0, <2>1, <2>2, <2>4, <2>5
<1> QED
  BY <1>1, <1>2, <1>3, <1>4 DEF Answered

\* So does its failure.
LEMMA FailsTyped ==
    ASSUME ClientTypeOK, InputsOK, NEW st \in Statuses, Fails(st)
    PROVE  /\ stage' \in Stages /\ on' = NULL /\ sessionStart' \in Nat
           /\ todo' \in Seq(Ids) /\ attempts' \in Nat
           /\ sessionId' \in 0 .. MaxSessions
           /\ closed' \in Seq(Ids) /\ reported' \in Seq(Ids)
           /\ result' \in Statuses \cup {"none"}
           /\ stage' = "delete" => todo' # <<>>
<1>1. Answered(st, <<>>, 0) /\ <<>> \in Seq(Ids) /\ 0 \in Nat
  BY DEF Fails
<1> QED
  BY <1>1, AnsweredTyped

\* A handler that works on its call goes on with it.
LEMMA WorkGoesOn ==
    ASSUME BaseInv, NEW t \in Threads, Work(t)
    PROVE  /\ op' = op /\ size' = size /\ cancelled' = cancelled
           /\ pc[t] # "idle" /\ pc'[t] # "idle"
<1> USE DEF BaseInv, LocalsOK, At, Goto
<1>1. ~Reply(t) /\ ~AddRead(t)
  <2>1. ~Reply(t)
    BY DEF Work, Reply
  <2>2. AddRead(t) => pc[t] = "add_read" /\ pc'[t] = "add_count"
    BY DEF AddRead
  <2> QED
    BY <2>1, <2>2 DEF Work
<1>2. CASE CheckCancelled(t) \/ AddCancelled(t) \/ AddEnd(t) \/ AddCount(t)
           \/ AddFind(t) \/ AddLink(t) \/ AddFill(t)
  BY <1>2 DEF CheckCancelled, AddCancelled, AddEnd, AddCount, AddFind, AddLink,
              AddFill, AddError, Return
<1>3. CASE GetFind(t) \/ GetCopy(t) \/ DelFind(t) \/ DelUnlink(t)
  BY <1>3 DEF GetFind, GetCopy, DelFind, DelUnlink, Find, Return
<1>4. CASE ClosedBegin(t) \/ ClosedSkip(t) \/ ClosedNext(t)
  BY <1>4 DEF ClosedBegin, ClosedSkip, ClosedNext, ClosedScanned, Return
<1>5. CASE ClosedTake(t) \/ ClosedWrite(t)
  BY <1>5 DEF ClosedTake, ClosedWrite, ClosedScanned, Return
<1>6. CASE AllBegin(t) \/ AllStep(t)
  BY <1>6 DEF AllBegin, AllStep, Return
<1>7. CASE Dangling(t) \/ ClosedOverflow(t)
  BY <1>7 DEF Dangling, ClosedOverflow, Undefined, locals
<1> QED
  BY <1>1, <1>2, <1>3, <1>4, <1>5, <1>6, <1>7 DEF Work, Run, AddStep, ClosedStep

\* Every step keeps the types of the driver and of its environment.
LEMMA ClientTypesInductive ==
    ASSUME TypedInv, [ClientNext]_allVars
    PROVE  ClientTypeOK' /\ InputsOK'
<1> USE DEF TypedInv
<1>0. /\ ClientTypeOK /\ InputsOK
      /\ stream \in [Threads -> Seq(Ids)] /\ op \in [Threads -> Ops \cup {"none"}]
      /\ size \in [Threads -> Nat] /\ out \in [Threads -> Seq(Entry)]
      /\ key \in [Threads -> Nat]
      /\ status \in [Threads -> {"none", "OK", "NOT_FOUND", "CANCELLED"}]
  BY DEF ClientTypeOK, BaseInv, LocalsOK
<1>1. ASSUME NEW t \in Threads, DriverCall(t)
      PROVE  ClientTypeOK' /\ InputsOK'
  <2>1. /\ UNCHANGED <<stage, sessionStart, todo, attempts, sessionId, closed,
                       reported, result, up, acked, faults>>
        /\ on' = t
    BY <1>1 DEF DriverCall, ListCall, DeleteCall, AddCall, CollectCall, Issue
  <2>2. CASE AddCall(t)
    <3>1. /\ stream' = [stream EXCEPT ![t] = Batch] /\ op' = [op EXCEPT ![t] = "add"]
          /\ size' = [size EXCEPT ![t] = BatchSize]
      BY <2>2 DEF AddCall, Issue, Call
    <3>2. Batch \in Seq(Ids) /\ Len(Batch) = BatchSize
      BY <1>0, BatchTyped DEF ClientTypeOK
    <3>3. stream' \in [Threads -> Seq(Ids)]
      BY <1>0, <3>1, <3>2
    <3>4. \A u \in Threads : op'[u] = "add" => Len(stream'[u]) = size'[u]
      BY <1>0, <3>1, <3>2 DEF InputsOK
    <3> QED
      BY <1>0, <2>1, <3>3, <3>4 DEF ClientTypeOK, InputsOK
  <2>3. CASE ListCall(t) \/ DeleteCall(t) \/ CollectCall(t)
    <3>1. /\ stream' = stream
          /\ \E o \in Ops \ {"add"} : op' = [op EXCEPT ![t] = o]
          /\ \E n : size' = [size EXCEPT ![t] = n]
      BY <2>3 DEF ListCall, DeleteCall, CollectCall, Issue, Call, Ops
    <3>2. \A u \in Threads : op'[u] = "add" => Len(stream'[u]) = size'[u]
      BY <1>0, <3>1 DEF InputsOK
    <3> QED
      BY <1>0, <2>1, <3>1, <3>2 DEF ClientTypeOK, InputsOK
  <2> QED
    BY <1>1, <2>2, <2>3 DEF DriverCall
<1>2. ASSUME NEW t \in Threads, Receive(t)
      PROVE  ClientTypeOK' /\ InputsOK'
  <2>1. /\ UNCHANGED <<stage, on, sessionStart, todo, attempts, sessionId, closed,
                       reported, result, up, acked, faults>>
        /\ op' = op /\ size' = [size EXCEPT ![t] = @ - 1] /\ size[t] > 0
        /\ stream' = [stream EXCEPT ![t] = Tail(@)]
        /\ op[t] = "add"
    BY <1>2 DEF Receive, AddRead, At, driver, BaseInv, CallsOK, CallOK
  <2>2. Len(stream[t]) = size[t] /\ stream[t] \in Seq(Ids)
    BY <1>0, <2>1 DEF InputsOK
  <2>3. Tail(stream[t]) \in Seq(Ids) /\ Len(Tail(stream[t])) = size[t] - 1
    BY <1>0, <2>1, <2>2
  <2>4. stream' \in [Threads -> Seq(Ids)]
    BY <1>0, <2>1, <2>3
  <2>5. \A u \in Threads : op'[u] = "add" => Len(stream'[u]) = size'[u]
    BY <1>0, <2>1, <2>3 DEF InputsOK
  <2> QED
    BY <1>0, <2>1, <2>4, <2>5 DEF ClientTypeOK, InputsOK
<1>3. ASSUME NEW t \in Threads, Deliver(t)
      PROVE  ClientTypeOK' /\ InputsOK'
  <2>1. /\ UNCHANGED <<stage, on, sessionStart, todo, attempts, sessionId,
                       reported, result, stream, up, acked, faults, op, size>>
        /\ closed' = IF on = t /\ out[t] # <<>>
                     THEN Append(closed, Head(out[t]).id) ELSE closed
    BY <1>3 DEF Deliver, ClosedWrite, world
  <2>2. ASSUME out[t] # <<>>
        PROVE  Append(closed, Head(out[t]).id) \in Seq(Ids)
    <3>1. out[t] \in Seq(Entry)
      BY <1>0
    <3>2. Head(out[t]) \in Entry
      BY <2>2, <3>1
    <3>3. Head(out[t]).id \in Ids
      BY <3>2 DEF Entry
    <3> QED
      BY <1>0, <3>3 DEF ClientTypeOK
  <2>3. closed' \in Seq(Ids)
    BY <1>0, <2>1, <2>2 DEF ClientTypeOK
  <2> QED
    BY <1>0, <2>1, <2>3 DEF ClientTypeOK, InputsOK
<1>4. ASSUME NEW t \in Threads, Answer(t)
      PROVE  ClientTypeOK' /\ InputsOK'
  <2>1. /\ op' = [op EXCEPT ![t] = "none"] /\ size' = [size EXCEPT ![t] = 0]
        /\ stream' = [stream EXCEPT ![t] = <<>>] /\ UNCHANGED <<up, faults>>
    BY <1>4 DEF Answer, Reply
  <2>2. /\ stream' \in [Threads -> Seq(Ids)]
        /\ \A u \in Threads : op'[u] = "add" => Len(stream'[u]) = size'[u]
    BY <1>0, <2>1 DEF InputsOK
  <2>3. CASE on = t
    <3>1. Answered(status[t], IdsOf(out[t]), key[t])
      BY <1>4, <2>3 DEF Answer
    <3>2. /\ status[t] \in Statuses \cup {"none"} /\ key[t] \in Nat
          /\ IdsOf(out[t]) \in Seq(Ids)
      BY <1>0, IdsOfTyped DEF Statuses
    <3>3. /\ stage' \in Stages /\ on' = NULL /\ sessionStart' \in Nat
          /\ todo' \in Seq(Ids) /\ attempts' \in Nat
          /\ sessionId' \in 0 .. MaxSessions
          /\ closed' \in Seq(Ids) /\ reported' \in Seq(Ids)
          /\ result' \in Statuses \cup {"none"}
          /\ stage' = "delete" => todo' # <<>>
      BY <1>0, <3>1, <3>2, AnsweredTyped
    <3>4. acked' \subseteq Ids
      <4>1. Entered(t) \subseteq Ids
        <5>1. Range(Batch) \subseteq Ids
          BY <1>0, BatchTyped DEF ClientTypeOK, Range
        <5> QED
          BY <5>1 DEF Entered
      <4>2. acked \subseteq Ids
        BY <1>0 DEF ClientTypeOK
      <4> QED
        BY <1>4, <2>3, <4>1, <4>2 DEF Answer
    <3>5. up' \in BOOLEAN
      BY <1>0, <2>1 DEF ClientTypeOK
    <3>6. faults' \in Seq(Stages)
      BY <1>0, <2>1 DEF ClientTypeOK
    <3> QED
      BY <2>2, <3>3, <3>4, <3>5, <3>6 DEF ClientTypeOK, InputsOK
  <2>4. CASE on # t
    <3>1. UNCHANGED <<driver, acked>>
      BY <1>4, <2>4 DEF Answer
    <3> QED
      BY <1>0, <2>1, <2>2, <3>1 DEF ClientTypeOK, InputsOK, driver
  <2> QED
    BY <2>3, <2>4
<1>5. ASSUME NEW t \in Threads, Work(t) \/ Race(t) \/ NoticeCancel(t)
      PROVE  ClientTypeOK' /\ InputsOK'
  <2>1. UNCHANGED <<driver, world>>
    BY <1>5 DEF Work, Race, NoticeCancel
  <2>2. op' = op /\ size' = size
    <3>1. CASE Work(t)
      BY <3>1, WorkGoesOn DEF TypedInv
    <3>2. CASE Race(t) \/ NoticeCancel(t)
      BY <3>2 DEF Race, DataRace, Undefined, locals, NoticeCancel, Cancel
    <3> QED
      BY <1>5, <3>1, <3>2
  <2> QED
    BY <1>0, <2>1, <2>2 DEF ClientTypeOK, InputsOK, driver, world
<1>6. CASE Crash \/ KillTestServer
  <2>1. /\ up' = FALSE /\ stream' = [t \in Threads |-> <<>>] /\ acked' = {}
        /\ op' = [t \in Threads |-> "none"]
    BY <1>6 DEF Crash, KillTestServer, Die
  <2>2. up' \in BOOLEAN
    BY <2>1
  <2>3. acked' \subseteq Ids /\ stream' \in [Threads -> Seq(Ids)]
    BY <2>1
  <2>4. \A u \in Threads : op'[u] # "add"
    BY <2>1
  <2>5. CASE Crash
    <3>1. Append(faults, stage) \in Seq(Stages)
      BY <1>0 DEF ClientTypeOK
    <3>2. faults' \in Seq(Stages)
      BY <2>5, <3>1 DEF Crash, Fault
    <3>3. CASE UNCHANGED driver
      BY <1>0, <2>2, <2>3, <2>4, <3>2, <3>3 DEF ClientTypeOK, InputsOK, driver
    <3>4. CASE Fails("UNAVAILABLE")
      <4>1. "UNAVAILABLE" \in Statuses
        BY DEF Statuses
      <4> QED
        BY <1>0, <2>2, <2>3, <2>4, <3>2, <3>4, <4>1, FailsTyped
           DEF ClientTypeOK, InputsOK
    <3> QED
      BY <2>5, <3>3, <3>4 DEF Crash
  <2>6. CASE KillTestServer
    <3>1. /\ stage' = "add"
          /\ UNCHANGED <<on, sessionStart, todo, attempts, sessionId, closed, reported,
                         result, faults>>
      BY <2>6 DEF KillTestServer
    <3> QED
      BY <1>0, <2>2, <2>3, <2>4, <3>1 DEF ClientTypeOK, InputsOK, Stages
  <2> QED
    BY <1>6, <2>5, <2>6
<1>7. CASE NoServer \/ Deadline \/ Disconnect
  <2>1. /\ op' = op /\ size' = size /\ UNCHANGED <<stream, up, acked>>
        /\ \E st \in {"UNAVAILABLE", "DEADLINE_EXCEEDED"} : Fails(st)
    BY <1>7 DEF NoServer, Deadline, Disconnect, vars, locals, world
  <2>2. Append(faults, stage) \in Seq(Stages)
    BY <1>0 DEF ClientTypeOK
  <2>3. faults' \in Seq(Stages)
    <3>1. faults' = faults \/ faults' = Append(faults, stage)
      BY <1>7 DEF NoServer, Deadline, Disconnect, Fault, world
    <3>2. faults \in Seq(Stages)
      BY <1>0 DEF ClientTypeOK
    <3> QED
      BY <2>2, <3>1, <3>2
  <2>4. /\ stage' \in Stages /\ on' = NULL /\ sessionStart' \in Nat
        /\ todo' \in Seq(Ids) /\ attempts' \in Nat
        /\ sessionId' \in 0 .. MaxSessions
        /\ closed' \in Seq(Ids) /\ reported' \in Seq(Ids)
        /\ result' \in Statuses \cup {"none"}
        /\ stage' = "delete" => todo' # <<>>
    BY <1>0, <2>1, FailsTyped DEF Statuses
  <2> QED
    BY <1>0, <2>1, <2>3, <2>4 DEF ClientTypeOK, InputsOK
<1>8. CASE StartTestServer
  <2>1. /\ UNCHANGED <<driver, stream, acked, faults, op, size>> /\ up' = TRUE
    BY <1>8 DEF StartTestServer, vars, locals
  <2>2. up' \in BOOLEAN
    BY <2>1
  <2> QED
    BY <1>0, <2>1, <2>2 DEF ClientTypeOK, InputsOK, driver
<1>9. CASE Ended \/ UNCHANGED allVars
  BY <1>0, <1>9 DEF Ended, allVars, vars, locals, driver, world, ClientTypeOK, InputsOK
<1> QED
  BY <1>1, <1>2, <1>3, <1>4, <1>5, <1>6, <1>7, <1>8, <1>9 DEF ClientNext, Serve

\* The table an earlier client left is well formed, its ids are distinct, and all
\* its sessions are closed ones of those that may be there.
LEMMA PopulatedTable ==
    ASSUME Populated
    PROVE  /\ TableOK /\ UniqueIds
           /\ start \in Ptr \cup {NULL}
           /\ \A p \in DOMAIN heap : heap[p].state = "_CLOSED" /\ heap[p].id \in Existing
<1>0. PICK n \in 0 .. HASHTABLE_SIZE + 1 :
        \E ids \in {s \in [1 .. n -> Existing] : IsInjective(s)},
           ptrs \in {s \in [1 .. n -> Ptr] : IsInjective(s)} :
             /\ sessions = ptrs
             /\ heap = [p \in Range(ptrs) |->
                          [id |-> ids[CHOOSE i \in 1 .. n : ptrs[i] = p],
                           state |-> "_CLOSED"]]
             /\ start \in Range(ptrs) \cup {NULL}
  BY DEF Populated
<1>1. PICK ids \in {s \in [1 .. n -> Existing] : IsInjective(s)},
           ptrs \in {s \in [1 .. n -> Ptr] : IsInjective(s)} :
             /\ sessions = ptrs
             /\ heap = [p \in Range(ptrs) |->
                          [id |-> ids[CHOOSE i \in 1 .. n : ptrs[i] = p],
                           state |-> "_CLOSED"]]
             /\ start \in Range(ptrs) \cup {NULL}
  BY <1>0
<1> DEFINE at(p) == CHOOSE i \in 1 .. n : ptrs[i] = p
<1>2. \A p \in Range(ptrs) : at(p) \in 1 .. n /\ ptrs[at(p)] = p
  <2>1. \A p \in Range(ptrs) : \E i \in 1 .. n : ptrs[i] = p
    BY <1>1 DEF Range
  <2> QED
    BY <2>1
<1>3. /\ DOMAIN heap = Range(ptrs)
      /\ \A p \in DOMAIN heap : heap[p] = [id |-> ids[at(p)], state |-> "_CLOSED"]
  BY <1>1
<1> HIDE DEF at
<1>4. ids \in [1 .. n -> Existing] /\ ptrs \in [1 .. n -> Ptr] /\ n \in Nat
  BY <1>1, SizeAssumption
<1>5. \A p \in DOMAIN heap : heap[p].state = "_CLOSED" /\ heap[p].id \in Existing
  BY <1>2, <1>3, <1>4
<1>6. \A p \in DOMAIN heap : heap[p] \in Record
  <2>1. \A p \in DOMAIN heap : ids[at(p)] \in Ids
    BY <1>2, <1>3, <1>4, DriverAssumption
  <2> QED
    BY <1>3, <2>1 DEF Record, State
<1>7. heap \in [DOMAIN heap -> Record]
  <2>1. heap = [p \in DOMAIN heap |-> heap[p]]
    BY <1>1
  <2> QED
    BY <1>6, <2>1
<1>8. Range(ptrs) \subseteq Ptr
  BY <1>4 DEF Range
<1>9. sessions \in Seq(Ptr)
  BY <1>1, <1>4
<1>10. ListOK
  BY <1>1, <1>3 DEF ListOK
<1>11. UniqueIds
  <2>1. \A p, q \in DOMAIN heap : heap[p].id = heap[q].id => ids[at(p)] = ids[at(q)]
    BY <1>3
  <2>2. \A i, j \in 1 .. n : ids[i] = ids[j] => i = j
    BY <1>1 DEF IsInjective
  <2>3. \A p, q \in DOMAIN heap : heap[p].id = heap[q].id => at(p) = at(q)
    BY <2>1, <2>2, <1>2, <1>3
  <2> QED
    BY <2>3, <1>2, <1>3 DEF UniqueIds
<1> QED
  BY <1>1, <1>3, <1>5, <1>7, <1>8, <1>9, <1>10, <1>11 DEF TableOK

\* The types hold when the driver starts.
LEMMA ClientInitTyped ==
    ASSUME ClientInit
    PROVE  TypedInv
<1>1. TableOK /\ start \in Ptr \cup {NULL}
  BY PopulatedTable DEF ClientInit
<1>2. LocalsOK
  BY <1>1 DEF ClientInit, ThreadsIdle, LocalsOK, Labels
<1>3. CallsOK
  BY DEF ClientInit, ThreadsIdle, CallsOK, CallOK
<1>4. UINT_MAX \in Nat /\ MaxSessions \in Nat
  BY SizeAssumption, DriverAssumption
<1>5. up \in BOOLEAN
  BY DEF ClientInit
<1>6. /\ todo \in Seq(Ids) /\ closed \in Seq(Ids) /\ reported \in Seq(Ids)
      /\ faults \in Seq(Stages) /\ stream \in [Threads -> Seq(Ids)]
  BY DEF ClientInit
<1>7. ClientTypeOK
  BY <1>4, <1>5, <1>6 DEF ClientInit, ClientTypeOK, Stages
<1>8. InputsOK
  BY DEF ClientInit, ThreadsIdle, InputsOK
<1> QED
  BY <1>1, <1>2, <1>3, <1>7, <1>8 DEF TypedInv, BaseInv

\* The types hold in every reachable state of the client and its server.
THEOREM ClientInvariance == ClientSpec => []TypedInv
<1>1. ClientInit => TypedInv
  BY ClientInitTyped
<1>2. TypedInv /\ [ClientNext]_allVars => TypedInv'
  BY ClientKeepsBase, ClientTypesInductive DEF TypedInv
<1> QED
  BY <1>1, <1>2, PTL DEF ClientSpec

\* The variables of the driver and of its environment keep their types, whichever
\* calls fail and whenever the server is killed: opof_run_tests.c puts what an
\* answer holds into its next calls.
THEOREM ClientTypesCorrect == ClientSpec => []ClientTypeOK
<1>1. TypedInv => ClientTypeOK
  BY DEF TypedInv
<1> QED
  BY <1>1, ClientInvariance, PTL

-----------------------------------------------------------------------------
(* One call at a time: no call is given up while its handler runs, unless the *)
(* server dies with it.                                                        *)

\* No deadline passes and no connection breaks.
OnlyKills == Faults \subseteq {"kill"}

\* This step cuts no call short.
NoneCut == ~Deadline /\ ~Disconnect

\* Without such faults no step does.
LEMMA KillsCutNone ==
    ASSUME OnlyKills
    PROVE  NoneCut
BY DEF OnlyKills, NoneCut, Deadline, Disconnect, Fault

\* The call a loop of the driver makes.
Makes(loop, call) ==
    \/ loop = "list" /\ call = "all"
    \/ loop = "delete" /\ call = "del"
    \/ loop = "add" /\ call = "add"
    \/ loop = "collect" /\ call = "closed"

\* The one thread at work serves the call the driver waits for, and a server
\* that is down has lost its table.
OneCall ==
    /\ \A t \in Threads : ~cancelled[t] /\ (t # on => pc[t] = "idle")
    /\ on # NULL => up /\ pc[on] # "idle" /\ Makes(stage, op[on])
    /\ ~up => sessions = <<>> /\ heap = <<>> /\ start = NULL

\* A step of the driver or of the one handler at work, or a death of the server.
LEMMA SerialCases ==
    ASSUME NoneCut, TypedInv, OneCall, [ClientNext]_allVars
    PROVE  \/ \E t \in Threads :
                /\ on = NULL /\ on' = t /\ pc[t] = "idle" /\ Alone(t)
                /\ DriverCall(t)
           \/ \E t \in Threads :
                /\ on = t /\ pc[t] # "idle" /\ Alone(t) /\ ~cancelled[t]
                /\ Receive(t) \/ Deliver(t) \/ Answer(t) \/ Work(t)
           \/ Crash
           \/ KillTestServer /\ on = NULL
           \/ NoServer /\ on = NULL
           \/ UNCHANGED <<vars, driver, stream, acked, faults>> /\ ~up /\ up'
           \/ UNCHANGED allVars
<1>1. ~Deadline /\ ~Disconnect
  BY DEF NoneCut
<1>2. ASSUME NEW t \in Threads, DriverCall(t)
      PROVE  on = NULL /\ on' = t /\ pc[t] = "idle" /\ Alone(t)
  <2>1. on = NULL /\ on' = t /\ pc[t] = "idle"
    BY <1>2 DEF DriverCall, ListCall, DeleteCall, AddCall, CollectCall, Issue, Call, At
  <2>2. \A u \in Threads : pc[u] = "idle"
    BY <2>1, DriverAssumption DEF OneCall
  <2> QED
    BY <2>1, <2>2 DEF Alone
<1>3. ASSUME NEW t \in Threads, pc[t] # "idle"
      PROVE  on = t /\ Alone(t) /\ ~cancelled[t]
  BY <1>3 DEF OneCall, Alone
<1>4. ASSUME NEW t \in Threads, Receive(t) \/ Deliver(t) \/ Answer(t) \/ Work(t)
      PROVE  pc[t] # "idle"
  <2>1. CASE Receive(t) \/ Deliver(t) \/ Answer(t)
    BY <2>1 DEF Receive, AddRead, Deliver, ClosedWrite, Answer, Reply, At
  <2>2. CASE Work(t)
    BY <2>2, WorkGoesOn DEF TypedInv
  <2> QED
    BY <1>4, <2>1, <2>2
<1>5. ASSUME NEW t \in Threads
      PROVE  ~NoticeCancel(t) /\ ~Race(t)
  <2>1. ~NoticeCancel(t)
    BY DEF NoticeCancel, Cancel, OneCall
  <2>2. ASSUME NEW u \in Threads, pc[u] = "idle"
        PROVE  Reads(u) = {} /\ Writes(u) = {}
    BY <2>2 DEF Reads, Writes
  <2>3. \A u \in Threads \ {t} : pc[u] = "idle" \/ pc[t] = "idle"
    BY DEF OneCall
  <2> QED
    BY <2>1, <2>2, <2>3 DEF Race, DataRace
<1>6. KillTestServer => on = NULL
  BY DEF KillTestServer, OneCall, Makes
<1>7. NoServer => on = NULL
  BY DEF NoServer, OneCall
<1>8. StartTestServer => UNCHANGED <<vars, driver, stream, acked, faults>> /\ ~up /\ up'
  BY DEF StartTestServer
<1>9. Ended => UNCHANGED allVars
  BY DEF Ended
<1> QED
  BY <1>1, <1>2, <1>3, <1>4, <1>5, <1>6, <1>7, <1>8, <1>9 DEF ClientNext, Serve

\* A death of the server ends every call.
LEMMA DieEndsCalls ==
    ASSUME Die
    PROVE  /\ \A t \in Threads :
                /\ pc'[t] = "idle" /\ op'[t] = "none" /\ out'[t] = <<>>
                /\ ~cancelled'[t]
           /\ sessions' = <<>> /\ heap' = <<>> /\ start' = NULL /\ acked' = {} /\ ~up'
           /\ ub' = "none"
BY DEF Die

\* The calls of the driver and their handlers stay paired.
LEMMA OneCallInductive ==
    ASSUME NoneCut, TypedInv, OneCall, [ClientNext]_allVars
    PROVE  OneCall'
<1>1. ASSUME NEW t \in Threads, on = NULL, on' = t, Alone(t), DriverCall(t)
      PROVE  OneCall'
  <2> USE DEF TypedInv, BaseInv, LocalsOK, OneCall
  <2>1. /\ up' = up /\ stage' = stage /\ cancelled' = cancelled
        /\ sessions' = sessions /\ heap' = heap /\ start' = start
        /\ up
    BY <1>1 DEF DriverCall, ListCall, DeleteCall, AddCall, CollectCall, Issue, Call, table
  <2>2. pc'[t] # "idle" /\ \A u \in Threads \ {t} : pc'[u] = pc[u]
    BY <1>1 DEF DriverCall, ListCall, DeleteCall, AddCall, CollectCall, Issue, Call, Goto
  <2>3. Makes(stage, op'[t])
    BY <1>1 DEF DriverCall, ListCall, DeleteCall, AddCall, CollectCall, Issue, Call, Makes
  <2>4. \A u \in Threads : u # on' => pc'[u] = "idle"
    BY <1>1, <2>2 DEF Alone
  <2> QED
    BY <1>1, <2>1, <2>2, <2>3, <2>4
<1>2. ASSUME NEW t \in Threads, on = t, Alone(t), ~cancelled[t],
             Receive(t) \/ Deliver(t) \/ Work(t)
      PROVE  OneCall'
  <2> USE DEF TypedInv, BaseInv, LocalsOK, OneCall
  <2>1. UNCHANGED <<on, stage, up>>
    BY <1>2 DEF Receive, Deliver, Work, driver, world
  <2>2. op' = op /\ cancelled' = cancelled /\ pc'[t] # "idle"
    <3>1. CASE Work(t)
      BY <3>1, WorkGoesOn
    <3>2. CASE Receive(t) \/ Deliver(t)
      BY <3>2 DEF Receive, AddRead, Deliver, ClosedWrite, Return, Goto, At
    <3> QED
      BY <1>2, <3>1, <3>2
  <2>3. Run(t)
    BY <1>2 DEF Receive, Deliver, Work, Run, AddStep, ClosedStep
  <2>4. \A u \in Threads \ {t} : pc'[u] = "idle"
    BY <1>2, <2>3, OthersKeepLocals DEF Same, Alone
  <2>5. up
    BY <1>2, DriverAssumption
  <2> QED
    BY <1>2, <2>1, <2>2, <2>4, <2>5
<1>3. ASSUME NEW t \in Threads, on = t, Alone(t), Answer(t)
      PROVE  OneCall'
  <2> USE DEF TypedInv, BaseInv, LocalsOK, OneCall
  <2>1. on' = NULL
    BY <1>3 DEF Answer, Answered
  <2>2. /\ up' = up /\ cancelled' = [cancelled EXCEPT ![t] = FALSE]
        /\ pc' = [pc EXCEPT ![t] = "idle"]
        /\ sessions' = sessions /\ heap' = heap /\ start' = start
    BY <1>3 DEF Answer, Reply, Goto, table
  <2>3. \A u \in Threads : ~cancelled'[u] /\ pc'[u] = "idle"
    BY <1>3, <2>2 DEF Alone
  <2> QED
    BY <2>1, <2>2, <2>3
<1>4. CASE Crash \/ (KillTestServer /\ on = NULL)
  <2> USE DEF TypedInv, BaseInv, LocalsOK, OneCall
  <2>1. on' = NULL
    BY <1>4 DEF Crash, KillTestServer, Fails, Answered, driver
  <2> QED
    BY <1>4, <2>1, DieEndsCalls DEF Crash, KillTestServer
<1>5. CASE NoServer /\ on = NULL
  <2> USE DEF TypedInv, BaseInv, LocalsOK, OneCall
  <2>1. on' = NULL /\ UNCHANGED <<vars, up>>
    BY <1>5 DEF NoServer, Fails, Answered, world
  <2> QED
    BY <1>5, <2>1 DEF vars, table, locals
<1>6. CASE UNCHANGED <<vars, driver, stream, acked, faults>> /\ ~up /\ up'
  BY <1>6 DEF vars, table, locals, driver, OneCall
<1>7. CASE UNCHANGED allVars
  BY <1>7 DEF OneCall, allVars, vars, table, locals, driver, world
<1> QED
  BY <1>1, <1>2, <1>3, <1>4, <1>5, <1>6, <1>7, SerialCases

\* The server's part of such a step.
LEMMA SerialServer ==
    ASSUME NoneCut, TypedInv, OneCall, [ClientNext]_allVars
    PROVE  \/ \E t \in Threads : on = NULL /\ Alone(t) /\ DriverCall(t)
           \/ \E t \in Threads : on = t /\ Alone(t) /\ Run(t)
           \/ Die
           \/ UNCHANGED vars
<1>1. ASSUME NEW t \in Threads, Receive(t) \/ Deliver(t) \/ Answer(t) \/ Work(t)
      PROVE  Run(t)
  BY <1>1 DEF Receive, Deliver, Answer, Work, Run, AddStep, ClosedStep
<1>2. Crash \/ KillTestServer => Die
  BY DEF Crash, KillTestServer
<1>3. NoServer \/ UNCHANGED allVars => UNCHANGED vars
  BY DEF NoServer, allVars
<1> QED
  BY <1>1, <1>2, <1>3, SerialCases

\* What holds of a server that is called by one client, one call at a time.
ServerInv ==
    /\ BufferInv /\ NoStuckSession
    /\ UniqueIds /\ CheckedIdIsNew
    /\ \A t \in Threads : HoldsLive(t)

\* A new call finds the handlers idle.
LEMMA CallKeepsServer ==
    ASSUME TypedInv, OneCall, ServerInv, NEW t \in Threads, Alone(t), DriverCall(t)
    PROVE  ServerInv'
<1>1. PICK o \in Ops, k \in Nat, n \in Nat : Call(t, o, k, n)
  BY DriverCallIsCall
<1>2. /\ sessions' = sessions /\ heap' = heap /\ out' = out /\ r' = r /\ ub' = ub
      /\ pc[t] = "idle" /\ pc'[t] \in {"add_read", "check"} /\ out[t] = <<>>
      /\ \A u \in Threads \ {t} : pc'[u] = "idle" /\ op'[u] = op[u]
  BY <1>1 DEF Call, At, Goto, table, Alone, TypedInv, BaseInv, LocalsOK, CallsOK, CallOK
<1>3. BufferInv'
  <2>1. BUFFER_MAX \in Nat
    BY SizeAssumption
  <2>2. ASSUME NEW u \in Threads
        PROVE  /\ op'[u] \in {"closed", "all"} => Len(out'[u]) <= BUFFER_MAX
               /\ pc'[u] \notin {"all_step", "closed_body", "closed_next"}
    <3>1. CASE u = t
      BY <1>2, <2>1, <3>1
    <3>2. CASE u # t
      BY <1>2, <3>2 DEF ServerInv, BufferInv
    <3> QED
      BY <3>1, <3>2
  <2> QED
    BY <1>2, <2>2 DEF ServerInv, BufferInv
<1>4. NoStuckSession'
  BY <1>2 DEF ServerInv, NoStuckSession, Alone
<1>5. UniqueIds' /\ CheckedIdIsNew'
  BY <1>2 DEF ServerInv, UniqueIds, CheckedIdIsNew
<1>6. \A u \in Threads : HoldsLive(u)'
  <2>1. \A u \in Threads : pc'[u] \in {"add_read", "check", "idle"}
    BY <1>2
  <2> QED
    BY <2>1 DEF HoldsLive
<1> QED
  BY <1>3, <1>4, <1>5, <1>6 DEF ServerInv

\* The one handler at work keeps what holds of a server called once at a time.
LEMMA ServerInvInductive ==
    ASSUME NoneCut, TypedInv, OneCall, ServerInv, [ClientNext]_allVars
    PROVE  ServerInv'
<1>1. ASSUME NEW t \in Threads, Alone(t), DriverCall(t)
      PROVE  ServerInv'
  BY <1>1, CallKeepsServer
<1>2. ASSUME NEW t \in Threads, Alone(t), Run(t)
      PROVE  ServerInv'
  <2>1. [Next]_vars
    BY <1>2 DEF Next
  <2>2. BufferInv' /\ NoStuckSession'
    BY <2>1, BufferInductive, NoStuckInductive DEF TypedInv, ServerInv
  <2>3. UniqueIds' /\ CheckedIdIsNew'
    BY <1>2, UniqueStep DEF TypedInv, ServerInv
  <2>4. HoldsLive(t)'
    BY <1>2, HoldsLiveInductive DEF TypedInv, ServerInv
  <2>5. ASSUME NEW u \in Threads \ {t}
        PROVE  HoldsLive(u)'
    <3>1. pc'[u] = "idle"
      BY <1>2, OthersKeepLocals DEF TypedInv, BaseInv, Same, Alone
    <3> QED
      BY <3>1 DEF HoldsLive
  <2> QED
    BY <2>2, <2>3, <2>4, <2>5 DEF ServerInv
<1>3. CASE Die
  <2>1. /\ heap' = <<>> /\ ub' = "none"
        /\ \A t \in Threads : pc'[t] = "idle" /\ op'[t] = "none"
    BY <1>3, DieEndsCalls
  <2>2. DOMAIN heap' = {}
    BY <2>1
  <2> QED
    BY <2>1, <2>2 DEF ServerInv, BufferInv, NoStuckSession, UniqueIds, CheckedIdIsNew,
                      HoldsLive
<1>4. CASE UNCHANGED vars
  BY <1>4 DEF vars, table, locals, ServerInv, BufferInv, NoStuckSession, UniqueIds,
              CheckedIdIsNew, HoldsLive, Alive, Succ, Position
<1> QED
  BY <1>1, <1>2, <1>3, <1>4, SerialServer

-----------------------------------------------------------------------------
(* Lists of ids without repetitions. *)

\* A new element at the end keeps a list free of repetitions.
LEMMA InjectiveAppend ==
    ASSUME NEW S, NEW s \in Seq(S), NEW x \in S
    PROVE  /\ Append(s, x) \in Seq(S) /\ Range(Append(s, x)) = Range(s) \cup {x}
           /\ IsInjective(s) /\ x \notin Range(s) => IsInjective(Append(s, x))
<1> DEFINE n == Len(s)
           a == Append(s, x)
<1>1. /\ n \in Nat /\ a \in Seq(S) /\ Len(a) = n + 1
      /\ DOMAIN s = 1 .. n /\ DOMAIN a = 1 .. n + 1
      /\ a[n + 1] = x /\ \A i \in 1 .. n : a[i] = s[i]
  OBVIOUS
<1> HIDE DEF n, a
<1>2. Range(a) = Range(s) \cup {x}
  <2>1. \A i \in DOMAIN a : a[i] \in Range(s) \cup {x}
    BY <1>1 DEF Range
  <2>2. \A i \in DOMAIN s : i \in DOMAIN a /\ a[i] = s[i]
    BY <1>1
  <2>3. n + 1 \in DOMAIN a
    BY <1>1
  <2> QED
    BY <1>1, <2>1, <2>2, <2>3 DEF Range
<1>3. ASSUME IsInjective(s), x \notin Range(s)
      PROVE  IsInjective(a)
  <2>1. \A i \in 1 .. n : s[i] # x
    BY <1>1, <1>3 DEF Range
  <2>2. \A i, j \in 1 .. n : s[i] = s[j] => i = j
    BY <1>1, <1>3 DEF IsInjective
  <2>3. \A i, j \in DOMAIN a : a[i] = a[j] => i = j
    BY <1>1, <2>1, <2>2
  <2> QED
    BY <2>3 DEF IsInjective
<1> QED
  BY <1>1, <1>2, <1>3 DEF a

\* So does taking the first element away.
LEMMA InjectiveTail ==
    ASSUME NEW S, NEW s \in Seq(S), s # <<>>
    PROVE  /\ Tail(s) \in Seq(S) /\ Head(s) \in Range(s) /\ Head(s) \in S
           /\ Range(s) = Range(Tail(s)) \cup {Head(s)}
           /\ IsInjective(s) => IsInjective(Tail(s)) /\ Head(s) \notin Range(Tail(s))
<1> DEFINE n == Len(s)
           b == Tail(s)
<1>1. /\ n \in Nat /\ n > 0 /\ b \in Seq(S) /\ Len(b) = n - 1
      /\ DOMAIN s = 1 .. n /\ DOMAIN b = 1 .. n - 1
      /\ Head(s) = s[1] /\ \A i \in 1 .. n - 1 : b[i] = s[i + 1]
      /\ Head(s) \in S
  OBVIOUS
<1> HIDE DEF n, b
<1>2. 1 \in DOMAIN s /\ Head(s) \in Range(s)
  BY <1>1 DEF Range
<1>3. \A i \in DOMAIN b : i + 1 \in DOMAIN s /\ b[i] = s[i + 1]
  BY <1>1
<1>4. \A i \in DOMAIN s \ {1} : i - 1 \in DOMAIN b /\ b[i - 1] = s[i]
  BY <1>1
<1>5. Range(s) = Range(b) \cup {Head(s)}
  <2>1. \A i \in DOMAIN s : s[i] \in Range(b) \cup {Head(s)}
    BY <1>1, <1>4 DEF Range
  <2>2. \A i \in DOMAIN b : b[i] \in Range(s)
    BY <1>3 DEF Range
  <2> QED
    BY <1>2, <2>1, <2>2 DEF Range
<1>6. ASSUME IsInjective(s)
      PROVE  IsInjective(b) /\ Head(s) \notin Range(b)
  <2>1. \A i, j \in DOMAIN s : s[i] = s[j] => i = j
    BY <1>6 DEF IsInjective
  <2>2. \A i, j \in DOMAIN b : b[i] = b[j] => i + 1 = j + 1
    BY <1>3, <2>1
  <2>3. \A i, j \in DOMAIN b : i + 1 = j + 1 => i = j
    BY <1>1
  <2>4. \A i \in DOMAIN b : i + 1 # 1
    BY <1>1
  <2>5. \A i \in DOMAIN b : b[i] # s[1]
    BY <1>2, <1>3, <2>1, <2>4
  <2> QED
    BY <1>1, <2>2, <2>3, <2>5 DEF IsInjective, Range
<1> QED
  BY <1>1, <1>2, <1>5, <1>6 DEF b

\* The ids of an answer grow and shrink with it.
LEMMA IdsOfSteps ==
    ASSUME NEW es \in Seq(Entry)
    PROVE  /\ \A e \in Entry : IdsOf(Append(es, e)) = Append(IdsOf(es), e.id)
           /\ es # <<>> => /\ IdsOf(Tail(es)) = Tail(IdsOf(es))
                           /\ Head(IdsOf(es)) = Head(es).id
           /\ IdsOf(<<>>) = <<>>
<1>1. /\ IdsOf(es) \in Seq(Ids) /\ Len(IdsOf(es)) = Len(es)
      /\ \A i \in 1 .. Len(es) : IdsOf(es)[i] = es[i].id
      /\ Len(es) \in Nat
  BY IdsOfTyped
<1>2. ASSUME NEW e \in Entry
      PROVE  IdsOf(Append(es, e)) = Append(IdsOf(es), e.id)
  <2> DEFINE a == Append(es, e)
  <2>1. /\ a \in Seq(Entry) /\ Len(a) = Len(es) + 1 /\ a[Len(es) + 1] = e
        /\ \A i \in 1 .. Len(es) : a[i] = es[i]
    OBVIOUS
  <2> HIDE DEF a
  <2>2. /\ IdsOf(a) \in Seq(Ids) /\ Len(IdsOf(a)) = Len(es) + 1
        /\ \A i \in 1 .. Len(es) + 1 : IdsOf(a)[i] = a[i].id
    BY <2>1, IdsOfTyped
  <2>3. e.id \in Ids
    BY DEF Entry
  <2>4. /\ Append(IdsOf(es), e.id) \in Seq(Ids)
        /\ Len(Append(IdsOf(es), e.id)) = Len(es) + 1
        /\ \A i \in 1 .. Len(es) + 1 :
              Append(IdsOf(es), e.id)[i] = IF i <= Len(es) THEN es[i].id ELSE e.id
    BY <1>1, <2>3
  <2>5. \A i \in 1 .. Len(es) + 1 : IdsOf(a)[i] = Append(IdsOf(es), e.id)[i]
    BY <1>1, <2>1, <2>2, <2>4
  <2>6. IdsOf(a) = Append(IdsOf(es), e.id)
    BY <1>1, <2>2, <2>4, <2>5, SeqEqual
  <2> QED
    BY <2>6 DEF a
<1>3. ASSUME es # <<>>
      PROVE  IdsOf(Tail(es)) = Tail(IdsOf(es)) /\ Head(IdsOf(es)) = Head(es).id
  <2> DEFINE b == Tail(es)
  <2>1. /\ b \in Seq(Entry) /\ Len(b) = Len(es) - 1 /\ Len(es) > 0
        /\ \A i \in 1 .. Len(es) - 1 : b[i] = es[i + 1]
        /\ Head(es) = es[1]
    BY <1>3
  <2> HIDE DEF b
  <2>2. /\ IdsOf(b) \in Seq(Ids) /\ Len(IdsOf(b)) = Len(es) - 1
        /\ \A i \in 1 .. Len(es) - 1 : IdsOf(b)[i] = b[i].id
    BY <2>1, IdsOfTyped
  <2>3. IdsOf(es) # <<>>
    BY <1>1, <2>1
  <2>4. /\ Tail(IdsOf(es)) \in Seq(Ids) /\ Len(Tail(IdsOf(es))) = Len(es) - 1
        /\ \A i \in 1 .. Len(es) - 1 : Tail(IdsOf(es))[i] = IdsOf(es)[i + 1]
        /\ Head(IdsOf(es)) = IdsOf(es)[1]
    BY <1>1, <2>3
  <2>5. \A i \in 1 .. Len(es) - 1 : IdsOf(b)[i] = Tail(IdsOf(es))[i]
    BY <1>1, <2>1, <2>2, <2>4
  <2>6. IdsOf(b) = Tail(IdsOf(es))
    BY <1>1, <2>1, <2>2, <2>4, <2>5, SeqEqual
  <2>7. Head(IdsOf(es)) = Head(es).id
    BY <1>1, <2>1, <2>4
  <2> QED
    BY <2>6, <2>7 DEF b
<1>4. IdsOf(<<>>) = <<>>
  <2>1. <<>> \in Seq(Entry)
    OBVIOUS
  <2> QED
    BY <2>1, IdsOfTyped
<1> QED
  BY <1>2, <1>3, <1>4

\* What a call has delivered joins what the calls before it delivered.
LEMMA ToldRange ==
    ASSUME NEW S, NEW s \in Seq(S), NEW u \in Seq(S)
    PROVE  s \o u \in Seq(S) /\ Range(s \o u) = Range(s) \cup Range(u)
<1> DEFINE c == s \o u
<1>0. c \in Seq(S)
  OBVIOUS
<1>1. /\ Len(s) \in Nat /\ Len(u) \in Nat /\ DOMAIN c = 1 .. Len(s) + Len(u)
      /\ DOMAIN s = 1 .. Len(s) /\ DOMAIN u = 1 .. Len(u)
      /\ \A i \in 1 .. Len(s) : c[i] = s[i]
      /\ \A i \in Len(s) + 1 .. Len(s) + Len(u) : c[i] = u[i - Len(s)]
  OBVIOUS
<1> HIDE DEF c
<1>2. \A i \in DOMAIN c : c[i] \in Range(s) \cup Range(u)
  <2>1. \A i \in DOMAIN c : i \in DOMAIN s \/ i - Len(s) \in DOMAIN u
    BY <1>1
  <2>2. \A i \in DOMAIN c : i \in DOMAIN s \/ c[i] = u[i - Len(s)]
    BY <1>1
  <2> QED
    BY <1>1, <2>1, <2>2 DEF Range
<1>3. \A i \in DOMAIN s : i \in DOMAIN c /\ c[i] = s[i]
  BY <1>1
<1>4. \A i \in DOMAIN u : i + Len(s) \in DOMAIN c /\ c[i + Len(s)] = u[i]
  BY <1>1
<1> QED
  BY <1>0, <1>2, <1>3, <1>4 DEF Range, c

\* The order of what the driver has been told.
LEMMA ToldSteps ==
    ASSUME NEW s \in Seq(Ids), NEW u \in Seq(Ids), NEW x \in Ids
    PROVE  /\ s \o u \in Seq(Ids)
           /\ s \o <<>> = s
           /\ s \o Append(u, x) = Append(s \o u, x)
           /\ Range(s \o u) = Range(s) \cup Range(u)
<1>1. s \o u \in Seq(Ids) /\ s \o <<>> = s
  OBVIOUS
<1>2. Append(u, x) = u \o <<x>> /\ Append(s \o u, x) = (s \o u) \o <<x>>
  BY <1>1, AppendIsConcat
<1>3. (s \o u) \o <<x>> = s \o (u \o <<x>>)
  <2>1. <<x>> \in Seq(Ids)
    OBVIOUS
  <2> QED
    BY <2>1, ConcatAssociative
<1>4. Range(s \o u) = Range(s) \cup Range(u)
  BY ToldRange
<1> QED
  BY <1>1, <1>2, <1>3, <1>4

=============================================================================
