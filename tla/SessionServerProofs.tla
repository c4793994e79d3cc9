--------------------------- MODULE SessionServerProofs ---------------------------
(***************************************************************************)
(* Safety of the session table server for any number of threads, sessions  *)
(* and addresses and any sizes of the table and of the response arrays.    *)
(***************************************************************************)
EXTENDS SessionServer, FiniteSetTheorems, SequenceTheorems, TLAPS

-----------------------------------------------------------------------------
(* The list of the table. *)

\* RemoveAt drops one element and keeps the others in their order: what HASH_DEL
\* does to the insertion order.
LEMMA RemoveAtElements ==
    ASSUME NEW S, NEW s \in Seq(S), NEW i \in 1 .. Len(s)
    PROVE  /\ RemoveAt(s, i) \in Seq(S)
           /\ Len(RemoveAt(s, i)) = Len(s) - 1
           /\ \A j \in 1 .. Len(s) - 1 :
                RemoveAt(s, i)[j] = IF j < i THEN s[j] ELSE s[j + 1]
<1> DEFINE a == SubSeq(s, 1, i - 1)
           b == SubSeq(s, i + 1, Len(s))
<1>1. a \in Seq(S) /\ Len(a) = i - 1 /\ \A j \in 1 .. i - 1 : a[j] = s[j]
  OBVIOUS
<1>2. /\ b \in Seq(S) /\ Len(b) = Len(s) - i
      /\ \A j \in 1 .. Len(s) - i : b[j] = s[i + j]
  OBVIOUS
<1>3. RemoveAt(s, i) = a \o b
  BY DEF RemoveAt
<1> HIDE DEF a, b
<1>4. /\ a \o b \in Seq(S) /\ Len(a \o b) = Len(s) - 1
      /\ \A j \in 1 .. Len(s) - 1 :
           (a \o b)[j] = IF j < i THEN a[j] ELSE b[j - (i - 1)]
  <2>1. Len(a) + Len(b) = Len(s) - 1 /\ Len(a) = i - 1 /\ Len(s) \in Nat
    BY <1>1, <1>2
  <2>2. a \in Seq(S) /\ b \in Seq(S)
    BY <1>1, <1>2
  <2>3. /\ a \o b \in Seq(S) /\ Len(a \o b) = Len(a) + Len(b)
        /\ \A j \in 1 .. Len(a) + Len(b) :
             (a \o b)[j] = IF j <= Len(a) THEN a[j] ELSE b[j - Len(a)]
    BY <2>2, ConcatProperties
  <2> QED
    BY <2>1, <2>3
<1>5. \A j \in 1 .. Len(s) - 1 : ~(j < i) => b[j - (i - 1)] = s[j + 1]
  BY <1>2
<1> QED
  BY <1>1, <1>3, <1>4, <1>5

\* The index of a linked record is one at which the list holds it.
LEMMA PositionOfLinked ==
    ASSUME NEW p \in Range(sessions), sessions \in Seq(Ptr)
    PROVE  Position(p) \in 1 .. Len(sessions) /\ sessions[Position(p)] = p
<1>1. PICK i \in DOMAIN sessions : sessions[i] = p
  BY DEF Range
<1> QED
  BY <1>1 DEF Position

\* hh.next of a linked record is linked, or null at the end of the list.
LEMMA SuccIsLinked ==
    ASSUME sessions \in Seq(Ptr), NEW p
    PROVE  Succ(p) \in Range(sessions) \cup {NULL}
<1>1. CASE p \in Range(sessions) /\ Position(p) < Len(sessions)
  <2>1. Position(p) + 1 \in DOMAIN sessions
    BY <1>1, PositionOfLinked
  <2> QED
    BY <1>1, <2>1 DEF Succ, Range
<1>2. CASE ~(p \in Range(sessions) /\ Position(p) < Len(sessions))
  BY <1>2 DEF Succ
<1> QED
  BY <1>1, <1>2

TableOK ==
    /\ sessions \in Seq(Ptr)
    /\ DOMAIN heap \subseteq Ptr
    /\ heap \in [DOMAIN heap -> Record]
    /\ ListOK

\* The first record of a list that is not empty is the one at index 1, and live.
LEMMA FirstIsLive ==
    ASSUME TableOK, sessions # <<>>
    PROVE  /\ 1 \in DOMAIN sessions /\ First = sessions[1] /\ First \in DOMAIN heap
           /\ Position(First) = 1
<1>1. 1 \in DOMAIN sessions /\ First = sessions[1]
  BY DEF TableOK, First
<1>2. First \in Range(sessions)
  BY <1>1 DEF Range
<1>3. Position(First) = 1
  <2>1. Position(First) \in DOMAIN sessions /\ sessions[Position(First)] = First
    BY <1>2, PositionOfLinked DEF TableOK
  <2> QED
    BY <1>1, <2>1 DEF TableOK, ListOK, IsInjective
<1> QED
  BY <1>1, <1>2, <1>3 DEF TableOK, ListOK

\* A live record has one index in the list.
LEMMA PositionIsUnique ==
    ASSUME TableOK, NEW i \in DOMAIN sessions
    PROVE  /\ sessions[i] \in DOMAIN heap /\ sessions[i] # NULL
           /\ Position(sessions[i]) = i
           /\ Succ(sessions[i]) = IF i < Len(sessions) THEN sessions[i + 1] ELSE NULL
<1>1. sessions[i] \in Range(sessions)
  BY DEF Range
<1>2. Position(sessions[i]) \in DOMAIN sessions
      /\ sessions[Position(sessions[i])] = sessions[i]
  BY <1>1, PositionOfLinked DEF TableOK
<1>3. Position(sessions[i]) = i
  BY <1>2 DEF TableOK, ListOK, IsInjective
<1>4. sessions[i] \in DOMAIN heap /\ sessions[i] # NULL
  BY <1>1, PtrAssumption DEF TableOK, ListOK
<1> QED
  BY <1>1, <1>3, <1>4 DEF Succ

\* The same of the list after a step.
LEMMA PositionOfLinkedNext ==
    ASSUME sessions' \in Seq(Ptr), NEW p \in Range(sessions')
    PROVE  LET k == CHOOSE i \in DOMAIN sessions' : sessions'[i] = p
           IN k \in 1 .. Len(sessions') /\ sessions'[k] = p
<1>1. PICK i \in DOMAIN sessions' : sessions'[i] = p
  BY DEF Range
<1> QED
  BY <1>1

\* After a step, too, a linked record has one index in the list.
LEMMA PositionIsUniqueNext ==
    ASSUME TableOK', NEW i \in DOMAIN sessions', NEW q, q = sessions'[i]
    PROVE  Position(q)' = i
<1>1. \A j \in DOMAIN sessions' : sessions'[j] = q => j = i
  BY DEF TableOK, ListOK, IsInjective
<1>2. Position(q)' = CHOOSE j \in DOMAIN sessions' : sessions'[j] = q
  BY DEF Position
<1> QED
  BY <1>1, <1>2

\* Taking the first record makes its successor the first.
LEMMA TakeFirst ==
    ASSUME TableOK, sessions # <<>>, UnlinkAndFree(First)
    PROVE  Succ(First) = First' /\ sessions' = Tail(sessions)
<1>1. /\ 1 \in DOMAIN sessions /\ First = sessions[1] /\ First \in DOMAIN heap
      /\ Position(First) = 1
  BY FirstIsLive
<1>2. sessions' = RemoveAt(sessions, 1)
  BY <1>1 DEF UnlinkAndFree
<1>3. /\ sessions' \in Seq(Ptr) /\ Len(sessions') = Len(sessions) - 1
      /\ \A j \in 1 .. Len(sessions) - 1 : sessions'[j] = sessions[j + 1]
  BY <1>1, <1>2, RemoveAtElements DEF TableOK
<1>4. sessions' = Tail(sessions)
  BY <1>1, <1>3 DEF TableOK
<1>5. Succ(First) = IF 1 < Len(sessions) THEN sessions[2] ELSE NULL
  BY <1>1, PositionIsUnique
<1>6. First' = IF sessions' = <<>> THEN NULL ELSE sessions'[1]
  BY DEF First
<1>7. CASE 1 < Len(sessions)
  BY <1>3, <1>5, <1>6, <1>7 DEF TableOK
<1>8. CASE ~(1 < Len(sessions))
  BY <1>1, <1>3, <1>5, <1>6, <1>8 DEF TableOK
<1> QED
  BY <1>4, <1>7, <1>8

\* HASH_ADD of a fresh record keeps the list well formed, one longer.
LEMMA LinkKeepsTable ==
    ASSUME TableOK, NEW p \in Ptr \ DOMAIN heap, NEW rec \in Record, Link(p, rec)
    PROVE  /\ TableOK'
           /\ Len(sessions') = Len(sessions) + 1
           /\ DOMAIN heap' = DOMAIN heap \cup {p}
           /\ heap'[p] = rec
           /\ \A q \in DOMAIN heap : heap'[q] = heap[q]
<1>1. /\ DOMAIN heap' = DOMAIN heap \cup {p}
      /\ heap'[p] = rec
      /\ \A q \in DOMAIN heap : heap'[q] = heap[q]
      /\ heap' \in [DOMAIN heap' -> Record]
  BY DEF TableOK, Link
<1>2. /\ sessions' \in Seq(Ptr)
      /\ Len(sessions') = Len(sessions) + 1
      /\ \A i \in 1 .. Len(sessions) : sessions'[i] = sessions[i]
      /\ sessions'[Len(sessions) + 1] = p
      /\ DOMAIN sessions = 1 .. Len(sessions)
      /\ DOMAIN sessions' = 1 .. Len(sessions) + 1
      /\ Len(sessions) \in Nat
  BY DEF TableOK, Link
<1>3. p \notin Range(sessions)
  BY DEF TableOK, ListOK
<1>4. Range(sessions') = Range(sessions) \cup {p}
  <2>1. \A i \in DOMAIN sessions' : sessions'[i] \in Range(sessions) \cup {p}
    BY <1>2 DEF Range
  <2>2. \A i \in DOMAIN sessions : sessions[i] \in Range(sessions')
    <3>1. \A i \in DOMAIN sessions : i \in DOMAIN sessions' /\ sessions'[i] = sessions[i]
      BY <1>2
    <3> QED
      BY <3>1 DEF Range
  <2>3. p \in Range(sessions')
    <3>1. Len(sessions) + 1 \in DOMAIN sessions'
      BY <1>2
    <3> QED
      BY <1>2, <3>1 DEF Range
  <2> QED
    BY <2>1, <2>2, <2>3 DEF Range
<1>5. IsInjective(sessions')
  <2>1. \A i \in DOMAIN sessions : sessions[i] # p
    BY <1>3 DEF Range
  <2>2. IsInjective(sessions)
    BY DEF TableOK, ListOK
  <2> QED
    BY <1>2, <2>1, <2>2 DEF IsInjective
<1> QED
  BY <1>1, <1>2, <1>4, <1>5 DEF TableOK, ListOK

\* HASH_DEL and free of a live record keep the list well formed, one shorter.
LEMMA UnlinkKeepsTable ==
    ASSUME TableOK, NEW p \in DOMAIN heap, UnlinkAndFree(p)
    PROVE  /\ TableOK'
           /\ Len(sessions') = Len(sessions) - 1
           /\ DOMAIN heap' = DOMAIN heap \ {p}
           /\ \A q \in DOMAIN heap' : heap'[q] = heap[q]
<1>1. /\ DOMAIN heap' = DOMAIN heap \ {p}
      /\ \A q \in DOMAIN heap' : heap'[q] = heap[q]
      /\ heap' \in [DOMAIN heap' -> Record]
  BY DEF TableOK, UnlinkAndFree
<1> DEFINE k == Position(p)
<1>2. k \in 1 .. Len(sessions) /\ sessions[k] = p
  BY PositionOfLinked DEF TableOK, ListOK
<1>3. sessions' = RemoveAt(sessions, k)
  BY DEF UnlinkAndFree
<1> HIDE DEF k
<1>4. /\ sessions' \in Seq(Ptr)
      /\ Len(sessions') = Len(sessions) - 1
      /\ \A j \in 1 .. Len(sessions) - 1 :
           sessions'[j] = IF j < k THEN sessions[j] ELSE sessions[j + 1]
  BY <1>2, <1>3, RemoveAtElements DEF TableOK
<1>5. /\ DOMAIN sessions = 1 .. Len(sessions)
      /\ DOMAIN sessions' = 1 .. Len(sessions) - 1
      /\ Len(sessions) \in Nat
  BY <1>4 DEF TableOK
<1>6. \A i, j \in 1 .. Len(sessions) : sessions[i] = sessions[j] => i = j
  BY <1>5 DEF TableOK, ListOK, IsInjective
<1>7. IsInjective(sessions')
  BY <1>2, <1>4, <1>5, <1>6 DEF IsInjective
<1>8. Range(sessions') = Range(sessions) \ {p}
  <2>1. \A j \in DOMAIN sessions' : sessions'[j] \in Range(sessions) \ {p}
    <3>1. \A j \in DOMAIN sessions' :
            \E i \in DOMAIN sessions : sessions'[j] = sessions[i] /\ i # k
      BY <1>2, <1>4, <1>5
    <3> QED
      BY <3>1, <1>2, <1>5, <1>6 DEF Range
  <2>2. ASSUME NEW i \in DOMAIN sessions, i # k
        PROVE  sessions[i] \in Range(sessions')
    <3>1. CASE i < k
      <4>1. i \in DOMAIN sessions' /\ sessions'[i] = sessions[i]
        BY <3>1, <1>2, <1>4, <1>5
      <4> QED
        BY <4>1 DEF Range
    <3>2. CASE ~(i < k)
      <4>1. i - 1 \in DOMAIN sessions' /\ sessions'[i - 1] = sessions[i]
        BY <2>2, <3>2, <1>2, <1>4, <1>5
      <4> QED
        BY <4>1 DEF Range
    <3> QED
      BY <3>1, <3>2
  <2> QED
    BY <2>1, <2>2, <1>2 DEF Range
<1> QED
  BY <1>1, <1>4, <1>7, <1>8 DEF TableOK, ListOK

\* Filling in a live record changes its state and nothing else of the table.
LEMMA FillKeepsTable ==
    ASSUME TableOK, NEW p \in DOMAIN heap, UNCHANGED sessions,
           heap' = [heap EXCEPT ![p].state = "_CLOSED"]
    PROVE  /\ TableOK'
           /\ DOMAIN heap' = DOMAIN heap
           /\ \A q \in DOMAIN heap : heap'[q].id = heap[q].id
           /\ \A q \in DOMAIN heap \ {p} : heap'[q] = heap[q]
           /\ heap'[p].state = "_CLOSED"
<1>1. heap[p] \in Record /\ heap \in [DOMAIN heap -> Record]
  BY DEF TableOK
<1>2. /\ DOMAIN heap' = DOMAIN heap
      /\ \A q \in DOMAIN heap \ {p} : heap'[q] = heap[q]
      /\ heap'[p] = [heap[p] EXCEPT !.state = "_CLOSED"]
  BY <1>1
<1>3. [heap[p] EXCEPT !.state = "_CLOSED"] \in Record
  BY <1>1 DEF Record, State
<1>4. heap'[p].id = heap[p].id /\ heap'[p].state = "_CLOSED"
  BY <1>1, <1>2 DEF Record
<1>5. heap' \in [DOMAIN heap' -> Record]
  <2>1. \A q \in DOMAIN heap' : heap'[q] \in Record
    BY <1>1, <1>2, <1>3
  <2>2. heap' = [q \in DOMAIN heap' |-> heap'[q]]
    OBVIOUS
  <2> QED
    BY <2>1, <2>2
<1> QED
  BY <1>2, <1>4, <1>5 DEF TableOK, ListOK

-----------------------------------------------------------------------------
(* Types. *)

LocalsOK ==
    /\ start \in Ptr \cup {NULL}
    /\ pc \in [Threads -> Labels]
    /\ op \in [Threads -> Ops \cup {"none"}]
    /\ key \in [Threads -> Nat]
    /\ size \in [Threads -> Nat]
    /\ r \in [Threads -> Ptr \cup {NULL}]
    /\ tmp \in [Threads -> Ptr \cup {NULL}]
    /\ out \in [Threads -> Seq(Entry)]
    /\ status \in [Threads -> {"none", "OK", "NOT_FOUND", "CANCELLED"}]
    /\ cancelled \in [Threads -> BOOLEAN]
    /\ lost \subseteq Ids
    /\ ub \in {"none", "race", "dangling", "overflow"}

\* The invariant the others are proved from.
BaseInv == TableOK /\ LocalsOK /\ CallsOK

\* A step changes the table in one of four ways, or not at all.
LEMMA TableStep ==
    ASSUME [Next]_vars
    PROVE  \/ UNCHANGED <<sessions, heap>>
           \/ \E t \in Threads :
                AddLink(t) \/ AddFill(t) \/ DelUnlink(t) \/ ClosedTake(t)
<1>1. CASE UNCHANGED vars \/ Halted
  BY <1>1 DEF vars, table, Halted
<1>2. ASSUME NEW t \in Threads, Client(t)
      PROVE  UNCHANGED <<sessions, heap>>
  BY <1>2 DEF Client, CallAdd, CallGet, CallDelete, CallClosed, CallAll, Call,
              Cancel, table
<1>3. ASSUME NEW t \in Threads, DataRace(t)
      PROVE  UNCHANGED <<sessions, heap>>
  BY <1>3 DEF DataRace, Undefined, table
<1>4. ASSUME NEW t \in Threads, Run(t)
      PROVE  \/ UNCHANGED <<sessions, heap>>
             \/ AddLink(t) \/ AddFill(t) \/ DelUnlink(t) \/ ClosedTake(t)
  <2>1. CASE AddStep(t)
    BY <2>1 DEF AddStep, AddRead, AddCancelled, AddEnd, AddCount, AddFind, table
  <2>2. CASE ClosedStep(t)
    BY <2>2 DEF ClosedStep, ClosedBegin, ClosedSkip, ClosedOverflow, ClosedNext,
                ClosedWrite, Undefined, table
  <2>3. CASE \/ CheckCancelled(t) \/ Reply(t) \/ GetFind(t) \/ GetCopy(t)
             \/ DelFind(t) \/ AllBegin(t) \/ AllStep(t) \/ Dangling(t)
    BY <2>3 DEF CheckCancelled, Reply, GetFind, GetCopy, DelFind, Find, AllBegin,
                AllStep, Dangling, Undefined, table
  <2> QED
    BY <1>4, <2>1, <2>2, <2>3 DEF Run
<1> QED
  BY <1>1, <1>2, <1>3, <1>4 DEF Next

\* The list of the table stays well formed.
LEMMA TableInductive ==
    ASSUME BaseInv, [Next]_vars
    PROVE  TableOK'
<1>1. CASE UNCHANGED <<sessions, heap>>
  BY <1>1 DEF BaseInv, TableOK, ListOK, IsInjective, Range
<1>2. ASSUME NEW t \in Threads, AddLink(t)
      PROVE  TableOK'
  <2>1. key[t] \in Ids
    BY <1>2 DEF BaseInv, CallsOK, CallOK, AddLink, At
  <2>2. [id |-> key[t], state |-> "_ESTABLISHED"] \in Record
    BY <2>1 DEF Record, State
  <2> QED
    BY <1>2, <2>2, LinkKeepsTable DEF BaseInv, AddLink
<1>3. ASSUME NEW t \in Threads, AddFill(t)
      PROVE  TableOK'
  BY <1>3, FillKeepsTable DEF BaseInv, AddFill, Alive
<1>4. ASSUME NEW t \in Threads, DelUnlink(t) \/ ClosedTake(t)
      PROVE  TableOK'
  BY <1>4, UnlinkKeepsTable DEF BaseInv, DelUnlink, ClosedTake, Alive
<1> QED
  BY <1>1, <1>2, <1>3, <1>4, TableStep

\* The successor of a record, and the head of the list, are addresses or null.
LEMMA PointersTyped ==
    ASSUME TableOK
    PROVE  /\ First \in Ptr \cup {NULL}
           /\ \A p : Succ(p) \in Ptr \cup {NULL}
<1>1. Range(sessions) \subseteq Ptr
  BY DEF TableOK, ListOK
<1>2. First \in Ptr \cup {NULL}
  BY DEF TableOK, First
<1> QED
  BY <1>1, <1>2, SuccIsLinked DEF TableOK

\* An answer grows by entries.
LEMMA AnswersTyped ==
    ASSUME LocalsOK, NEW t \in Threads, NEW e \in Entry
    PROVE  Append(out[t], e) \in Seq(Entry) /\ <<e>> \in Seq(Entry)
BY DEF LocalsOK

\* Every step keeps the types of the other variables.
LEMMA LocalsInductive ==
    ASSUME BaseInv, [Next]_vars
    PROVE  LocalsOK'
<1> USE DEF BaseInv
<1>1. CASE UNCHANGED vars \/ Halted
  BY <1>1 DEF LocalsOK, Halted, vars, table, locals
<1>2. ASSUME NEW t \in Threads, NEW o \in Ops, NEW k \in Nat, NEW n \in Nat,
             Call(t, o, k, n)
      PROVE  LocalsOK'
  BY <1>2 DEF LocalsOK, Labels, At, Goto, table, Call
<1>3. ASSUME NEW t \in Threads,
             \/ CallAdd(t) \/ CallGet(t) \/ CallDelete(t)
             \/ CallClosed(t) \/ CallAll(t)
      PROVE  LocalsOK'
  BY <1>3, <1>2, IdsAssumption, SizeAssumption
     DEF CallAdd, CallGet, CallDelete, CallClosed, CallAll, Ops
<1>4. ASSUME NEW t \in Threads, Cancel(t)
      PROVE  LocalsOK'
  BY <1>4 DEF LocalsOK, Labels, At, Goto, table, Cancel
<1>5. ASSUME NEW t \in Threads, DataRace(t) \/ Dangling(t) \/ ClosedOverflow(t)
      PROVE  LocalsOK'
  BY <1>5 DEF LocalsOK, Labels, At, Goto, table, DataRace, Dangling, ClosedOverflow, Undefined, locals
<1>6. ASSUME NEW t \in Threads, CheckCancelled(t)
      PROVE  LocalsOK'
  BY <1>6 DEF LocalsOK, Labels, At, Goto, table, CheckCancelled, Return
<1>7. ASSUME NEW t \in Threads, Reply(t)
      PROVE  LocalsOK'
  BY <1>7 DEF LocalsOK, Labels, At, Goto, table, Reply
<1>8. ASSUME NEW t \in Threads, AddRead(t)
      PROVE  LocalsOK'
  BY <1>8, IdsAssumption DEF LocalsOK, Labels, At, Goto, table, AddRead
<1>9. ASSUME NEW t \in Threads, AddCancelled(t) \/ AddEnd(t)
      PROVE  LocalsOK'
  BY <1>9 DEF LocalsOK, Labels, At, Goto, table, AddCancelled, AddEnd, Return
<1>10. ASSUME NEW t \in Threads, AddCount(t) \/ AddFind(t)
      PROVE  LocalsOK'
  <2>1. key[t] \in Ids
    BY <1>10 DEF CallsOK, CallOK, AddCount, AddFind, At
  <2>2. /\ [id |-> key[t], what |-> "_RESOURCE_EXHAUSTED"] \in Entry
        /\ [id |-> key[t], what |-> "_ALREADY_EXISTS"] \in Entry
    BY <2>1 DEF Entry, Error
  <2>3. /\ Append(out[t], [id |-> key[t], what |-> "_RESOURCE_EXHAUSTED"]) \in Seq(Entry)
        /\ Append(out[t], [id |-> key[t], what |-> "_ALREADY_EXISTS"]) \in Seq(Entry)
    BY <2>2, AnswersTyped
  <2>4. ASSUME \/ \E e \in Error : AddError(t, e)
               \/ UNCHANGED <<key, out>>
        PROVE  out' \in [Threads -> Seq(Entry)] /\ key' \in [Threads -> Nat]
    <3>1. \A e \in Error : AddError(t, e) => out' \in [Threads -> Seq(Entry)]
      BY <2>3 DEF LocalsOK, AddError, Error
    <3>2. \A e \in Error : AddError(t, e) => key' \in [Threads -> Nat]
      BY DEF LocalsOK, AddError
    <3> QED
      BY <2>4, <3>1, <3>2 DEF LocalsOK
  <2>5. /\ out' \in [Threads -> Seq(Entry)] /\ key' \in [Threads -> Nat]
        /\ pc' \in [Threads -> Labels]
    <3>1. pc' \in [Threads -> Labels]
      BY <1>10 DEF LocalsOK, Labels, Goto, AddCount, AddFind, AddError
    <3> QED
      BY <1>10, <2>4, <3>1 DEF AddCount, AddFind, Error
  <2> QED
    BY <1>10, <2>5 DEF LocalsOK, table, AddCount, AddFind
<1>11. ASSUME NEW t \in Threads, AddLink(t)
      PROVE  LocalsOK'
  BY <1>11 DEF LocalsOK, Labels, At, Goto, table, AddLink
<1>12. ASSUME NEW t \in Threads, AddFill(t)
      PROVE  LocalsOK'
  <2>1. /\ key' = [key EXCEPT ![t] = 0]
        /\ r' = [r EXCEPT ![t] = NULL] /\ tmp' = [tmp EXCEPT ![t] = NULL]
        /\ pc' = [pc EXCEPT ![t] = "add_read"]
        /\ UNCHANGED <<sessions, start, op, size, out, status, cancelled, lost, ub>>
    BY <1>12 DEF AddFill, Forget, Goto
  <2>2. pc' \in [Threads -> Labels]
    BY <2>1 DEF LocalsOK, Labels
  <2>3. key' \in [Threads -> Nat]
    BY <2>1 DEF LocalsOK
  <2>4. r' \in [Threads -> Ptr \cup {NULL}] /\ tmp' \in [Threads -> Ptr \cup {NULL}]
    BY <2>1 DEF LocalsOK
  <2> QED
    BY <2>1, <2>2, <2>3, <2>4 DEF LocalsOK
<1>13. ASSUME NEW t \in Threads, GetFind(t) \/ DelFind(t)
      PROVE  LocalsOK'
  <2>1. Found(key[t]) \subseteq Ptr
    BY DEF Found, Alive, TableOK
  <2>2. /\ \/ UNCHANGED r
           \/ \E p \in Found(key[t]) : r' = [r EXCEPT ![t] = p]
        /\ \E label \in {"reply", "get_copy", "del_unlink"} :
              pc' = [pc EXCEPT ![t] = label]
        /\ \/ UNCHANGED status
           \/ status' = [status EXCEPT ![t] = "NOT_FOUND"]
        /\ UNCHANGED <<start, op, key, size, tmp, out, cancelled, lost, ub>>
    BY <1>13 DEF GetFind, DelFind, Find, Goto, Return, table
  <2>3. r' \in [Threads -> Ptr \cup {NULL}]
    BY <2>1, <2>2 DEF LocalsOK
  <2>4. pc' \in [Threads -> Labels]
    BY <2>2 DEF LocalsOK, Labels
  <2>5. status' \in [Threads -> {"none", "OK", "NOT_FOUND", "CANCELLED"}]
    BY <2>2 DEF LocalsOK
  <2> QED
    BY <2>2, <2>3, <2>4, <2>5 DEF LocalsOK
<1>14. ASSUME NEW t \in Threads, GetCopy(t) \/ DelUnlink(t)
      PROVE  LocalsOK'
  <2>1. key[t] \in Ids
    BY <1>14 DEF CallsOK, CallOK, GetCopy, DelUnlink, At
  <2>2. heap[r[t]].state \in State
    BY <1>14 DEF GetCopy, DelUnlink, TableOK, Alive, Record
  <2>3. /\ [id |-> key[t], what |-> heap[r[t]].state] \in Entry
        /\ [id |-> key[t], what |-> "_CLOSED"] \in Entry
    BY <2>1, <2>2 DEF Entry, State
  <2>4. /\ <<[id |-> key[t], what |-> heap[r[t]].state]>> \in Seq(Entry)
        /\ <<[id |-> key[t], what |-> "_CLOSED"]>> \in Seq(Entry)
    BY <2>3, AnswersTyped
  <2>5. out' \in [Threads -> Seq(Entry)]
    BY <1>14, <2>4 DEF LocalsOK, GetCopy, DelUnlink
  <2>6. /\ r' = [r EXCEPT ![t] = NULL] /\ tmp' = [tmp EXCEPT ![t] = NULL]
        /\ pc' = [pc EXCEPT ![t] = "reply"] /\ status' = [status EXCEPT ![t] = "OK"]
        /\ UNCHANGED <<start, op, key, size, cancelled, lost, ub>>
    BY <1>14 DEF GetCopy, DelUnlink, Forget, Return, Goto, table
  <2>7. r' \in [Threads -> Ptr \cup {NULL}] /\ tmp' \in [Threads -> Ptr \cup {NULL}]
    BY <2>6 DEF LocalsOK
  <2>8. /\ pc' \in [Threads -> Labels]
        /\ status' \in [Threads -> {"none", "OK", "NOT_FOUND", "CANCELLED"}]
    BY <2>6 DEF LocalsOK, Labels
  <2> QED
    BY <2>5, <2>6, <2>7, <2>8 DEF LocalsOK
<1>15. ASSUME NEW t \in Threads, ClosedBegin(t) \/ ClosedNext(t)
      PROVE  LocalsOK'
  <2>1. First \in Ptr \cup {NULL}
    BY PointersTyped
  <2>2. Succ(First) \in Ptr \cup {NULL} /\ Succ(tmp[t]) \in Ptr \cup {NULL}
    BY PointersTyped
  <2>3. r' \in [Threads -> Ptr \cup {NULL}] /\ tmp' \in [Threads -> Ptr \cup {NULL}]
    <3>1. \/ Forget(t)
          \/ /\ r' = [r EXCEPT ![t] = First]
             /\ tmp' = [tmp EXCEPT ![t] = Succ(First)]
          \/ /\ r' = [r EXCEPT ![t] = tmp[t]]
             /\ tmp' = [tmp EXCEPT ![t] = Succ(tmp[t])]
      BY <1>15 DEF ClosedBegin, ClosedNext, ClosedScanned
    <3>2. /\ tmp[t] \in Ptr \cup {NULL}
          /\ r \in [Threads -> Ptr \cup {NULL}] /\ tmp \in [Threads -> Ptr \cup {NULL}]
      BY DEF LocalsOK
    <3>3. PICK p \in Ptr \cup {NULL}, q \in Ptr \cup {NULL} :
            r' = [r EXCEPT ![t] = p] /\ tmp' = [tmp EXCEPT ![t] = q]
      BY <3>1, <3>2, <2>1, <2>2 DEF Forget
    <3> QED
      BY <3>2, <3>3
  <2>4. /\ pc' \in [Threads -> Labels]
        /\ status' \in [Threads -> {"none", "OK", "NOT_FOUND", "CANCELLED"}]
    BY <1>15 DEF LocalsOK, Labels, Goto, ClosedBegin, ClosedNext, ClosedScanned, Return
  <2> QED
    BY <1>15, <2>3, <2>4 DEF LocalsOK, table, ClosedBegin, ClosedNext
<1>16. ASSUME NEW t \in Threads, ClosedSkip(t)
      PROVE  LocalsOK'
  BY <1>16 DEF LocalsOK, Labels, At, Goto, table, ClosedSkip
<1>17. ASSUME NEW t \in Threads, ClosedTake(t)
      PROVE  LocalsOK'
  <2>1. heap[r[t]].id \in Ids
    BY <1>17 DEF ClosedTake, TableOK, Alive, Record
  <2>2. [id |-> heap[r[t]].id, what |-> "_CLOSED"] \in Entry
    BY <2>1 DEF Entry, State
  <2>3. out' \in [Threads -> Seq(Entry)]
    BY <1>17, <2>2, AnswersTyped DEF LocalsOK, ClosedTake
  <2>4. r' \in [Threads -> Ptr \cup {NULL}] /\ tmp' \in [Threads -> Ptr \cup {NULL}]
    BY <1>17 DEF LocalsOK, ClosedTake, ClosedScanned, Forget
  <2>5. /\ pc' \in [Threads -> Labels]
        /\ status' \in [Threads -> {"none", "OK", "NOT_FOUND", "CANCELLED"}]
    BY <1>17 DEF LocalsOK, Labels, Goto, ClosedTake, ClosedScanned, Return
  <2> QED
    BY <1>17, <2>3, <2>4, <2>5 DEF LocalsOK, ClosedTake
<1>18. ASSUME NEW t \in Threads, ClosedWrite(t)
      PROVE  LocalsOK'
  <2>1. ASSUME out[t] # <<>>
        PROVE  Tail(out[t]) \in Seq(Entry) /\ Head(out[t]).id \in Ids
    <3>1. out[t] \in Seq(Entry)
      BY DEF LocalsOK
    <3>2. Tail(out[t]) \in Seq(Entry) /\ Head(out[t]) \in Entry
      BY <2>1, <3>1
    <3> QED
      BY <3>2 DEF Entry
  <2> QED
    BY <1>18, <2>1 DEF LocalsOK, Labels, At, Goto, table, ClosedWrite, Return
<1>19. ASSUME NEW t \in Threads, AllBegin(t)
      PROVE  LocalsOK'
  <2>1. First \in Ptr \cup {NULL}
    BY PointersTyped
  <2>2. start' \in Ptr \cup {NULL}
    BY <1>19, <2>1 DEF LocalsOK, AllBegin
  <2>3. r' \in [Threads -> Ptr \cup {NULL}]
    BY <1>19, <2>2 DEF LocalsOK, AllBegin
  <2>4. /\ pc' \in [Threads -> Labels]
        /\ status' \in [Threads -> {"none", "OK", "NOT_FOUND", "CANCELLED"}]
    BY <1>19 DEF LocalsOK, Labels, Goto, AllBegin, Return
  <2> QED
    BY <1>19, <2>2, <2>3, <2>4 DEF LocalsOK, AllBegin
<1>20. ASSUME NEW t \in Threads, AllStep(t)
      PROVE  LocalsOK'
  <2>1. heap[r[t]].id \in Ids /\ heap[r[t]].state \in State
    BY <1>20 DEF AllStep, TableOK, Alive, Record
  <2>2. [id |-> heap[r[t]].id, what |-> heap[r[t]].state] \in Entry
    BY <2>1 DEF Entry
  <2>3. Append(out[t], [id |-> heap[r[t]].id, what |-> heap[r[t]].state])
          \in Seq(Entry)
    BY <2>2, AnswersTyped
  <2>4. Succ(r[t]) \in Ptr \cup {NULL} /\ heap[r[t]].id \in Nat
    BY <2>1, PointersTyped, IdsAssumption
  <2>5. out' \in [Threads -> Seq(Entry)]
    BY <1>20, <2>3 DEF LocalsOK, AllStep
  <2> QED
    BY <1>20, <2>4, <2>5 DEF LocalsOK, Labels, At, Goto, table, AllStep, Forget, Return
<1> QED
  BY <1>1, <1>2, <1>3, <1>4, <1>5, <1>6, <1>7, <1>8, <1>9, <1>10, <1>11,
     <1>12, <1>13, <1>14, <1>15, <1>16, <1>17, <1>18, <1>19, <1>20
     DEF Next, Client, Run, AddStep, ClosedStep

-----------------------------------------------------------------------------
(* Calls. *)

Same(u) ==
    /\ pc'[u] = pc[u] /\ op'[u] = op[u] /\ key'[u] = key[u] /\ size'[u] = size[u]
    /\ r'[u] = r[u] /\ tmp'[u] = tmp[u] /\ out'[u] = out[u]

\* A thread changes no local of another one.
LEMMA OthersKeepLocals ==
    ASSUME LocalsOK, NEW t \in Threads, NEW u \in Threads \ {t},
           Client(t) \/ Run(t) \/ DataRace(t)
    PROVE  Same(u)
<1> USE DEF LocalsOK, Same
<1>1. CASE Client(t)
  BY <1>1 DEF Client, CallAdd, CallGet, CallDelete, CallClosed, CallAll, Call,
              Cancel, Goto
<1>2. CASE DataRace(t) \/ Dangling(t) \/ ClosedOverflow(t)
  BY <1>2 DEF DataRace, Dangling, ClosedOverflow, Undefined, locals
<1>3. CASE CheckCancelled(t) \/ Reply(t)
  BY <1>3 DEF CheckCancelled, Reply, Return, Goto
<1>4. CASE AddRead(t) \/ AddCancelled(t) \/ AddEnd(t) \/ AddLink(t) \/ AddFill(t)
  BY <1>4 DEF AddRead, AddCancelled, AddEnd, AddLink, AddFill, Return, Goto, Forget
<1>5. CASE AddCount(t) \/ AddFind(t)
  BY <1>5 DEF AddCount, AddFind, AddError, Goto
<1>6. CASE GetFind(t) \/ GetCopy(t) \/ DelFind(t) \/ DelUnlink(t)
  BY <1>6 DEF GetFind, GetCopy, DelFind, DelUnlink, Find, Return, Goto, Forget
<1>7. CASE ClosedBegin(t) \/ ClosedSkip(t) \/ ClosedNext(t)
  BY <1>7 DEF ClosedBegin, ClosedSkip, ClosedNext, ClosedScanned, Return, Goto, Forget
<1>8. CASE ClosedTake(t)
  BY <1>8 DEF ClosedTake, ClosedScanned, Return, Goto, Forget
<1>9. CASE ClosedWrite(t)
  BY <1>9 DEF ClosedWrite, Return, Goto
<1>10. CASE AllBegin(t) \/ AllStep(t)
  BY <1>10 DEF AllBegin, AllStep, Return, Goto, Forget
<1> QED
  BY <1>1, <1>2, <1>3, <1>4, <1>5, <1>6, <1>7, <1>8, <1>9, <1>10
     DEF Run, AddStep, ClosedStep

\* Every step keeps the calls in order.
LEMMA CallsInductive ==
    ASSUME BaseInv, [Next]_vars
    PROVE  CallsOK'
<1>1. CASE UNCHANGED vars \/ Halted
  BY <1>1 DEF BaseInv, CallsOK, CallOK, Halted, vars, locals
<1>2. ASSUME NEW t \in Threads, Client(t) \/ Run(t) \/ DataRace(t), CallOK(t)'
      PROVE  CallsOK'
  <2>1. ASSUME NEW u \in Threads \ {t}
        PROVE  CallOK(u)'
    <3>1. Same(u)
      BY <1>2, OthersKeepLocals DEF BaseInv
    <3>2. CallOK(u)
      BY DEF BaseInv, CallsOK
    <3> QED
      BY <3>1, <3>2 DEF Same, CallOK
  <2> QED
    BY <1>2, <2>1 DEF CallsOK
<1>3. ASSUME NEW t \in Threads, Client(t) \/ Run(t) \/ DataRace(t)
      PROVE  CallOK(t)'
  <2> USE DEF LocalsOK, CallOK, At, Goto
  <2>0. LocalsOK /\ CallOK(t)
    BY DEF BaseInv, CallsOK
  <2>1. CASE CallAdd(t) \/ CallGet(t) \/ CallDelete(t) \/ CallClosed(t) \/ CallAll(t)
    BY <2>0, <2>1 DEF CallAdd, CallGet, CallDelete, CallClosed, CallAll, Call, Ops
  <2>2. CASE Cancel(t)
    BY <2>0, <2>2 DEF Cancel
  <2>3. CASE DataRace(t) \/ Dangling(t) \/ ClosedOverflow(t)
    BY <2>0, <2>3 DEF DataRace, Dangling, ClosedOverflow, Undefined, locals
  <2>4. CASE CheckCancelled(t) \/ Reply(t)
    BY <2>0, <2>4 DEF CheckCancelled, Reply, Return, Ops
  <2>5. CASE AddRead(t) \/ AddCancelled(t) \/ AddEnd(t)
    BY <2>0, <2>5 DEF AddRead, AddCancelled, AddEnd, Return
  <2>6. CASE AddLink(t) \/ AddFill(t)
    BY <2>0, <2>6 DEF AddLink, AddFill
  <2>7. CASE AddCount(t) \/ AddFind(t)
    BY <2>0, <2>7 DEF AddCount, AddFind, AddError
  <2>8. CASE GetFind(t) \/ GetCopy(t) \/ DelFind(t) \/ DelUnlink(t)
    <3>1. Found(key[t]) # {} => key[t] \in Ids
      BY DEF BaseInv, TableOK, Found, Alive, Record
    <3>2. CASE GetFind(t) \/ DelFind(t)
      BY <2>0, <3>1, <3>2 DEF GetFind, DelFind, Find, Return
    <3>3. CASE GetCopy(t) \/ DelUnlink(t)
      BY <2>0, <3>3 DEF GetCopy, DelUnlink, Return
    <3> QED
      BY <2>8, <3>2, <3>3
  <2>9. CASE ClosedBegin(t) \/ ClosedSkip(t) \/ ClosedNext(t)
    BY <2>0, <2>9 DEF ClosedBegin, ClosedSkip, ClosedNext, ClosedScanned, Return
  <2>10. CASE ClosedTake(t)
    BY <2>0, <2>10 DEF ClosedTake, ClosedScanned, Return
  <2>11. CASE ClosedWrite(t)
    BY <2>0, <2>11 DEF ClosedWrite, Return
  <2>12. CASE AllBegin(t) \/ AllStep(t)
    BY <2>0, <2>12 DEF AllBegin, AllStep, Return
  <2> QED
    BY <1>3, <2>1, <2>2, <2>3, <2>4, <2>5, <2>6, <2>7, <2>8, <2>9, <2>10, <2>11,
       <2>12 DEF Client, Run, AddStep, ClosedStep
<1> QED
  BY <1>1, <1>2, <1>3 DEF Next

\* The base invariant holds in every reachable state.
THEOREM BaseInvariance == Spec => []BaseInv
<1>1. Init => BaseInv
  <2> SUFFICES ASSUME Init PROVE BaseInv
    OBVIOUS
  <2>1. TableOK
    BY DEF Init, ThreadsIdle, TableOK, ListOK, IsInjective, Range
  <2>2. LocalsOK
    BY DEF Init, ThreadsIdle, LocalsOK, Labels, Ops
  <2>3. CallsOK
    BY DEF Init, ThreadsIdle, CallsOK, CallOK
  <2> QED
    BY <2>1, <2>2, <2>3 DEF BaseInv
<1>2. BaseInv /\ [Next]_vars => BaseInv'
  BY TableInductive, LocalsInductive, CallsInductive DEF BaseInv
<1> QED
  BY <1>1, <1>2, PTL DEF Spec

\* Type correctness, for any number of threads, ids and addresses and any sizes.
THEOREM TypeCorrect == Spec => []TypeOK
<1>1. BaseInv => TypeOK
  BY DEF BaseInv, TableOK, LocalsOK, TypeOK
<1> QED
  BY <1>1, BaseInvariance, PTL

-----------------------------------------------------------------------------
(* Scans. *)

\* A record taken out of the list is ahead of a scan, behind it, or the one it goes
\* on from: what lies ahead does not become more.
LEMMA UnlinkBringsNearer ==
    ASSUME TableOK, NEW p \in DOMAIN heap, UnlinkAndFree(p), NEW q
    PROVE  RecordsFrom(q)' <= RecordsFrom(q)
<1>0. /\ TableOK' /\ Len(sessions') = Len(sessions) - 1
      /\ DOMAIN heap' = DOMAIN heap \ {p}
  BY UnlinkKeepsTable
<1>1. TableOK' /\ Len(sessions') = Len(sessions) - 1 /\ Len(sessions) \in Nat
  BY <1>0 DEF TableOK
<1>2. Range(sessions') = Range(sessions) \ {p}
  BY <1>0 DEF TableOK, ListOK
<1> DEFINE k == Position(p)
<1>3. k \in 1 .. Len(sessions) /\ sessions[k] = p
  BY PositionOfLinked DEF TableOK, ListOK
<1>4. sessions' = RemoveAt(sessions, k)
  BY DEF UnlinkAndFree
<1> HIDE DEF k
<1>5. CASE q \notin Range(sessions')
  <2>1. RecordsFrom(q)' = 0
    BY <1>5 DEF RecordsFrom
  <2>2. q \in Range(sessions) => Position(q) \in 1 .. Len(sessions)
    BY PositionOfLinked DEF TableOK
  <2> QED
    BY <1>1, <2>1, <2>2 DEF RecordsFrom
<1>6. CASE q \in Range(sessions')
  <2>1. q \in Range(sessions)
    BY <1>2, <1>6
  <2>2. PICK j \in DOMAIN sessions' : sessions'[j] = q
    BY <1>6 DEF Range
  <2>3. j \in 1 .. Len(sessions) - 1 /\ Position(q)' = j
    BY <1>1, <2>2, PositionIsUniqueNext
  <2>4. q = IF j < k THEN sessions[j] ELSE sessions[j + 1]
    BY <1>3, <1>4, <2>2, <2>3, RemoveAtElements DEF TableOK
  <2>5. Position(q) = IF j < k THEN j ELSE j + 1
    <3>1. j \in DOMAIN sessions /\ j + 1 \in DOMAIN sessions
      BY <1>1, <2>3 DEF TableOK
    <3> QED
      BY <2>4, <3>1, PositionIsUnique
  <2>6. /\ RecordsFrom(q)' = Len(sessions') - j + 1
        /\ RecordsFrom(q) = Len(sessions) - Position(q) + 1
    BY <1>6, <2>1, <2>3 DEF RecordsFrom
  <2> QED
    BY <1>1, <1>3, <2>3, <2>5, <2>6
<1> QED
  BY <1>5, <1>6

\* From the successor of a record there is one less to go.
LEMMA SuccIsNearer ==
    ASSUME TableOK, NEW q \in Range(sessions)
    PROVE  /\ RecordsFrom(q) \in Nat /\ RecordsFrom(Succ(q)) \in Nat
           /\ RecordsFrom(Succ(q)) = RecordsFrom(q) - 1
<1>1. PICK i \in DOMAIN sessions : sessions[i] = q
  BY DEF Range
<1>2. /\ Len(sessions) \in Nat /\ i \in 1 .. Len(sessions)
      /\ DOMAIN sessions = 1 .. Len(sessions)
  BY DEF TableOK
<1>3. /\ Position(q) = i /\ RecordsFrom(q) = Len(sessions) - i + 1
      /\ Succ(q) = IF i < Len(sessions) THEN sessions[i + 1] ELSE NULL
  BY <1>1, PositionIsUnique DEF RecordsFrom
<1>4. CASE i < Len(sessions)
  <2>1. i + 1 \in DOMAIN sessions /\ Succ(q) = sessions[i + 1]
    BY <1>2, <1>3, <1>4
  <2>2. Position(Succ(q)) = i + 1 /\ Succ(q) \in Range(sessions)
    BY <2>1, PositionIsUnique DEF Range
  <2>3. RecordsFrom(Succ(q)) = Len(sessions) - (i + 1) + 1
    BY <2>2 DEF RecordsFrom
  <2> QED
    BY <1>2, <1>3, <1>4, <2>3
<1>5. CASE ~(i < Len(sessions))
  <2>1. Succ(q) \notin Range(sessions)
    BY <1>3, <1>5, PtrAssumption DEF TableOK, ListOK
  <2>2. RecordsFrom(Succ(q)) = 0
    BY <2>1 DEF RecordsFrom
  <2> QED
    BY <1>2, <1>3, <1>5, <2>2
<1> QED
  BY <1>4, <1>5

\* A step that adds no session leaves every scan as near to its end as it was.
LEMMA NothingGetsFarther ==
    ASSUME BaseInv, [Next]_vars, Len(sessions') <= Len(sessions), NEW q
    PROVE  RecordsFrom(q)' <= RecordsFrom(q)
<1>1. RecordsFrom(q) \in Nat
  <2>1. q \in Range(sessions) => Position(q) \in 1 .. Len(sessions)
    BY PositionOfLinked DEF BaseInv, TableOK
  <2>2. Len(sessions) \in Nat
    BY DEF BaseInv, TableOK
  <2> QED
    BY <2>1, <2>2 DEF RecordsFrom
<1>2. CASE UNCHANGED sessions
  <2>1. RecordsFrom(q)' = RecordsFrom(q)
    BY <1>2 DEF RecordsFrom, Position
  <2> QED
    BY <1>1, <2>1
<1>3. ASSUME NEW t \in Threads, AddLink(t)
      PROVE  FALSE
  <2>1. Len(sessions') = Len(sessions) + 1 /\ Len(sessions) \in Nat
    BY <1>3 DEF AddLink, Link, BaseInv, TableOK
  <2> QED
    BY <2>1
<1>4. ASSUME NEW t \in Threads, DelUnlink(t) \/ ClosedTake(t)
      PROVE  RecordsFrom(q)' <= RecordsFrom(q)
  BY <1>4, UnlinkBringsNearer DEF BaseInv, DelUnlink, ClosedTake, Alive
<1>5. ASSUME NEW t \in Threads, AddFill(t)
      PROVE  UNCHANGED sessions
  BY <1>5 DEF AddFill
<1> QED
  BY <1>2, <1>3, <1>4, <1>5, TableStep

\* However many threads there are and whatever records they take out of the list,
\* each turn of a scan brings it nearer to its end, unless a session is added: over n
\* records it makes at most 2n + 2 turns, checking and advancing, after the last add.
THEOREM ScansAlwaysAdvance == Spec => ScansAdvance
<1> DEFINE Nearer(t) == /\ TurnsLeft(t)' <= TurnsLeft(t)
                        /\ pc'[t] # pc[t] => TurnsLeft(t)' < TurnsLeft(t)
<1>1. ASSUME BaseInv, [Next]_vars, NEW t \in Threads, Scanning(t), Scanning(t)',
             Len(sessions') <= Len(sessions)
      PROVE  Nearer(t)
  <2> DEFINE q == tmp[t]
             a == RecordsFrom(q)
             b == RecordsFrom(tmp[t])'
  <2>1. a \in Nat /\ b \in Int
    <3>1. /\ sessions \in Seq(Ptr) /\ Len(sessions) \in Nat
          /\ sessions' \in Seq(Ptr) /\ Len(sessions') \in Nat
      BY <1>1, TableInductive DEF BaseInv, TableOK
    <3>2. q \in Range(sessions) => Position(q) \in 1 .. Len(sessions)
      BY <3>1, PositionOfLinked
    <3>3. tmp'[t] \in Range(sessions') => Position(tmp[t])' \in 1 .. Len(sessions')
      BY <3>1, PositionOfLinkedNext DEF Position
    <3> QED
      BY <3>1, <3>2, <3>3 DEF RecordsFrom
  <2>2. UNCHANGED tmp[t] => b <= a
    BY <1>1, NothingGetsFarther DEF RecordsFrom, Position
  <2>3. /\ TurnsLeft(t) = 2 * a + (IF pc[t] = "closed_body" THEN 1 ELSE 0)
        /\ TurnsLeft(t)' = 2 * b + (IF pc'[t] = "closed_body" THEN 1 ELSE 0)
    BY DEF TurnsLeft
  <2> HIDE DEF a, b
  <2>4. CASE pc'[t] = pc[t] /\ UNCHANGED tmp[t]
    BY <2>1, <2>2, <2>3, <2>4
  <2>5. CASE pc[t] = "closed_body" /\ pc'[t] = "closed_next" /\ UNCHANGED tmp[t]
    BY <2>1, <2>2, <2>3, <2>5
  <2>6. CASE ClosedNext(t)
    <3>1. /\ pc[t] = "closed_next" /\ pc'[t] = "closed_body"
          /\ Alive(q) /\ tmp'[t] = Succ(q) /\ UNCHANGED sessions
      BY <1>1, <2>6 DEF ClosedNext, ClosedScanned, Return, Goto, At, Scanning, table,
                        BaseInv, LocalsOK
    <3>2. q \in Range(sessions)
      BY <1>1, <3>1 DEF BaseInv, TableOK, ListOK, Alive
    <3>3. RecordsFrom(Succ(q)) = RecordsFrom(q) - 1
      BY <1>1, <3>2, SuccIsNearer DEF BaseInv
    <3>4. b = RecordsFrom(Succ(q))
      BY <3>1 DEF b, RecordsFrom, Position
    <3> QED
      BY <2>1, <2>3, <3>1, <3>3, <3>4 DEF a
  <2>7. CASE UNCHANGED vars \/ Halted
    BY <2>4, <2>7 DEF vars, locals, Halted
  <2>8. ASSUME NEW u \in Threads \ {t}, Client(u) \/ Run(u) \/ DataRace(u)
        PROVE  pc'[t] = pc[t] /\ UNCHANGED tmp[t]
    <3>1. Same(t)
      BY <1>1, <2>8, OthersKeepLocals DEF BaseInv
    <3> QED
      BY <3>1 DEF Same
  <2>9. ASSUME Client(t) \/ Run(t) \/ DataRace(t)
        PROVE  \/ ClosedNext(t)
               \/ pc'[t] = pc[t] /\ UNCHANGED tmp[t]
               \/ pc[t] = "closed_body" /\ pc'[t] = "closed_next" /\ UNCHANGED tmp[t]
    <3> USE DEF At, Goto, Scanning
    <3>1. LocalsOK
      BY <1>1 DEF BaseInv
    <3>2. CASE Client(t)
      BY <1>1, <3>1, <3>2 DEF Client, CallAdd, CallGet, CallDelete, CallClosed, CallAll,
                              Call, Cancel, LocalsOK
    <3>3. CASE DataRace(t) \/ Dangling(t) \/ ClosedOverflow(t)
      BY <3>3 DEF DataRace, Dangling, ClosedOverflow, Undefined, locals
    <3>4. CASE ClosedSkip(t) \/ ClosedTake(t)
      BY <1>1, <3>1, <3>4 DEF ClosedSkip, ClosedTake, ClosedScanned, Return, LocalsOK
    <3>5. CASE CheckCancelled(t) \/ Reply(t) \/ AddStep(t) \/ GetFind(t) \/ GetCopy(t)
      BY <1>1, <3>5 DEF CheckCancelled, Reply, AddStep, AddRead, AddCancelled, AddEnd,
                        AddCount, AddFind, AddLink, AddFill, GetFind, Find, GetCopy
    <3>6. CASE \/ DelFind(t) \/ DelUnlink(t) \/ ClosedBegin(t) \/ ClosedWrite(t)
               \/ AllBegin(t) \/ AllStep(t)
      BY <1>1, <3>6 DEF DelFind, DelUnlink, Find, ClosedBegin, ClosedWrite, AllBegin,
                        AllStep
    <3> QED
      BY <2>9, <3>2, <3>3, <3>4, <3>5, <3>6 DEF Run, ClosedStep
  <2> QED
    BY <1>1, <2>4, <2>5, <2>6, <2>7, <2>8, <2>9 DEF Next
<1>2. BaseInv /\ [Next]_vars =>
        [\A t \in Threads :
           Scanning(t) /\ Scanning(t)' /\ Len(sessions') <= Len(sessions) => Nearer(t)]_vars
  BY <1>1
<1> QED
  BY <1>2, BaseInvariance, PTL DEF Spec, ScansAdvance

-----------------------------------------------------------------------------
(* Capacity. *)

\* A thread is admitted by the capacity check alone; linking its record takes it
\* out of the admitted ones.
LEMMA AdmittedStep ==
    ASSUME BaseInv, NEW t \in Threads, Client(t) \/ Run(t) \/ DataRace(t)
    PROVE  /\ Admitted' \subseteq Admitted \cup {t}
           /\ ~AddCount(t) => Admitted' \subseteq Admitted
           /\ AddLink(t) => t \in Admitted /\ t \notin Admitted'
           /\ AddCount(t) => \/ Len(sessions) <= HASHTABLE_SIZE
                             \/ Admitted' \subseteq Admitted
<1> USE DEF LocalsOK, At, Goto
<1>1. \A u \in Threads \ {t} : pc'[u] = pc[u]
  BY OthersKeepLocals DEF BaseInv, Same
<1>2. Admitted' \subseteq Admitted \cup {t}
  BY <1>1 DEF Admitted
<1>3. ASSUME ~AddCount(t), t \notin Admitted
      PROVE  t \notin Admitted'
  <2> USE <1>3 DEF BaseInv, Admitted
  <2>1. CASE Client(t)
    BY <2>1 DEF Client, CallAdd, CallGet, CallDelete, CallClosed, CallAll, Call, Cancel
  <2>2. CASE DataRace(t) \/ Dangling(t) \/ ClosedOverflow(t)
    BY <2>2 DEF DataRace, Dangling, ClosedOverflow, Undefined, locals
  <2>3. CASE CheckCancelled(t) \/ Reply(t)
    BY <2>3 DEF CheckCancelled, Reply, Return
  <2>4. CASE \/ AddRead(t) \/ AddCancelled(t) \/ AddEnd(t) \/ AddFind(t)
             \/ AddLink(t) \/ AddFill(t)
    BY <2>4 DEF AddRead, AddCancelled, AddEnd, AddFind, AddError, AddLink, AddFill,
                Return
  <2>5. CASE GetFind(t) \/ GetCopy(t) \/ DelFind(t) \/ DelUnlink(t)
    BY <2>5 DEF GetFind, GetCopy, DelFind, DelUnlink, Find, Return
  <2>6. CASE ClosedBegin(t) \/ ClosedSkip(t) \/ ClosedNext(t)
    BY <2>6 DEF ClosedBegin, ClosedSkip, ClosedNext, ClosedScanned, Return
  <2>7. CASE ClosedTake(t) \/ ClosedWrite(t)
    BY <2>7 DEF ClosedTake, ClosedWrite, ClosedScanned, Return
  <2>8. CASE AllBegin(t) \/ AllStep(t)
    BY <2>8 DEF AllBegin, AllStep, Return
  <2> QED
    BY <2>1, <2>2, <2>3, <2>4, <2>5, <2>6, <2>7, <2>8 DEF Run, AddStep, ClosedStep
<1>4. AddLink(t) => t \in Admitted /\ t \notin Admitted'
  BY DEF AddLink, Admitted, BaseInv
<1>5. AddCount(t) => \/ Len(sessions) <= HASHTABLE_SIZE
                     \/ t \notin Admitted'
  BY SizeAssumption DEF AddCount, AddError, TableFull, Admitted, BaseInv, TableOK
<1> QED
  BY <1>2, <1>3, <1>4, <1>5

\* The sessions linked and the sessions about to be linked never outnumber the
\* table and the threads.
LEMMA CapacityInductive ==
    ASSUME BaseInv, CapacityInv, [Next]_vars
    PROVE  CapacityInv'
<1> DEFINE bound == HASHTABLE_SIZE + Cardinality(Threads)
<1>1. /\ IsFiniteSet(Threads) /\ Cardinality(Threads) \in Nat
      /\ IsFiniteSet(Admitted) /\ IsFiniteSet(Admitted')
      /\ Cardinality(Admitted) \in Nat /\ Cardinality(Admitted') \in Nat
  <2>1. Admitted \subseteq Threads /\ Admitted' \subseteq Threads
    BY DEF Admitted
  <2> QED
    BY <2>1, ThreadsAssumption, FS_Subset, FS_CardinalityType
<1>2. Cardinality(Admitted') <= Cardinality(Threads)
  <2>1. Admitted' \subseteq Threads
    BY DEF Admitted
  <2> QED
    BY <2>1, <1>1, FS_Subset
<1>3. Len(sessions) \in Nat /\ Len(sessions') \in Nat /\ HASHTABLE_SIZE \in Nat
  BY TableInductive, SizeAssumption DEF BaseInv, TableOK
<1>4. ASSUME Len(sessions') <= Len(sessions), Admitted' \subseteq Admitted
      PROVE  CapacityInv'
  <2>1. Cardinality(Admitted') <= Cardinality(Admitted)
    BY <1>1, <1>4, FS_Subset
  <2> QED
    BY <2>1, <1>1, <1>3, <1>4 DEF CapacityInv
<1>5. CASE UNCHANGED vars \/ Halted
  <2>1. Len(sessions') = Len(sessions) /\ Admitted' = Admitted
    BY <1>5 DEF vars, table, locals, Halted, Admitted
  <2> QED
    BY <2>1, <1>3, <1>4
<1>6. ASSUME NEW t \in Threads, AddLink(t)
      PROVE  CapacityInv'
  <2>1. Client(t) \/ Run(t) \/ DataRace(t)
    BY <1>6 DEF Run, AddStep
  <2>2. Admitted' \subseteq Admitted \ {t} /\ t \in Admitted
    <3>1. ~AddCount(t)
      BY <1>6 DEF AddLink, AddCount, At
    <3> QED
      BY <1>6, <2>1, <3>1, AdmittedStep
  <2>3. /\ Cardinality(Admitted \ {t}) = Cardinality(Admitted) - 1
        /\ IsFiniteSet(Admitted \ {t})
    BY <2>2, <1>1, FS_RemoveElement
  <2>4. Cardinality(Admitted') <= Cardinality(Admitted) - 1
    BY <2>2, <2>3, <1>1, FS_Subset
  <2>5. Len(sessions') = Len(sessions) + 1
    BY <1>6 DEF AddLink, Link, BaseInv, TableOK
  <2> QED
    BY <2>4, <2>5, <1>1, <1>3 DEF CapacityInv
<1>7. ASSUME NEW t \in Threads, AddCount(t)
      PROVE  CapacityInv'
  <2>1. Client(t) \/ Run(t) \/ DataRace(t)
    BY <1>7 DEF Run, AddStep
  <2>2. sessions' = sessions
    BY <1>7 DEF AddCount, table
  <2>3. CASE Len(sessions) <= HASHTABLE_SIZE
    BY <2>2, <2>3, <1>1, <1>2, <1>3 DEF CapacityInv
  <2>4. CASE Admitted' \subseteq Admitted
    BY <2>2, <2>4, <1>3, <1>4
  <2> QED
    BY <1>7, <2>1, <2>3, <2>4, AdmittedStep
<1>8. ASSUME NEW t \in Threads, Client(t) \/ Run(t) \/ DataRace(t),
             ~AddCount(t), ~AddLink(t)
      PROVE  CapacityInv'
  <2>1. Admitted' \subseteq Admitted
    BY <1>8, AdmittedStep
  <2>2. Len(sessions') <= Len(sessions)
    <3>1. CASE UNCHANGED <<sessions, heap>>
      BY <3>1, <1>3
    <3>2. ASSUME NEW u \in Threads, AddLink(u)
          PROVE  u = t
      <4>1. CASE u # t
        <5>1. pc'[u] = pc[u]
          BY <4>1, <1>8, OthersKeepLocals DEF BaseInv, Same
        <5>2. pc[u] = "add_link" /\ pc'[u] = "add_fill"
          BY <3>2 DEF AddLink, At, Goto, BaseInv, LocalsOK
        <5> QED
          BY <5>1, <5>2
      <4> QED
        BY <4>1
    <3>3. ASSUME NEW u \in Threads, AddFill(u)
          PROVE  Len(sessions') <= Len(sessions)
      BY <3>3, <1>3 DEF AddFill
    <3>4. ASSUME NEW u \in Threads, DelUnlink(u) \/ ClosedTake(u)
          PROVE  Len(sessions') <= Len(sessions)
      <4>1. TableOK /\ r[u] \in DOMAIN heap /\ UnlinkAndFree(r[u])
        BY <3>4 DEF DelUnlink, ClosedTake, Alive, BaseInv
      <4>2. Len(sessions') = Len(sessions) - 1
        BY <4>1, UnlinkKeepsTable
      <4> QED
        BY <4>2, <1>3
    <3> QED
      BY <1>8, <3>1, <3>2, <3>3, <3>4, TableStep
  <2> QED
    BY <2>1, <2>2, <1>4
<1> QED
  BY <1>5, <1>6, <1>7, <1>8 DEF Next

\* The table never holds more than HASHTABLE_SIZE sessions and one for each server
\* thread: the capacity check of opof_add_session_server is not atomic with its
\* HASH_ADD, and compares with > instead of >=, but overshoots by no more.
THEOREM CapacityCorrect == Spec => []Capacity
<1>1. Init => CapacityInv
  <2> SUFFICES ASSUME Init PROVE CapacityInv
    OBVIOUS
  <2>1. Admitted = {}
    BY DEF Init, ThreadsIdle, Admitted
  <2>2. Cardinality(Admitted) = 0 /\ Cardinality(Threads) \in Nat
    BY <2>1, ThreadsAssumption, FS_EmptySet, FS_CardinalityType
  <2>3. Len(sessions) = 0
    BY DEF Init, ThreadsIdle
  <2> QED
    BY <2>2, <2>3, SizeAssumption DEF CapacityInv
<1>2. BaseInv /\ CapacityInv /\ [Next]_vars => CapacityInv'
  BY CapacityInductive
<1>3. BaseInv /\ CapacityInv => Capacity
  <2> SUFFICES ASSUME BaseInv, CapacityInv PROVE Capacity
    OBVIOUS
  <2>1. Admitted \subseteq Threads
    BY DEF Admitted
  <2>2. Cardinality(Admitted) \in Nat /\ Cardinality(Threads) \in Nat
    BY <2>1, ThreadsAssumption, FS_Subset, FS_CardinalityType
  <2>3. Len(sessions) \in Nat
    BY DEF BaseInv, TableOK
  <2> QED
    BY <2>2, <2>3, SizeAssumption DEF CapacityInv, Capacity
<1> QED
  BY <1>1, <1>2, <1>3, BaseInvariance, PTL DEF Spec

-----------------------------------------------------------------------------
(* Response arrays. *)

BufferOK(t) ==
    /\ op[t] \in {"closed", "all"} => Len(out[t]) <= BUFFER_MAX
    /\ pc[t] = "all_step" => Len(out[t]) < BUFFER_MAX
    /\ pc[t] \in {"closed_body", "closed_next"}
         /\ PageSizes \subseteq 1 .. BUFFER_MAX => Len(out[t]) < size[t]

\* No step takes an answer past its array.
LEMMA BufferInductive ==
    ASSUME BaseInv, BufferInv, [Next]_vars
    PROVE  BufferInv'
<1>1. CASE UNCHANGED vars \/ Halted
  BY <1>1 DEF BufferInv, Halted, vars, locals
<1>2. ASSUME NEW t \in Threads, Client(t) \/ Run(t) \/ DataRace(t),
             BufferOK(t)', PageSizes \subseteq 1 .. BUFFER_MAX => ub' # "overflow"
      PROVE  BufferInv'
  <2>1. ASSUME NEW u \in Threads \ {t}
        PROVE  BufferOK(u)'
    <3>1. Same(u)
      BY <1>2, OthersKeepLocals DEF BaseInv
    <3>2. BufferOK(u)
      BY DEF BufferInv, BufferOK
    <3> QED
      BY <3>1, <3>2 DEF Same, BufferOK
  <2>2. \A u \in Threads : BufferOK(u)'
    BY <1>2, <2>1
  <2> QED
    BY <1>2, <2>2 DEF BufferInv, BufferOK
<1>3. ASSUME NEW t \in Threads, Client(t) \/ Run(t) \/ DataRace(t)
      PROVE  BufferOK(t)' /\ (PageSizes \subseteq 1 .. BUFFER_MAX => ub' # "overflow")
  <2>0. /\ LocalsOK /\ CallOK(t) /\ BufferOK(t)
        /\ PageSizes \subseteq 1 .. BUFFER_MAX => ub # "overflow"
        /\ BUFFER_MAX \in Nat /\ BUFFER_MAX > 0
        /\ out[t] \in Seq(Entry) /\ Len(out[t]) \in Nat /\ size[t] \in Nat
    BY SizeAssumption DEF BaseInv, CallsOK, BufferInv, BufferOK, LocalsOK
  <2> USE DEF LocalsOK, CallOK, BufferOK, At, Goto
  <2>1. CASE CallAdd(t) \/ CallGet(t) \/ CallDelete(t) \/ CallClosed(t) \/ CallAll(t)
    <3>1. out' = out /\ ub' = ub /\ pc'[t] \in {"add_read", "check"} /\ out[t] = <<>>
      BY <2>0, <2>1 DEF CallAdd, CallGet, CallDelete, CallClosed, CallAll, Call
    <3> QED
      BY <2>0, <3>1
  <2>2. CASE Cancel(t)
    BY <2>0, <2>2 DEF Cancel
  <2>3. CASE DataRace(t) \/ Dangling(t)
    BY <2>0, <2>3 DEF DataRace, Dangling, Undefined, locals
  <2>4. CASE ClosedOverflow(t)
    <3>1. ~(PageSizes \subseteq 1 .. BUFFER_MAX)
      <4>1. op[t] = "closed" /\ size[t] \in PageSizes /\ ~(Len(out[t]) < BUFFER_MAX)
        BY <2>0, <2>4 DEF ClosedOverflow
      <4>2. PageSizes \subseteq 1 .. BUFFER_MAX => Len(out[t]) < size[t]
        BY <2>0, <2>4 DEF ClosedOverflow
      <4> QED
        BY <2>0, <4>1, <4>2
    <3> QED
      BY <2>0, <2>4, <3>1 DEF ClosedOverflow, Undefined, locals
  <2>5. CASE CheckCancelled(t)
    BY <2>0, <2>5 DEF CheckCancelled, Return
  <2>6. CASE Reply(t)
    BY <2>0, <2>6 DEF Reply
  <2>7. CASE AddRead(t) \/ AddCancelled(t) \/ AddEnd(t) \/ AddLink(t) \/ AddFill(t)
    BY <2>0, <2>7 DEF AddRead, AddCancelled, AddEnd, AddLink, AddFill, Return
  <2>8. CASE AddCount(t) \/ AddFind(t)
    <3>1. op'[t] = "add" /\ ub' = ub /\ pc'[t] \in {"add_read", "add_find", "add_link"}
      BY <2>0, <2>8 DEF AddCount, AddFind, AddError
    <3> QED
      BY <2>0, <3>1
  <2>9. CASE GetFind(t) \/ GetCopy(t) \/ DelFind(t) \/ DelUnlink(t)
    <3>1. op'[t] \in {"get", "del"} /\ ub' = ub
      BY <2>0, <2>9 DEF GetFind, GetCopy, DelFind, DelUnlink, Find
    <3>2. pc'[t] \in {"get_copy", "del_unlink", "reply"}
      BY <2>0, <2>9 DEF GetFind, GetCopy, DelFind, DelUnlink, Find, Return
    <3> QED
      BY <2>0, <3>1, <3>2
  <2>10. CASE ClosedBegin(t)
    <3>1. /\ out'[t] = <<>> /\ size'[t] = size[t] /\ ub' = ub /\ op'[t] = "closed"
          /\ size[t] \in PageSizes
          /\ pc'[t] \in {"closed_body", "closed_write", "reply"}
      BY <2>0, <2>10 DEF ClosedBegin, ClosedScanned, Return
    <3> QED
      BY <2>0, <3>1
  <2>11. CASE ClosedSkip(t) \/ ClosedNext(t)
    BY <2>0, <2>11 DEF ClosedSkip, ClosedNext, ClosedScanned, Return
  <2>12. CASE ClosedTake(t)
    <3>1. /\ Len(out'[t]) = Len(out[t]) + 1 /\ size'[t] = size[t] /\ ub' = ub
          /\ op'[t] = "closed" /\ Len(out[t]) < BUFFER_MAX
      BY <2>0, <2>12 DEF ClosedTake
    <3>2. \/ pc'[t] \in {"closed_write", "reply"}
          \/ pc'[t] = "closed_next" /\ Len(out'[t]) # size[t]
      BY <2>0, <2>12 DEF ClosedTake, ClosedScanned, Return
    <3>3. PageSizes \subseteq 1 .. BUFFER_MAX => Len(out[t]) < size[t]
      BY <2>0, <2>12 DEF ClosedTake
    <3> QED
      BY <2>0, <3>1, <3>2, <3>3
  <2>13. CASE ClosedWrite(t)
    <3>1. /\ out'[t] = out[t] \/ (out[t] # <<>> /\ out'[t] = Tail(out[t]))
          /\ ub' = ub /\ op'[t] = "closed" /\ op[t] = "closed"
          /\ pc'[t] \in {"closed_write", "reply"}
      BY <2>0, <2>13 DEF ClosedWrite, Return
    <3>2. Len(out'[t]) <= Len(out[t])
      BY <2>0, <3>1
    <3>3. Len(out'[t]) \in Nat
      BY <2>0, <3>1
    <3>4. Len(out'[t]) <= BUFFER_MAX
      BY <2>0, <3>1, <3>2, <3>3
    <3> QED
      BY <2>0, <3>1, <3>4
  <2>14. CASE AllBegin(t)
    <3>1. /\ out'[t] = <<>> /\ ub' = ub /\ pc'[t] \in {"all_step", "reply"}
          /\ op'[t] = "all"
      BY <2>0, <2>14 DEF AllBegin, Return
    <3> QED
      BY <2>0, <3>1
  <2>15. CASE AllStep(t)
    <3>1. /\ Len(out'[t]) = Len(out[t]) + 1 /\ ub' = ub /\ op'[t] = "all"
          /\ Len(out[t]) < BUFFER_MAX
      BY <2>0, <2>15 DEF AllStep
    <3>2. \/ pc'[t] = "reply"
          \/ pc'[t] = "all_step" /\ Len(out[t]) + 1 # BUFFER_MAX
      BY <2>0, <2>15 DEF AllStep, PageEnds, Return
    <3> QED
      BY <2>0, <3>1, <3>2
  <2> QED
    BY <1>3, <2>1, <2>2, <2>3, <2>4, <2>5, <2>6, <2>7, <2>8, <2>9, <2>10, <2>11,
       <2>12, <2>13, <2>14, <2>15 DEF Client, Run, AddStep, ClosedStep
<1> QED
  BY <1>1, <1>2, <1>3 DEF Next

\* No response array is overrun when the page sizes are 1..BUFFER_MAX, whatever
\* sessions other threads add and remove while getClosedSessions scans.
THEOREM BufferCorrect == Spec => []BufferBound
<1>1. Init => BufferInv
  BY SizeAssumption DEF Init, ThreadsIdle, BufferInv
<1>2. BaseInv /\ BufferInv /\ [Next]_vars => BufferInv'
  BY BufferInductive
<1>3. BufferInv => BufferBound
  BY DEF BufferInv, BufferBound
<1> QED
  BY <1>1, <1>2, <1>3, BaseInvariance, PTL DEF Spec

-----------------------------------------------------------------------------
(* Sessions being added. *)

\* A thread leaves the point between HASH_ADD and the other fields by filling
\* them in only.
LEMMA FillerStays ==
    ASSUME BaseInv, NEW t \in Threads, Client(t) \/ Run(t) \/ DataRace(t),
           NEW u \in Threads, pc[u] = "add_fill", ~AddFill(u)
    PROVE  pc'[u] = "add_fill" /\ r'[u] = r[u]
<1>1. CASE u # t
  BY <1>1, OthersKeepLocals DEF BaseInv, Same
<1>2. CASE u = t
  <2> USE <1>2 DEF At
  <2>1. CASE Client(t)
    BY <2>1 DEF Client, CallAdd, CallGet, CallDelete, CallClosed, CallAll, Call, Cancel
  <2>2. CASE DataRace(t) \/ Dangling(t) \/ ClosedOverflow(t)
    BY <2>2 DEF DataRace, Dangling, ClosedOverflow, Undefined, locals
  <2>3. ~(CheckCancelled(t) \/ Reply(t) \/ AllBegin(t) \/ AllStep(t))
    BY DEF CheckCancelled, Reply, AllBegin, AllStep
  <2>4. ~(AddRead(t) \/ AddCancelled(t) \/ AddEnd(t) \/ AddCount(t) \/ AddFind(t)
          \/ AddLink(t))
    BY DEF AddRead, AddCancelled, AddEnd, AddCount, AddFind, AddLink
  <2>5. ~(GetFind(t) \/ GetCopy(t) \/ DelFind(t) \/ DelUnlink(t))
    BY DEF GetFind, GetCopy, DelFind, DelUnlink, Find
  <2>6. ~(ClosedBegin(t) \/ ClosedSkip(t) \/ ClosedTake(t) \/ ClosedNext(t)
          \/ ClosedWrite(t))
    BY DEF ClosedBegin, ClosedSkip, ClosedTake, ClosedNext, ClosedWrite
  <2> QED
    BY <2>1, <2>2, <2>3, <2>4, <2>5, <2>6 DEF Run, AddStep, ClosedStep
<1> QED
  BY <1>1, <1>2

\* A step leaves no session behind that nobody will fill in.
LEMMA NoStuckInductive ==
    ASSUME BaseInv, NoStuckSession, [Next]_vars
    PROVE  NoStuckSession'
<1>1. CASE UNCHANGED vars \/ Halted
  BY <1>1 DEF NoStuckSession, Halted, vars, table, locals
<1>2. ASSUME NEW t \in Threads, Client(t) \/ Run(t) \/ DataRace(t)
      PROVE  NoStuckSession'
  <2>1. SUFFICES ASSUME NEW p \in DOMAIN heap', heap'[p].state = "_ESTABLISHED"
                 PROVE  \E u \in Threads : pc'[u] = "add_fill" /\ r'[u] = p
    BY DEF NoStuckSession
  <2>2. ASSUME p \in DOMAIN heap, heap'[p] = heap[p],
               \A u \in Threads : AddFill(u) => r[u] # p
        PROVE  \E u \in Threads : pc'[u] = "add_fill" /\ r'[u] = p
    <3>1. PICK u \in Threads : pc[u] = "add_fill" /\ r[u] = p
      BY <2>1, <2>2 DEF NoStuckSession
    <3>2. pc'[u] = "add_fill" /\ r'[u] = p
      BY <1>2, <2>2, <3>1, FillerStays
    <3> QED
      BY <3>2
  <2>3. ASSUME NEW u \in Threads, AddFill(u)
        PROVE  \E w \in Threads : pc'[w] = "add_fill" /\ r'[w] = p
    <3>1. /\ DOMAIN heap' = DOMAIN heap
          /\ \A q \in DOMAIN heap \ {r[u]} : heap'[q] = heap[q]
          /\ heap'[r[u]].state = "_CLOSED"
      BY <2>3, FillKeepsTable DEF AddFill, Alive, BaseInv
    <3>2. p # r[u] /\ p \in DOMAIN heap /\ heap'[p] = heap[p]
      BY <2>1, <3>1
    <3>3. ASSUME NEW w \in Threads, AddFill(w)
          PROVE  w = u
      <4>1. pc[w] = "add_fill" /\ pc'[w] = "add_read"
        BY <3>3 DEF AddFill, At, Goto, BaseInv, LocalsOK
      <4>2. pc[u] = "add_fill" /\ pc'[u] = "add_read"
        BY <2>3 DEF AddFill, At, Goto, BaseInv, LocalsOK
      <4>3. \A x \in Threads \ {t} : pc'[x] = pc[x]
        BY <1>2, OthersKeepLocals DEF BaseInv, Same
      <4> QED
        BY <4>1, <4>2, <4>3
    <3> QED
      BY <2>2, <3>2, <3>3
  <2>4. CASE \A u \in Threads : ~AddFill(u)
    <3>1. CASE UNCHANGED <<sessions, heap>>
      BY <2>2, <2>4, <3>1
    <3>2. ASSUME NEW u \in Threads, AddLink(u)
          PROVE  \E w \in Threads : pc'[w] = "add_fill" /\ r'[w] = p
      <4>1. PICK q \in Ptr \ DOMAIN heap :
               /\ Link(q, [id |-> key[u], state |-> "_ESTABLISHED"])
               /\ r' = [r EXCEPT ![u] = q]
        BY <3>2 DEF AddLink
      <4>2. /\ DOMAIN heap' = DOMAIN heap \cup {q}
            /\ \A x \in DOMAIN heap : heap'[x] = heap[x]
        BY <4>1 DEF Link
      <4>3. CASE p = q
        <5>1. pc'[u] = "add_fill" /\ r'[u] = q
          BY <3>2, <4>1 DEF AddLink, Goto, BaseInv, LocalsOK
        <5> QED
          BY <4>3, <5>1
      <4>4. CASE p # q
        BY <2>2, <2>4, <4>2, <4>4
      <4> QED
        BY <4>3, <4>4
    <3>3. ASSUME NEW u \in Threads, DelUnlink(u) \/ ClosedTake(u)
          PROVE  \E w \in Threads : pc'[w] = "add_fill" /\ r'[w] = p
      <4>1. DOMAIN heap' \subseteq DOMAIN heap
            /\ \A x \in DOMAIN heap' : heap'[x] = heap[x]
        BY <3>3 DEF DelUnlink, ClosedTake, UnlinkAndFree
      <4> QED
        BY <2>1, <2>2, <2>4, <4>1
    <3> QED
      BY <2>4, <3>1, <3>2, <3>3, TableStep
  <2> QED
    BY <2>3, <2>4
<1> QED
  BY <1>1, <1>2 DEF Next

\* A session stays _ESTABLISHED, out of reach of getClosedSessions, only while
\* its addSession is still to fill in the record.
THEOREM NoStuckCorrect == Spec => []NoStuckSession
<1>1. Init => NoStuckSession
  BY DEF Init, ThreadsIdle, NoStuckSession
<1>2. BaseInv /\ NoStuckSession /\ [Next]_vars => NoStuckSession'
  BY NoStuckInductive
<1> QED
  BY <1>1, <1>2, BaseInvariance, PTL DEF Spec

-----------------------------------------------------------------------------
(* One call at a time. *)

OneThread == \A t, u \in Threads : t = u

\* A thread comes to HASH_ADD from a HASH_FIND that found nothing.
LEMMA LinkComesFromFind ==
    ASSUME BaseInv, NEW t \in Threads, Client(t) \/ Run(t) \/ DataRace(t),
           pc'[t] = "add_link"
    PROVE  \/ AddFind(t) /\ Found(key[t]) = {} /\ key'[t] = key[t]
           \/ pc[t] = "add_link" /\ key'[t] = key[t] /\ UNCHANGED heap
<1> USE DEF LocalsOK, BaseInv, At, Goto
<1>1. CASE Client(t)
  BY <1>1 DEF Client, CallAdd, CallGet, CallDelete, CallClosed, CallAll, Call, Cancel,
              table
<1>2. CASE DataRace(t) \/ Dangling(t) \/ ClosedOverflow(t)
  BY <1>2 DEF DataRace, Dangling, ClosedOverflow, Undefined, locals, table
<1>3. ~(CheckCancelled(t) \/ Reply(t))
  BY DEF CheckCancelled, Reply, Return
<1>4. ~(AddRead(t) \/ AddCancelled(t) \/ AddEnd(t) \/ AddCount(t) \/ AddLink(t)
        \/ AddFill(t))
  BY DEF AddRead, AddCancelled, AddEnd, AddCount, AddError, AddLink, AddFill, Return
<1>5. CASE AddFind(t)
  BY <1>5 DEF AddFind, AddError
<1>6. ~(GetFind(t) \/ GetCopy(t) \/ DelFind(t) \/ DelUnlink(t))
  BY DEF GetFind, GetCopy, DelFind, DelUnlink, Find, Return
<1>7. ~(ClosedBegin(t) \/ ClosedSkip(t) \/ ClosedNext(t))
  BY DEF ClosedBegin, ClosedSkip, ClosedNext, ClosedScanned, Return
<1>8. ~(ClosedTake(t) \/ ClosedWrite(t))
  BY DEF ClosedTake, ClosedWrite, ClosedScanned, Return
<1>9. ~(AllBegin(t) \/ AllStep(t))
  BY DEF AllBegin, AllStep, Return
<1> QED
  BY <1>1, <1>2, <1>3, <1>4, <1>5, <1>6, <1>7, <1>8, <1>9 DEF Run, AddStep, ClosedStep

\* No other thread is serving a call.
Alone(t) == \A u \in Threads \ {t} : pc[u] = "idle"

\* The id that the only thread at work is about to enter is still new.
LEMMA UniqueStep ==
    ASSUME BaseInv, UniqueIds, CheckedIdIsNew,
           NEW t \in Threads, Alone(t), Client(t) \/ Run(t) \/ DataRace(t)
    PROVE  UniqueIds' /\ CheckedIdIsNew'
<1>1. CheckedIdIsNew'
  <2>1. \A u \in Threads \ {t} : pc'[u] = "idle"
    BY OthersKeepLocals DEF BaseInv, Same, Alone
  <2>2. SUFFICES ASSUME pc'[t] = "add_link", NEW p \in DOMAIN heap'
                 PROVE  heap'[p].id # key'[t]
    BY <2>1 DEF CheckedIdIsNew
  <2>3. CASE AddFind(t) /\ Found(key[t]) = {} /\ key'[t] = key[t]
    <3>1. heap' = heap
      BY <2>3 DEF AddFind, table
    <3>2. \A q \in DOMAIN heap : heap[q].id # key[t]
      BY <2>3 DEF Found, Alive, BaseInv, TableOK, ListOK
    <3> QED
      BY <2>2, <2>3, <3>1, <3>2
  <2>4. CASE pc[t] = "add_link" /\ key'[t] = key[t] /\ UNCHANGED heap
    BY <2>2, <2>4 DEF CheckedIdIsNew
  <2> QED
    BY <2>2, <2>3, <2>4, LinkComesFromFind
<1>2. UniqueIds'
  <2>1. CASE UNCHANGED <<sessions, heap>>
    BY <2>1 DEF UniqueIds
  <2>2. ASSUME NEW u \in Threads, AddLink(u)
        PROVE  UniqueIds'
    <3>1. PICK q \in Ptr \ DOMAIN heap :
             Link(q, [id |-> key[u], state |-> "_ESTABLISHED"])
      BY <2>2 DEF AddLink
    <3>2. /\ DOMAIN heap' = DOMAIN heap \cup {q}
          /\ heap'[q].id = key[u]
          /\ \A x \in DOMAIN heap : heap'[x] = heap[x]
      BY <3>1 DEF Link
    <3>3. \A x \in DOMAIN heap : heap[x].id # key[u]
      BY <2>2 DEF AddLink, At, CheckedIdIsNew
    <3> QED
      BY <3>2, <3>3 DEF UniqueIds
  <2>3. ASSUME NEW u \in Threads, AddFill(u)
        PROVE  UniqueIds'
    <3>1. /\ DOMAIN heap' = DOMAIN heap
          /\ \A q \in DOMAIN heap : heap'[q].id = heap[q].id
      BY <2>3, FillKeepsTable DEF AddFill, Alive, BaseInv
    <3> QED
      BY <3>1 DEF UniqueIds
  <2>4. ASSUME NEW u \in Threads, DelUnlink(u) \/ ClosedTake(u)
        PROVE  UniqueIds'
    BY <2>4 DEF DelUnlink, ClosedTake, UnlinkAndFree, UniqueIds
  <2>5. [Next]_vars
    BY DEF Next
  <2> QED
    BY <2>1, <2>2, <2>3, <2>4, <2>5, TableStep
<1> QED
  BY <1>1, <1>2

\* With one thread no other one is ever at work.
LEMMA UniqueInductive ==
    ASSUME OneThread, BaseInv, UniqueIds, CheckedIdIsNew, [Next]_vars
    PROVE  UniqueIds' /\ CheckedIdIsNew'
<1>1. CASE UNCHANGED vars \/ Halted
  BY <1>1 DEF UniqueIds, CheckedIdIsNew, Halted, vars, table, locals
<1>2. ASSUME NEW t \in Threads, Client(t) \/ Run(t) \/ DataRace(t)
      PROVE  UniqueIds' /\ CheckedIdIsNew'
  BY <1>2, UniqueStep DEF OneThread, Alone
<1> QED
  BY <1>1, <1>2 DEF Next

\* When calls come one at a time, the duplicate check of opof_add_session_server
\* keeps the session ids of the table distinct.
THEOREM UniqueIdsSerial ==
    ASSUME OneThread
    PROVE  Spec => []UniqueIds
<1>1. Init => UniqueIds /\ CheckedIdIsNew
  BY DEF Init, ThreadsIdle, UniqueIds, CheckedIdIsNew
<1>2. BaseInv /\ UniqueIds /\ CheckedIdIsNew /\ [Next]_vars
        => UniqueIds' /\ CheckedIdIsNew'
  BY OneThread, UniqueInductive
<1> QED
  BY <1>1, <1>2, BaseInvariance, PTL DEF Spec

\* The successor of a live record is another live record, or null.
LEMMA SuccIsAnother ==
    ASSUME TableOK, NEW p \in DOMAIN heap
    PROVE  Succ(p) # p /\ (Succ(p) = NULL \/ Succ(p) \in DOMAIN heap)
<1>1. p \in Range(sessions) /\ p # NULL
  BY PtrAssumption DEF TableOK, ListOK
<1>2. Position(p) \in 1 .. Len(sessions) /\ sessions[Position(p)] = p
  BY <1>1, PositionOfLinked DEF TableOK
<1>3. Succ(p) # p
  <2>1. CASE Position(p) < Len(sessions)
    <3>1. Position(p) + 1 \in DOMAIN sessions /\ Position(p) \in DOMAIN sessions
      BY <2>1, <1>2 DEF TableOK
    <3>2. sessions[Position(p) + 1] # p
      BY <3>1, <1>2 DEF TableOK, ListOK, IsInjective
    <3> QED
      BY <3>2, <2>1, <1>1 DEF Succ
  <2>2. CASE ~(Position(p) < Len(sessions))
    BY <2>2, <1>1 DEF Succ
  <2> QED
    BY <2>1, <2>2
<1>4. Succ(p) = NULL \/ Succ(p) \in DOMAIN heap
  BY SuccIsLinked DEF TableOK, ListOK
<1> QED
  BY <1>3, <1>4

\* The records a thread holds between its steps are live, but for the one a page
\* of a listing begins at.
HoldsLive(t) ==
    /\ pc[t] \in {"add_fill", "get_copy", "del_unlink", "closed_body"} => Alive(r[t])
    /\ pc[t] = "closed_body" => tmp[t] = Succ(r[t])
    /\ pc[t] = "closed_next" => tmp[t] = NULL \/ Alive(tmp[t])
    /\ pc[t] = "all_step" => Alive(r[t]) \/ out[t] = <<>>

\* With one thread nobody frees the records a thread holds.
LEMMA HoldsLiveInductive ==
    ASSUME BaseInv, NEW t \in Threads, HoldsLive(t), Client(t) \/ Run(t) \/ DataRace(t)
    PROVE  HoldsLive(t)'
<1> USE DEF BaseInv, LocalsOK, At, Goto
<1>1. CASE Client(t)
  <2>1. heap' = heap /\ sessions' = sessions /\ out' = out /\ r' = r /\ tmp' = tmp
    BY <1>1 DEF Client, CallAdd, CallGet, CallDelete, CallClosed, CallAll, Call,
                Cancel, table
  <2>2. pc'[t] = pc[t] \/ pc'[t] \in {"add_read", "check"}
    BY <1>1 DEF Client, CallAdd, CallGet, CallDelete, CallClosed, CallAll, Call,
                Cancel
  <2> QED
    BY <2>1, <2>2 DEF HoldsLive, Alive, Succ, Position
<1>2. CASE DataRace(t) \/ Dangling(t) \/ ClosedOverflow(t)
  BY <1>2 DEF DataRace, Dangling, ClosedOverflow, Undefined, locals, table, HoldsLive,
              Alive, Succ, Position
<1>3. CASE CheckCancelled(t) \/ Reply(t) \/ AddRead(t) \/ AddCancelled(t) \/ AddEnd(t)
           \/ AddCount(t) \/ AddFind(t)
  <2>1. pc'[t] \in Labels \ {"add_fill", "get_copy", "del_unlink", "closed_body",
                             "closed_next", "all_step"}
    BY <1>3 DEF CheckCancelled, Reply, AddRead, AddCancelled, AddEnd, AddCount,
                AddFind, AddError, Return, Labels
  <2> QED
    BY <2>1 DEF HoldsLive
<1>4. CASE AddLink(t)
  <2>1. PICK p \in Ptr \ DOMAIN heap :
           /\ Link(p, [id |-> key[t], state |-> "_ESTABLISHED"])
           /\ r' = [r EXCEPT ![t] = p]
    BY <1>4 DEF AddLink
  <2>2. pc'[t] = "add_fill" /\ r'[t] = p /\ p \in DOMAIN heap'
    BY <1>4, <2>1 DEF AddLink, Link
  <2> QED
    BY <2>2 DEF HoldsLive, Alive
<1>5. CASE AddFill(t) \/ GetCopy(t) \/ DelUnlink(t)
  <2>1. pc'[t] \in {"add_read", "reply"}
    BY <1>5 DEF AddFill, GetCopy, DelUnlink, Return
  <2> QED
    BY <2>1 DEF HoldsLive
<1>6. CASE GetFind(t) \/ DelFind(t)
  <2>1. heap' = heap
    BY <1>6 DEF GetFind, DelFind, Find, table
  <2>2. \/ pc'[t] = "reply"
        \/ pc'[t] \in {"get_copy", "del_unlink"} /\ Alive(r'[t])
    BY <1>6 DEF GetFind, DelFind, Find, Found, Return
  <2> QED
    BY <2>1, <2>2 DEF HoldsLive, Alive
<1>7. CASE ClosedBegin(t)
  <2>1. heap' = heap /\ sessions' = sessions
    BY <1>7 DEF ClosedBegin, table
  <2>2. \/ pc'[t] \in {"reply", "closed_write"}
        \/ /\ pc'[t] = "closed_body" /\ r'[t] = First /\ tmp'[t] = Succ(First)
           /\ sessions # <<>>
    BY <1>7 DEF ClosedBegin, ClosedScanned, Return
  <2>3. sessions # <<>> => Alive(First)
    <3>1. sessions # <<>> => 1 \in DOMAIN sessions
      BY DEF TableOK
    <3> QED
      BY <3>1 DEF First, Alive, TableOK, ListOK, Range
  <2> QED
    BY <2>1, <2>2, <2>3 DEF HoldsLive, Alive, Succ, Position
<1>8. CASE ClosedSkip(t)
  <2>1. heap' = heap /\ tmp' = tmp /\ pc'[t] = "closed_next"
    BY <1>8 DEF ClosedSkip, table
  <2>2. tmp[t] = NULL \/ Alive(tmp[t])
    BY <1>8, SuccIsAnother DEF ClosedSkip, HoldsLive, Alive
  <2> QED
    BY <2>1, <2>2 DEF HoldsLive, Alive
<1>9. CASE ClosedTake(t)
  <2>1. \/ pc'[t] \in {"reply", "closed_write"}
        \/ pc'[t] = "closed_next" /\ tmp' = tmp
    BY <1>9 DEF ClosedTake, ClosedScanned, Return
  <2>2. DOMAIN heap' = DOMAIN heap \ {r[t]}
    BY <1>9 DEF ClosedTake, UnlinkAndFree
  <2>3. tmp[t] = NULL \/ tmp[t] \in DOMAIN heap \ {r[t]}
    BY <1>9, SuccIsAnother DEF ClosedTake, HoldsLive, Alive
  <2> QED
    BY <2>1, <2>2, <2>3 DEF HoldsLive, Alive
<1>10. CASE ClosedNext(t)
  <2>1. heap' = heap /\ sessions' = sessions
    BY <1>10 DEF ClosedNext, table
  <2>2. \/ pc'[t] \in {"reply", "closed_write"}
        \/ /\ pc'[t] = "closed_body" /\ Alive(tmp[t])
           /\ r'[t] = tmp[t] /\ tmp'[t] = Succ(tmp[t])
    BY <1>10 DEF ClosedNext, ClosedScanned, Return
  <2> QED
    BY <2>1, <2>2 DEF HoldsLive, Alive, Succ, Position
<1>11. CASE ClosedWrite(t)
  <2>1. pc'[t] \in {"reply", "closed_write"}
    BY <1>11 DEF ClosedWrite, Return
  <2> QED
    BY <2>1 DEF HoldsLive
<1>12. CASE AllBegin(t)
  <2>1. pc'[t] \in {"reply", "all_step"} /\ out'[t] = <<>>
    BY <1>12 DEF AllBegin, Return, CallsOK, CallOK
  <2> QED
    BY <2>1 DEF HoldsLive
<1>13. CASE AllStep(t)
  <2>1. heap' = heap
    BY <1>13 DEF AllStep
  <2>2. \/ pc'[t] = "reply"
        \/ pc'[t] = "all_step" /\ r'[t] = Succ(r[t]) /\ Succ(r[t]) # NULL
    BY <1>13 DEF AllStep, PageEnds, Return
  <2>3. Succ(r[t]) = NULL \/ Alive(Succ(r[t]))
    BY <1>13, SuccIsAnother DEF AllStep, Alive
  <2> QED
    BY <2>1, <2>2, <2>3 DEF HoldsLive, Alive
<1> QED
  BY <1>1, <1>2, <1>3, <1>4, <1>5, <1>6, <1>7, <1>8, <1>9, <1>10, <1>11, <1>12, <1>13
     DEF Run, AddStep, ClosedStep

\* The one thread meets no data race, and follows a freed record only where a page
\* of a listing begins.
LEMMA DanglesInductive ==
    ASSUME OneThread, BaseInv, OnlyPagingDangles, \A t \in Threads : HoldsLive(t),
           [Next]_vars
    PROVE  OnlyPagingDangles' /\ \A t \in Threads : HoldsLive(t)'
<1>1. CASE UNCHANGED vars \/ Halted
  BY <1>1 DEF OnlyPagingDangles, HoldsLive, Alive, Succ, Position, Halted, vars, table,
              locals
<1>2. ASSUME NEW t \in Threads, Client(t) \/ Run(t) \/ DataRace(t)
      PROVE  OnlyPagingDangles' /\ \A u \in Threads : HoldsLive(u)'
  <2>1. \A u \in Threads : HoldsLive(u)'
    <3>1. HoldsLive(t)'
      BY <1>2, HoldsLiveInductive
    <3> QED
      BY <3>1 DEF OneThread
  <2>2. ~DataRace(t)
    BY DEF DataRace, OneThread
  <2>3. ASSUME Dangling(t)
        PROVE  OnlyPagingDangles'
    <3>1. pc[t] = "all_step" /\ out[t] = <<>>
      BY <2>3 DEF Dangling, HoldsLive
    <3> QED
      BY <2>3, <3>1 DEF Dangling, Undefined, locals, OnlyPagingDangles
  <2>4. ASSUME ~Dangling(t)
        PROVE  ub' \in {"none", "overflow"}
    <3> USE DEF At
    <3>1. CASE Client(t)
      BY <3>1 DEF Client, CallAdd, CallGet, CallDelete, CallClosed, CallAll, Call,
                  Cancel
    <3>2. CASE CheckCancelled(t) \/ Reply(t) \/ AllBegin(t) \/ AllStep(t)
      BY <3>2 DEF CheckCancelled, Reply, AllBegin, AllStep
    <3>3. CASE AddStep(t)
      BY <3>3 DEF AddStep, AddRead, AddCancelled, AddEnd, AddCount, AddFind, AddLink,
                  AddFill
    <3>4. CASE GetFind(t) \/ GetCopy(t) \/ DelFind(t) \/ DelUnlink(t)
      BY <3>4 DEF GetFind, GetCopy, DelFind, DelUnlink, Find
    <3>5. CASE ClosedStep(t)
      BY <3>5 DEF ClosedStep, ClosedBegin, ClosedSkip, ClosedTake, ClosedOverflow,
                  ClosedNext, ClosedWrite, Undefined
    <3> QED
      BY <1>2, <2>2, <2>4, <3>1, <3>2, <3>3, <3>4, <3>5 DEF Run
  <2>5. CASE ~Dangling(t)
    <3>1. ub' \in {"none", "overflow"}
      BY <2>4, <2>5
    <3>2. ub' # "race" /\ ub' # "dangling"
      BY <3>1
    <3> QED
      BY <2>1, <3>2 DEF OnlyPagingDangles
  <2> QED
    BY <2>1, <2>3, <2>5
<1> QED
  BY <1>1, <1>2 DEF Next

\* When calls come one at a time, the handlers never race and never follow a freed
\* record, but where getAllSessions goes on from the static start it kept.
THEOREM OnlyPagingDanglesSerial ==
    ASSUME OneThread
    PROVE  Spec => []OnlyPagingDangles
<1> DEFINE AllHold == \A t \in Threads : HoldsLive(t)
<1>1. Init => OnlyPagingDangles /\ AllHold
  BY DEF Init, ThreadsIdle, OnlyPagingDangles, HoldsLive
<1>2. BaseInv /\ OnlyPagingDangles /\ AllHold /\ [Next]_vars
        => OnlyPagingDangles' /\ AllHold'
  BY OneThread, DanglesInductive
<1> QED
  BY <1>1, <1>2, BaseInvariance, PTL DEF Spec

=============================================================================
