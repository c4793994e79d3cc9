---------------------------- MODULE SessionStoreProofs ----------------------------
(***************************************************************************)
(* With one thread the session table server implements SessionStore: what  *)
(* the invariants of SessionServerProofs leave to show of a thread that    *)
(* serves its calls alone, and then the refinement, action by action.      *)
(***************************************************************************)
EXTENDS SessionServerProofs

-----------------------------------------------------------------------------
(* A thread that is alone. *)

\* The entries of the page so far are the records from the static start on, the
\* i-th of the list, up to the record in hand.
Listed(t, i) ==
    /\ start = sessions[i]
    /\ i + Len(out[t]) \in DOMAIN sessions
    /\ r[t] = sessions[i + Len(out[t])]
    /\ \A j \in 1 .. Len(out[t]) :
          out[t][j] = [id |-> heap[sessions[i + j - 1]].id, what |-> "_CLOSED"]

\* A page begins at a record that may be freed, and goes on from there.
PageSoFar(t) ==
    \/ out[t] = <<>> /\ r[t] = start /\ start # NULL /\ ~Alive(start)
    \/ \E i \in DOMAIN sessions : Listed(t, i)

\* What was checked or found a step ago still holds, and a scan that takes the
\* sessions one by one is always at the first of those that are left.
ServesAlone(t) ==
    /\ pc[t] \in {"add_find", "add_link"} => Len(sessions) <= HASHTABLE_SIZE
    /\ pc[t] \in {"get_find", "get_copy", "del_find", "del_unlink"} => out[t] = <<>>
    /\ pc[t] \in {"get_copy", "del_unlink"} => heap[r[t]].id = key[t]
    /\ pc[t] = "closed_body" => r[t] = First
    /\ pc[t] = "closed_next" => tmp[t] = First
    /\ pc[t] \in {"closed_body", "closed_next"} /\ size[t] \in 1 .. BUFFER_MAX =>
          Len(out[t]) < size[t]
    /\ pc[t] = "all_step" => PageSoFar(t)

\* Between calls, and in every handler but addSession, all records are _CLOSED.
LEMMA AllClosed ==
    ASSUME OneThread, TableOK, NoStuckSession, NEW t \in Threads, pc[t] # "add_fill",
           NEW p \in DOMAIN heap
    PROVE  heap[p].state = "_CLOSED"
BY DEF OneThread, NoStuckSession, TableOK, Record, State

\* One more record is listed: the one in hand.
LEMMA ListedGrows ==
    ASSUME BaseInv, NEW t \in Threads, NEW i \in DOMAIN sessions, Listed(t, i),
           heap[r[t]].state = "_CLOSED", NEW entry, entry \in Entry,
           entry = [id |-> heap[r[t]].id, what |-> heap[r[t]].state]
    PROVE  \A j \in 1 .. Len(out[t]) + 1 :
              Append(out[t], entry)[j]
                = [id |-> heap[sessions[i + j - 1]].id, what |-> "_CLOSED"]
<1>1. out[t] \in Seq(Entry) /\ Len(out[t]) \in Nat /\ i \in Nat
  BY DEF BaseInv, LocalsOK, TableOK
<1>2. \A j \in 1 .. Len(out[t]) + 1 :
        Append(out[t], entry)[j] = IF j <= Len(out[t]) THEN out[t][j] ELSE entry
  BY <1>1
<1>3. ASSUME NEW j \in 1 .. Len(out[t]) + 1
      PROVE  Append(out[t], entry)[j]
               = [id |-> heap[sessions[i + j - 1]].id, what |-> "_CLOSED"]
  <2>1. CASE j <= Len(out[t])
    <3>1. j \in 1 .. Len(out[t])
      BY <1>1, <2>1
    <3> QED
      BY <1>2, <3>1 DEF Listed
  <2>2. CASE j = Len(out[t]) + 1
    <3>1. i + j - 1 = i + Len(out[t])
      BY <1>1, <2>2
    <3>2. Append(out[t], entry)[j] = entry
      BY <1>1, <1>2, <2>2
    <3> QED
      BY <3>1, <3>2 DEF Listed
  <2> QED
    BY <1>1, <2>1, <2>2
<1> QED
  BY <1>3

\* What the handlers of a lone thread rely on survives each of its steps.
LEMMA AloneInductive ==
    ASSUME OneThread, BaseInv, BufferInv, NoStuckSession, NEW t \in Threads,
           HoldsLive(t), ServesAlone(t), Client(t) \/ Run(t) \/ DataRace(t)
    PROVE  ServesAlone(t)'
<1> USE DEF BaseInv, LocalsOK, At, Goto
<1>1. CASE Client(t)
  <2>1. /\ heap' = heap /\ sessions' = sessions /\ start' = start /\ out' = out
        /\ r' = r /\ tmp' = tmp
    BY <1>1 DEF Client, CallAdd, CallGet, CallDelete, CallClosed, CallAll, Call,
                Cancel, table
  <2>2. \/ pc'[t] \in {"add_read", "check"}
        \/ pc'[t] = pc[t] /\ key'[t] = key[t] /\ size'[t] = size[t]
    BY <1>1 DEF Client, CallAdd, CallGet, CallDelete, CallClosed, CallAll, Call,
                Cancel
  <2> QED
    BY <2>1, <2>2 DEF ServesAlone, First, PageSoFar, Listed, Alive
<1>2. CASE DataRace(t) \/ Dangling(t) \/ ClosedOverflow(t)
  <2>1. /\ heap' = heap /\ sessions' = sessions /\ start' = start /\ out' = out
        /\ r' = r /\ tmp' = tmp /\ pc' = pc /\ key' = key /\ size' = size
    BY <1>2 DEF DataRace, Dangling, ClosedOverflow, Undefined, locals, table
  <2> QED
    BY <2>1 DEF ServesAlone, First, PageSoFar, Listed, Alive
<1>3. CASE CheckCancelled(t)
  <2>1. pc'[t] \in {"reply", "get_find", "del_find", "closed_begin", "all_begin"}
    BY <1>3 DEF CheckCancelled, Return
  <2>2. out'[t] = <<>>
    BY <1>3 DEF CheckCancelled, CallsOK, CallOK
  <2> QED
    BY <2>1, <2>2 DEF ServesAlone
<1>4. CASE \/ Reply(t) \/ AddRead(t) \/ AddCancelled(t) \/ AddEnd(t) \/ AddLink(t)
           \/ AddFill(t) \/ GetCopy(t) \/ DelUnlink(t) \/ ClosedWrite(t)
  <2>1. pc'[t] \in {"idle", "add_count", "reply", "add_fill", "add_read",
                    "closed_write"}
    BY <1>4 DEF Reply, AddRead, AddCancelled, AddEnd, AddLink, AddFill, GetCopy,
                DelUnlink, ClosedWrite, Return
  <2> QED
    BY <2>1 DEF ServesAlone
<1>5. CASE AddCount(t)
  <2>1. \/ pc'[t] = "add_read"
        \/ pc'[t] = "add_find" /\ ~TableFull
    BY <1>5 DEF AddCount, AddError
  <2>2. ~TableFull => Len(sessions) <= HASHTABLE_SIZE
    BY SizeAssumption DEF TableFull, TableOK
  <2>3. sessions' = sessions
    BY <1>5 DEF AddCount, table
  <2> QED
    BY <2>1, <2>2, <2>3 DEF ServesAlone
<1>6. CASE AddFind(t)
  <2>1. pc'[t] \in {"add_read", "add_link"} /\ sessions' = sessions
    BY <1>6 DEF AddFind, AddError, table
  <2> QED
    BY <1>6, <2>1 DEF ServesAlone, AddFind
<1>7. CASE GetFind(t) \/ DelFind(t)
  <2>1. heap' = heap /\ out' = out /\ key' = key /\ out[t] = <<>>
    BY <1>7 DEF GetFind, DelFind, Find, table, ServesAlone
  <2>2. \/ pc'[t] = "reply"
        \/ pc'[t] \in {"get_copy", "del_unlink"} /\ heap[r'[t]].id = key[t]
    BY <1>7 DEF GetFind, DelFind, Find, Found, Return
  <2> QED
    BY <2>1, <2>2 DEF ServesAlone
<1>8. CASE ClosedBegin(t)
  <2>1. /\ heap' = heap /\ sessions' = sessions /\ size' = size /\ out' = out
        /\ out[t] = <<>>
    BY <1>8 DEF ClosedBegin, table, CallsOK, CallOK
  <2>2. \/ pc'[t] \in {"reply", "closed_write"}
        \/ pc'[t] = "closed_body" /\ r'[t] = First
    BY <1>8 DEF ClosedBegin, ClosedScanned, Return
  <2>3. size[t] \in 1 .. BUFFER_MAX => Len(out'[t]) < size'[t]
    BY <2>1
  <2> QED
    BY <2>1, <2>2, <2>3 DEF ServesAlone, First
<1>9. ~ClosedSkip(t)
  BY AllClosed DEF ClosedSkip, Alive
<1>10. CASE ClosedTake(t)
  <2>1. r[t] = First /\ tmp[t] = Succ(First) /\ sessions # <<>>
    BY <1>10, PtrAssumption DEF ClosedTake, ServesAlone, HoldsLive, First, Alive, TableOK
  <2>2. Succ(First) = First'
    BY <1>10, <2>1, TakeFirst DEF ClosedTake
  <2>3. \/ pc'[t] \in {"reply", "closed_write"}
        \/ pc'[t] = "closed_next" /\ tmp' = tmp /\ Len(out'[t]) # size[t]
    BY <1>10 DEF ClosedTake, ClosedScanned, Return
  <2>4. size' = size /\ Len(out'[t]) = Len(out[t]) + 1 /\ Len(out[t]) \in Nat
    BY <1>10 DEF ClosedTake
  <2>5. size[t] \in 1 .. BUFFER_MAX => Len(out[t]) < size[t]
    BY <1>10 DEF ClosedTake, ServesAlone
  <2>6. size[t] \in 1 .. BUFFER_MAX /\ Len(out'[t]) # size[t] => Len(out'[t]) < size'[t]
    BY <2>4, <2>5
  <2> QED
    BY <2>1, <2>2, <2>3, <2>4, <2>6 DEF ServesAlone
<1>11. CASE ClosedNext(t)
  <2>1. heap' = heap /\ sessions' = sessions /\ size' = size /\ out' = out
    BY <1>11 DEF ClosedNext, table
  <2>2. \/ pc'[t] \in {"reply", "closed_write"}
        \/ pc'[t] = "closed_body" /\ r'[t] = tmp[t]
    BY <1>11 DEF ClosedNext, ClosedScanned, Return
  <2>3. /\ tmp[t] = First
        /\ size[t] \in 1 .. BUFFER_MAX => Len(out[t]) < size[t]
    BY <1>11 DEF ClosedNext, ServesAlone
  <2> QED
    BY <2>1, <2>2, <2>3 DEF ServesAlone, First
<1>12. CASE AllBegin(t)
  <2>1. /\ heap' = heap /\ sessions' = sessions /\ out' = out /\ out[t] = <<>>
        /\ start' \in Ptr \cup {NULL}
    <3>1. First \in Ptr \cup {NULL}
      BY PointersTyped
    <3> QED
      BY <1>12, <3>1 DEF AllBegin, CallsOK, CallOK
  <2>2. \/ pc'[t] = "reply"
        \/ pc'[t] = "all_step" /\ r'[t] = start' /\ start' # NULL
    BY <1>12 DEF AllBegin, Return
  <2>3. CASE pc'[t] = "all_step" /\ Alive(start')
    <3>1. PICK i \in DOMAIN sessions : sessions[i] = start'
      BY <2>3 DEF Alive, TableOK, ListOK, Range
    <3>2. i + Len(out'[t]) = i
      BY <2>1, <3>1 DEF TableOK
    <3>3. Listed(t, i)'
      BY <2>1, <2>2, <2>3, <3>1, <3>2 DEF Listed
    <3> QED
      BY <2>1, <2>3, <3>1, <3>3 DEF ServesAlone, PageSoFar
  <2>4. CASE pc'[t] = "all_step" /\ ~Alive(start')
    BY <2>1, <2>2, <2>4 DEF ServesAlone, PageSoFar, Alive
  <2>5. CASE pc'[t] = "reply"
    BY <2>5 DEF ServesAlone
  <2> QED
    BY <2>2, <2>3, <2>4, <2>5
<1>13. CASE AllStep(t)
  <2>1. CASE pc'[t] = "reply"
    BY <2>1 DEF ServesAlone
  <2>2. CASE ~PageEnds(t)
    <3>1. /\ heap' = heap /\ sessions' = sessions /\ start' = start
          /\ r'[t] = Succ(r[t]) /\ pc' = pc /\ Alive(r[t]) /\ Succ(r[t]) # NULL
      BY <1>13, <2>2 DEF AllStep, PageEnds
    <3>2. PICK i \in DOMAIN sessions : Listed(t, i)
      BY <1>13, <3>1 DEF AllStep, ServesAlone, PageSoFar
    <3> DEFINE m == i + Len(out[t])
               entry == [id |-> heap[r[t]].id, what |-> heap[r[t]].state]
    <3>3. m \in DOMAIN sessions /\ sessions[m] = r[t]
      BY <3>2 DEF Listed
    <3>4. m < Len(sessions) /\ r'[t] = sessions[m + 1]
      BY <3>1, <3>3, PositionIsUnique
    <3>5. heap[r[t]].state = "_CLOSED"
      BY <1>13, <3>1, AllClosed DEF AllStep, Alive
    <3>6. entry \in Entry
      BY <3>1 DEF Entry, TableOK, Record, Alive
    <3>7. out'[t] = Append(out[t], entry)
      BY <1>13 DEF AllStep
    <3>8. Len(out'[t]) = Len(out[t]) + 1 /\ Len(out[t]) \in Nat
      BY <3>6, <3>7
    <3>9. i + Len(out'[t]) = m + 1 /\ m + 1 \in DOMAIN sessions
      <4>1. i \in Nat /\ Len(sessions) \in Nat /\ DOMAIN sessions = 1 .. Len(sessions)
        BY DEF TableOK
      <4>2. m \in Nat /\ m + 1 \in 1 .. Len(sessions)
        BY <3>3, <3>4, <4>1
      <4>3. i + (Len(out[t]) + 1) = m + 1
        BY <3>8, <4>1
      <4> HIDE DEF m
      <4> QED
        BY <3>8, <4>1, <4>2, <4>3
    <3>10. \A j \in 1 .. Len(out[t]) + 1 :
             Append(out[t], entry)[j]
               = [id |-> heap[sessions[i + j - 1]].id, what |-> "_CLOSED"]
      BY <3>2, <3>5, <3>6, ListedGrows
    <3> HIDE DEF m, entry
    <3>11. Listed(t, i)'
      BY <3>1, <3>2, <3>4, <3>7, <3>8, <3>9, <3>10 DEF Listed
    <3> QED
      BY <1>13, <3>1, <3>2, <3>11 DEF ServesAlone, PageSoFar, AllStep
  <2> QED
    BY <1>13, <2>1, <2>2 DEF AllStep, Return
<1> QED
  BY <1>1, <1>2, <1>3, <1>4, <1>5, <1>6, <1>7, <1>8, <1>9, <1>10, <1>11, <1>12, <1>13
     DEF Run, AddStep, ClosedStep

-----------------------------------------------------------------------------
(* The refinement mapping. *)

\* The store changes only with the table and the page start.
LEMMA SameTableSameStore ==
    ASSUME sessions' = sessions, heap' = heap, start' = start
    PROVE  StoreIds' = StoreIds /\ StoreCursor' = StoreCursor
BY DEF StoreIds, StoreCursor, Alive

\* The store holds the ids of the live records, in the order of the list.
LEMMA StoreOfTable ==
    ASSUME TableOK
    PROVE  /\ DOMAIN StoreIds = DOMAIN sessions
           /\ StoreIds \in Seq(Ids) /\ Len(StoreIds) = Len(sessions)
           /\ \A i \in DOMAIN sessions : StoreIds[i] = heap[sessions[i]].id
           /\ Range(StoreIds) = {heap[p].id : p \in DOMAIN heap}
           /\ StoreIds = <<>> <=> sessions = <<>>
<1>1. /\ Len(sessions) \in Nat /\ DOMAIN sessions = 1 .. Len(sessions)
      /\ DOMAIN StoreIds = DOMAIN sessions
      /\ \A i \in DOMAIN sessions : StoreIds[i] = heap[sessions[i]].id
  BY DEF TableOK, StoreIds
<1>2. \A i \in DOMAIN sessions : sessions[i] \in DOMAIN heap
  BY PositionIsUnique
<1>3. \A p \in DOMAIN heap : heap[p].id \in Ids
  BY DEF TableOK, Record
<1>4. StoreIds \in [1 .. Len(sessions) -> Ids]
  <2>1. \A i \in 1 .. Len(sessions) : heap[sessions[i]].id \in Ids
    BY <1>1, <1>2, <1>3
  <2> QED
    BY <1>1, <2>1 DEF StoreIds
<1>5. StoreIds \in Seq(Ids) /\ Len(StoreIds) = Len(sessions)
  BY <1>1, <1>4
<1>6. Range(StoreIds) = {heap[p].id : p \in DOMAIN heap}
  <2>1. ASSUME NEW x \in Range(StoreIds)
        PROVE  x \in {heap[p].id : p \in DOMAIN heap}
    <3>1. PICK i \in DOMAIN sessions : x = heap[sessions[i]].id
      BY <1>1, <2>1 DEF Range
    <3> QED
      BY <1>2, <3>1
  <2>2. ASSUME NEW p \in DOMAIN heap
        PROVE  heap[p].id \in Range(StoreIds)
    <3>1. PICK i \in DOMAIN sessions : sessions[i] = p
      BY DEF TableOK, ListOK, Range
    <3> QED
      BY <1>1, <3>1 DEF Range
  <2> QED
    BY <2>1, <2>2
<1>7. StoreIds = <<>> <=> sessions = <<>>
  <2>1. StoreIds = <<>> <=> Len(StoreIds) = 0
    BY <1>5
  <2>2. sessions = <<>> <=> Len(sessions) = 0
    BY DEF TableOK
  <2> QED
    BY <1>5, <2>1, <2>2
<1> QED
  BY <1>1, <1>5, <1>6, <1>7

\* With one thread a variable of the store is set by its one entry.
LEMMA OneEntry ==
    ASSUME OneThread, NEW t \in Threads
    PROVE  /\ StorePhases[t] = StorePhase(t)
           /\ StoreKeys[t] = IF pc[t] = "add_fill" THEN 0 ELSE key[t]
           /\ StoreAnswers[t] = IF pc[t] = "all_step" THEN <<>> ELSE out[t]
           /\ StoreKeys'[t] = IF pc'[t] = "add_fill" THEN 0 ELSE key'[t]
           /\ StoreAnswers'[t] = IF pc'[t] = "all_step" THEN <<>> ELSE out'[t]
           /\ StorePhases' = [StorePhases EXCEPT ![t] = StorePhase(t)']
           /\ StoreKeys' = [StoreKeys EXCEPT ![t] = StoreKeys'[t]]
           /\ StoreAnswers' = [StoreAnswers EXCEPT ![t] = StoreAnswers'[t]]
           /\ StorePhase(t)' = StorePhase(t) => StorePhases' = StorePhases
           /\ StoreKeys'[t] = StoreKeys[t] => StoreKeys' = StoreKeys
           /\ StoreAnswers'[t] = StoreAnswers[t] => StoreAnswers' = StoreAnswers
<1>1. \A u \in Threads : u = t
  BY DEF OneThread
<1>2. /\ StorePhases' = [StorePhases EXCEPT ![t] = StorePhase(t)']
      /\ StorePhases[t] = StorePhase(t)
      /\ StorePhase(t)' = StorePhase(t) => StorePhases' = StorePhases
  BY <1>1 DEF StorePhases
<1>3. /\ StoreKeys[t] = IF pc[t] = "add_fill" THEN 0 ELSE key[t]
      /\ StoreKeys'[t] = IF pc'[t] = "add_fill" THEN 0 ELSE key'[t]
      /\ StoreKeys' = [StoreKeys EXCEPT ![t] = StoreKeys'[t]]
      /\ StoreKeys'[t] = StoreKeys[t] => StoreKeys' = StoreKeys
  BY <1>1 DEF StoreKeys
<1>4. /\ StoreAnswers[t] = IF pc[t] = "all_step" THEN <<>> ELSE out[t]
      /\ StoreAnswers'[t] = IF pc'[t] = "all_step" THEN <<>> ELSE out'[t]
      /\ StoreAnswers' = [StoreAnswers EXCEPT ![t] = StoreAnswers'[t]]
      /\ StoreAnswers'[t] = StoreAnswers[t] => StoreAnswers' = StoreAnswers
  BY <1>1 DEF StoreAnswers
<1> QED
  BY <1>2, <1>3, <1>4

\* What the store does not see.
LEMMA Stutters ==
    ASSUME OneThread, NEW t \in Threads,
           UNCHANGED <<sessions, start, op, size, status, ub>>, StoreIds' = StoreIds,
           StoreCursor' = StoreCursor, StorePhase(t)' = StorePhase(t),
           StoreKeys'[t] = StoreKeys[t], StoreAnswers'[t] = StoreAnswers[t]
    PROVE  UNCHANGED Store!vars
BY OneEntry DEF Store!vars

-----------------------------------------------------------------------------
(* Each step is a step of the store, or none. *)

\* Calls, cancellations, and answers sent.
LEMMA CallRefines ==
    ASSUME OneThread, BaseInv, NEW t \in Threads,
           Client(t) \/ CheckCancelled(t) \/ Reply(t)
    PROVE  \/ Store!Call(t) \/ Store!Abandon(t) \/ Store!Clear(t)
           \/ UNCHANGED Store!vars
<1> USE DEF BaseInv, LocalsOK, At, Goto
<1>0. sessions' = sessions /\ heap' = heap /\ start' = start /\ ub = "none" /\ ub' = ub
  BY DEF Client, CallAdd, CallGet, CallDelete, CallClosed, CallAll, Call, Cancel,
         CheckCancelled, Reply, table
<1>1. StoreIds' = StoreIds /\ StoreCursor' = StoreCursor
  BY <1>0, SameTableSameStore
<1>2. ASSUME NEW o \in Ops, NEW k \in {0} \cup Ids \cup StartKeys,
             NEW n \in {0} \cup PageSizes \cup BatchSizes, Call(t, o, k, n)
      PROVE  Store!Call(t)
  <2>1. pc[t] = "idle" /\ pc'[t] \in {"add_read", "check"}
    BY <1>2 DEF Call
  <2>2. StorePhase(t) = "idle" /\ StorePhase(t)' = "busy"
    BY <2>1 DEF StorePhase
  <2>3. /\ op' = [op EXCEPT ![t] = o] /\ key'[t] = k /\ size' = [size EXCEPT ![t] = n]
        /\ out' = out /\ status' = status
    BY <1>2 DEF Call
  <2>4. StoreKeys'[t] = k /\ StoreAnswers'[t] = StoreAnswers[t]
    BY <2>1, <2>3, OneEntry
  <2>5. StorePhases[t] = "idle" /\ StorePhases' = [StorePhases EXCEPT ![t] = "busy"]
    BY <2>2, OneEntry
  <2>6. StoreKeys' = [StoreKeys EXCEPT ![t] = k] /\ StoreAnswers' = StoreAnswers
    BY <2>4, OneEntry
  <2>7. \/ op' = [op EXCEPT ![t] = "add"] \/ op' = [op EXCEPT ![t] = "get"]
        \/ op' = [op EXCEPT ![t] = "del"] \/ op' = [op EXCEPT ![t] = "closed"]
        \/ op' = [op EXCEPT ![t] = "all"]
    BY <2>3 DEF Ops
  <2> QED
    BY <1>0, <1>1, <2>3, <2>5, <2>6, <2>7 DEF Store!Call, Store!Become
<1>3. CASE CallAdd(t) \/ CallGet(t) \/ CallDelete(t) \/ CallClosed(t) \/ CallAll(t)
  BY <1>2, <1>3 DEF CallAdd, CallGet, CallDelete, CallClosed, CallAll, Ops
<1>4. CASE Cancel(t)
  <2>1. pc' = pc /\ op' = op /\ key' = key /\ size' = size /\ out' = out /\ status' = status
    BY <1>4 DEF Cancel
  <2>2. StorePhase(t)' = StorePhase(t)
    BY <2>1 DEF StorePhase
  <2> QED
    BY <1>0, <1>1, <2>1, <2>2, OneEntry, Stutters
<1>5. CASE CheckCancelled(t)
  <2>1. /\ pc[t] = "check" /\ op' = op /\ key' = key /\ size' = size /\ out' = out
        /\ out[t] = <<>>
    BY <1>5 DEF CheckCancelled, CallsOK, CallOK
  <2>2. StorePhase(t) = "busy"
    BY <2>1 DEF StorePhase
  <2>3. CASE cancelled[t]
    <3>1. pc'[t] = "reply" /\ status' = [status EXCEPT ![t] = "CANCELLED"]
      BY <1>5, <2>3 DEF CheckCancelled, Return
    <3>2. StorePhase(t)' = "done"
      BY <3>1 DEF StorePhase
    <3>3. /\ StorePhases[t] = "busy" /\ StorePhases' = [StorePhases EXCEPT ![t] = "done"]
          /\ StoreKeys' = StoreKeys /\ StoreAnswers' = StoreAnswers
          /\ StoreAnswers[t] = <<>>
      BY <2>1, <2>2, <3>1, <3>2, OneEntry
    <3> QED
      BY <1>0, <1>1, <2>1, <3>1, <3>3
         DEF Store!Abandon, Store!Finish, Store!Become, Store!request
  <2>4. CASE ~cancelled[t]
    <3>1. /\ pc'[t] \in {"get_find", "del_find", "closed_begin", "all_begin"}
          /\ status' = status
      BY <1>5, <2>4 DEF CheckCancelled
    <3>2. StorePhase(t)' = "busy"
      BY <3>1 DEF StorePhase
    <3> QED
      BY <1>0, <1>1, <2>1, <2>2, <3>1, <3>2, OneEntry, Stutters
  <2> QED
    BY <2>3, <2>4
<1>6. CASE Reply(t)
  <2>1. /\ pc[t] = "reply" /\ pc'[t] = "idle" /\ op' = [op EXCEPT ![t] = "none"]
        /\ key'[t] = 0 /\ size' = [size EXCEPT ![t] = 0] /\ out'[t] = <<>>
        /\ status' = [status EXCEPT ![t] = "none"]
    BY <1>6 DEF Reply
  <2>2. StorePhase(t) = "done" /\ StorePhase(t)' = "idle"
    BY <2>1 DEF StorePhase
  <2>3. /\ StorePhases[t] = "done" /\ StorePhases' = [StorePhases EXCEPT ![t] = "idle"]
        /\ StoreKeys' = [StoreKeys EXCEPT ![t] = 0]
        /\ StoreAnswers' = [StoreAnswers EXCEPT ![t] = <<>>]
    BY <2>1, <2>2, OneEntry
  <2> QED
    BY <1>0, <1>1, <2>1, <2>3 DEF Store!Clear, Store!Become
<1> QED
  BY <1>3, <1>4, <1>5, <1>6 DEF Client

\* addSession: each request is entered or refused.
LEMMA AddRefines ==
    ASSUME OneThread, BaseInv, CheckedIdIsNew, NEW t \in Threads, ServesAlone(t),
           AddStep(t)
    PROVE  \/ Store!Receive(t) \/ Store!Abandon(t) \/ Store!EndAdd(t)
           \/ Store!Refuse(t) \/ Store!Accept(t) \/ UNCHANGED Store!vars
<1> USE DEF BaseInv, LocalsOK, At, Goto
<1>0. ub = "none" /\ ub' = ub /\ op' = op /\ op[t] = "add"
  BY DEF AddStep, AddRead, AddCancelled, AddEnd, AddCount, AddFind, AddLink, AddFill,
         CallsOK, CallOK
<1>1. ASSUME sessions' = sessions, heap' = heap, start' = start
      PROVE  StoreIds' = StoreIds /\ StoreCursor' = StoreCursor
  BY <1>1, SameTableSameStore
<1>2. CASE AddRead(t)
  <2>1. PICK id \in Ids : key' = [key EXCEPT ![t] = id]
    BY <1>2 DEF AddRead
  <2>2. /\ pc[t] = "add_read" /\ pc'[t] = "add_count" /\ key'[t] = id /\ size[t] > 0
        /\ size' = [size EXCEPT ![t] = @ - 1] /\ out' = out /\ status' = status
        /\ sessions' = sessions /\ heap' = heap /\ start' = start
    BY <1>2, <2>1 DEF AddRead, table
  <2>3. StorePhase(t) = "busy" /\ StorePhase(t)' = "adding"
    BY <2>2 DEF StorePhase
  <2>4. /\ StorePhases[t] = "busy" /\ StorePhases' = [StorePhases EXCEPT ![t] = "adding"]
        /\ StoreKeys' = [StoreKeys EXCEPT ![t] = id] /\ StoreAnswers' = StoreAnswers
    BY <2>2, <2>3, OneEntry
  <2> QED
    BY <1>0, <1>1, <2>2, <2>4 DEF Store!Receive, Store!In, Store!Become
<1>3. CASE AddCancelled(t) \/ AddEnd(t)
  <2>1. /\ pc[t] = "add_read" /\ pc'[t] = "reply" /\ key' = key
        /\ size' = size /\ out' = out
        /\ sessions' = sessions /\ heap' = heap /\ start' = start
        /\ \/ AddCancelled(t) /\ status' = [status EXCEPT ![t] = "CANCELLED"]
           \/ AddEnd(t) /\ status' = [status EXCEPT ![t] = "OK"]
    BY <1>3 DEF AddCancelled, AddEnd, Return, table
  <2>2. StorePhase(t) = "busy" /\ StorePhase(t)' = "done"
    BY <2>1 DEF StorePhase
  <2>3. /\ StorePhases[t] = "busy" /\ StorePhases' = [StorePhases EXCEPT ![t] = "done"]
        /\ StoreKeys' = StoreKeys /\ StoreAnswers' = StoreAnswers
    BY <2>1, <2>2, OneEntry
  <2> QED
    BY <1>0, <1>1, <2>1, <2>3
       DEF Store!Abandon, Store!EndAdd, Store!In, Store!Finish, Store!Become, Store!request
<1>4. ASSUME NEW error \in Error, AddError(t, error),
             UNCHANGED <<table, op, size, r, tmp, status, cancelled, lost, ub>>,
             pc[t] \in {"add_count", "add_find"},
             \/ error = "_RESOURCE_EXHAUSTED" /\ Len(StoreIds) > HASHTABLE_SIZE
             \/ /\ error = "_ALREADY_EXISTS" /\ Len(StoreIds) <= HASHTABLE_SIZE
                /\ key[t] \in Range(StoreIds)
      PROVE  Store!Refuse(t)
  <2>1. /\ pc'[t] = "add_read" /\ key'[t] = 0 /\ size' = size /\ status' = status
        /\ out'[t] = Append(out[t], [id |-> key[t], what |-> error])
        /\ sessions' = sessions /\ heap' = heap /\ start' = start
    BY <1>4 DEF AddError, table
  <2>2. StorePhase(t) = "adding" /\ StorePhase(t)' = "busy"
    BY <1>4, <2>1 DEF StorePhase
  <2>3. /\ StorePhases[t] = "adding" /\ StorePhases' = [StorePhases EXCEPT ![t] = "busy"]
        /\ StoreKeys[t] = key[t] /\ StoreKeys'[t] = 0
        /\ StoreAnswers[t] = out[t] /\ StoreAnswers'[t] = out'[t]
    BY <1>4, <2>1, <2>2, OneEntry
  <2>4. StoreKeys' = [StoreKeys EXCEPT ![t] = 0]
    BY <2>3, OneEntry
  <2>5. StoreAnswers'[t] = Append(StoreAnswers[t], [id |-> StoreKeys[t], what |-> error])
    BY <2>1, <2>3
  <2>6. StoreAnswers' = [StoreAnswers EXCEPT ![t] =
                            Append(StoreAnswers[t], [id |-> StoreKeys[t], what |-> error])]
    BY <2>5, OneEntry
  <2>7. /\ StoreIds' = StoreIds /\ StoreCursor' = StoreCursor
        /\ key[t] \in Range(StoreIds) => StoreKeys[t] \in Store!Range(StoreIds)
    BY <1>1, <2>1, <2>3 DEF Range, Store!Range
  <2> QED
    BY <1>0, <1>4, <2>1, <2>3, <2>4, <2>6, <2>7
       DEF Store!Refuse, Store!In, Store!Answer, Store!Become
<1>5. ASSUME pc[t] \in {"add_count", "add_find"}, pc'[t] \in {"add_find", "add_link"},
             UNCHANGED <<table, op, size, r, tmp, status, cancelled, lost, ub>>,
             UNCHANGED <<key, out>>
      PROVE  UNCHANGED Store!vars
  <2>1. StorePhase(t)' = StorePhase(t)
    BY <1>5 DEF StorePhase
  <2>2. StoreKeys'[t] = StoreKeys[t] /\ StoreAnswers'[t] = StoreAnswers[t]
    BY <1>5, OneEntry
  <2>3. StoreIds' = StoreIds /\ StoreCursor' = StoreCursor
    BY <1>1, <1>5 DEF table
  <2> QED
    BY <1>5, <2>1, <2>2, <2>3, Stutters DEF table
<1>6. Len(StoreIds) = Len(sessions) /\ Range(StoreIds) = {heap[p].id : p \in DOMAIN heap}
  BY StoreOfTable
<1>7. CASE AddCount(t)
  <2>1. CASE TableFull
    <3>1. AddError(t, "_RESOURCE_EXHAUSTED") /\ Len(StoreIds) > HASHTABLE_SIZE
      BY <1>6, <1>7, <2>1 DEF AddCount, TableFull
    <3> QED
      BY <1>4, <1>7, <3>1 DEF AddCount, Error
  <2>2. CASE ~TableFull
    BY <1>5, <1>7, <2>2 DEF AddCount
  <2> QED
    BY <2>1, <2>2
<1>8. CASE AddFind(t)
  <2>1. CASE Found(key[t]) # {}
    <3>1. AddError(t, "_ALREADY_EXISTS") /\ Len(StoreIds) <= HASHTABLE_SIZE
      BY <1>6, <1>8, <2>1 DEF AddFind, ServesAlone
    <3>2. key[t] \in Range(StoreIds)
      BY <1>6, <2>1 DEF Found, Alive
    <3> QED
      BY <1>4, <1>8, <3>1, <3>2 DEF AddFind, Error
  <2>2. CASE Found(key[t]) = {}
    BY <1>5, <1>8, <2>2 DEF AddFind
  <2> QED
    BY <2>1, <2>2
<1>9. CASE AddLink(t)
  <2>1. PICK p \in Ptr \ DOMAIN heap :
           Link(p, [id |-> key[t], state |-> "_ESTABLISHED"])
    BY <1>9 DEF AddLink
  <2>2. /\ pc[t] = "add_link" /\ pc'[t] = "add_fill" /\ key[t] \in Ids
        /\ size' = size /\ out' = out /\ status' = status /\ start' = start
        /\ Len(sessions) <= HASHTABLE_SIZE
        /\ \A q \in DOMAIN heap : heap[q].id # key[t]
    BY <1>9 DEF AddLink, CallsOK, CallOK, ServesAlone, CheckedIdIsNew
  <2>3. StorePhase(t) = "adding" /\ StorePhase(t)' = "busy"
    BY <2>2 DEF StorePhase
  <2>4. /\ StorePhases[t] = "adding" /\ StorePhases' = [StorePhases EXCEPT ![t] = "busy"]
        /\ StoreKeys[t] = key[t] /\ StoreKeys' = [StoreKeys EXCEPT ![t] = 0]
        /\ StoreAnswers' = StoreAnswers
    BY <2>2, <2>3, OneEntry
  <2>5. key[t] \notin Store!Range(StoreIds)
    BY <1>6, <2>2 DEF Range, Store!Range
  <2>6. /\ DOMAIN heap' = DOMAIN heap \cup {p} /\ heap'[p].id = key[t]
        /\ \A q \in DOMAIN heap : heap'[q] = heap[q]
    BY <2>1 DEF Link
  <2>7. StoreIds' = Append(StoreIds, key[t])
    <3>1. /\ sessions' = Append(sessions, p)
          /\ Len(sessions) \in Nat /\ DOMAIN sessions = 1 .. Len(sessions)
      BY <2>1 DEF Link, TableOK
    <3>2. /\ DOMAIN sessions' = 1 .. Len(sessions) + 1
          /\ \A i \in DOMAIN sessions : sessions'[i] = sessions[i]
          /\ sessions'[Len(sessions) + 1] = p
      BY <3>1 DEF TableOK
    <3>3. /\ DOMAIN StoreIds = DOMAIN sessions
          /\ StoreIds \in Seq(Ids) /\ Len(StoreIds) = Len(sessions)
          /\ \A i \in DOMAIN sessions : StoreIds[i] = heap[sessions[i]].id
      BY StoreOfTable
    <3>4. \A i \in DOMAIN sessions : sessions[i] \in DOMAIN heap
      BY PositionIsUnique
    <3>5. /\ Append(StoreIds, key[t]) \in Seq(Ids)
          /\ Len(Append(StoreIds, key[t])) = Len(sessions) + 1
          /\ \A i \in 1 .. Len(sessions) : Append(StoreIds, key[t])[i] = StoreIds[i]
          /\ Append(StoreIds, key[t])[Len(sessions) + 1] = key[t]
      BY <2>2, <3>1, <3>3
    <3>6. \A i \in 1 .. Len(sessions) + 1 :
             heap'[sessions'[i]].id = Append(StoreIds, key[t])[i]
      <4>1. ASSUME NEW i \in 1 .. Len(sessions)
            PROVE  heap'[sessions'[i]].id = Append(StoreIds, key[t])[i]
        <5>1. i \in DOMAIN sessions
          BY <3>1
        <5>2. sessions'[i] = sessions[i] /\ heap'[sessions[i]] = heap[sessions[i]]
          BY <2>6, <3>2, <3>4, <5>1
        <5>3. Append(StoreIds, key[t])[i] = heap[sessions[i]].id
          BY <3>3, <3>5, <5>1
        <5> QED
          BY <5>2, <5>3
      <4>2. heap'[sessions'[Len(sessions) + 1]].id
              = Append(StoreIds, key[t])[Len(sessions) + 1]
        BY <2>6, <3>2, <3>5
      <4>3. \A i \in 1 .. Len(sessions) + 1 :
               i \in 1 .. Len(sessions) \/ i = Len(sessions) + 1
        BY <3>1
      <4> QED
        BY <4>1, <4>2, <4>3
    <3>7. StoreIds' = [i \in 1 .. Len(sessions) + 1 |-> Append(StoreIds, key[t])[i]]
      BY <3>2, <3>6 DEF StoreIds
    <3> QED
      BY <3>5, <3>7
  <2>8. \/ StoreCursor' = StoreCursor
        \/ StoreCursor = Store!Stale /\ StoreCursor' = Store!AtSession(key[t])
    <3>1. CASE start = p
      BY <2>1, <2>2, <2>6, <3>1, PtrAssumption
         DEF StoreCursor, Alive, Store!Stale, Store!AtSession
    <3>2. CASE start # p
      BY <2>2, <2>6, <3>2 DEF StoreCursor, Alive
    <3> QED
      BY <3>1, <3>2
  <2> QED
    BY <1>0, <1>6, <2>2, <2>4, <2>5, <2>7, <2>8 DEF Store!Accept, Store!In, Store!Become
<1>10. CASE AddFill(t)
  <2>1. /\ pc[t] = "add_fill" /\ pc'[t] = "add_read" /\ key'[t] = 0
        /\ UNCHANGED <<sessions, start, op, size, out, status, ub>>
        /\ heap' = [heap EXCEPT ![r[t]].state = "_CLOSED"] /\ r[t] \in DOMAIN heap
    BY <1>10 DEF AddFill, Alive
  <2>2. StorePhase(t)' = StorePhase(t)
    BY <2>1 DEF StorePhase
  <2>3. /\ DOMAIN heap' = DOMAIN heap
        /\ \A q \in DOMAIN heap : heap'[q].id = heap[q].id
    BY <2>1, FillKeepsTable
  <2>4. StoreIds' = StoreIds
    <3>1. \A i \in DOMAIN sessions : heap'[sessions[i]].id = heap[sessions[i]].id
      BY <2>3, PositionIsUnique
    <3> QED
      BY <2>1, <3>1 DEF StoreIds
  <2>5. StoreCursor' = StoreCursor
    BY <2>1, <2>3 DEF StoreCursor, Alive
  <2>6. StoreKeys'[t] = StoreKeys[t] /\ StoreAnswers'[t] = StoreAnswers[t]
    BY <2>1, OneEntry
  <2> QED
    BY <2>1, <2>2, <2>4, <2>5, <2>6, Stutters
<1> QED
  BY <1>2, <1>3, <1>7, <1>8, <1>9, <1>10 DEF AddStep

\* HASH_DEL and free of a record drop its session, and no other, from the store.
LEMMA UnlinkDrops ==
    ASSUME TableOK, UniqueIds, NEW p \in DOMAIN heap, UnlinkAndFree(p), start' = start
    PROVE  Store!Drop(heap[p].id)
<1> DEFINE k == Position(p)
<1>1. k \in 1 .. Len(sessions) /\ sessions[k] = p
  BY PositionOfLinked DEF TableOK, ListOK
<1>2. /\ sessions' = RemoveAt(sessions, k)
      /\ DOMAIN heap' = DOMAIN heap \ {p}
      /\ \A q \in DOMAIN heap' : heap'[q] = heap[q]
  BY DEF UnlinkAndFree
<1> HIDE DEF k
<1>3. /\ DOMAIN StoreIds = DOMAIN sessions /\ StoreIds \in Seq(Ids)
      /\ Len(StoreIds) = Len(sessions)
      /\ \A i \in DOMAIN sessions : StoreIds[i] = heap[sessions[i]].id
  BY StoreOfTable
<1>4. /\ sessions' \in Seq(Ptr) /\ Len(sessions') = Len(sessions) - 1
      /\ \A j \in 1 .. Len(sessions) - 1 :
           sessions'[j] = IF j < k THEN sessions[j] ELSE sessions[j + 1]
  BY <1>1, <1>2, RemoveAtElements DEF TableOK
<1>5. /\ RemoveAt(StoreIds, k) \in Seq(Ids)
      /\ Len(RemoveAt(StoreIds, k)) = Len(sessions) - 1
      /\ \A j \in 1 .. Len(sessions) - 1 :
           RemoveAt(StoreIds, k)[j] = IF j < k THEN StoreIds[j] ELSE StoreIds[j + 1]
  BY <1>1, <1>3, RemoveAtElements
<1>6. /\ Len(sessions) \in Nat /\ DOMAIN sessions = 1 .. Len(sessions)
      /\ DOMAIN sessions' = 1 .. Len(sessions) - 1
  BY <1>4 DEF TableOK
<1>7. TableOK'
  BY UnlinkKeepsTable
<1>8. \A j \in 1 .. Len(sessions) - 1 : heap'[sessions'[j]].id = RemoveAt(StoreIds, k)[j]
  <2> SUFFICES ASSUME NEW j \in 1 .. Len(sessions) - 1
               PROVE  heap'[sessions'[j]].id = RemoveAt(StoreIds, k)[j]
    OBVIOUS
  <2>1. sessions'[j] \in DOMAIN heap'
    <3>1. sessions'[j] \in Range(sessions')
      BY <1>6 DEF Range
    <3> QED
      BY <1>7, <3>1 DEF TableOK, ListOK
  <2>2. j \in DOMAIN sessions /\ j + 1 \in DOMAIN sessions
    BY <1>6
  <2>3. heap'[sessions'[j]].id = heap[sessions'[j]].id
    BY <1>2, <2>1
  <2>4. CASE j < k
    BY <1>3, <1>4, <1>5, <2>2, <2>3, <2>4
  <2>5. CASE ~(j < k)
    BY <1>3, <1>4, <1>5, <2>2, <2>3, <2>5
  <2> QED
    BY <2>4, <2>5
<1>9. StoreIds' = RemoveAt(StoreIds, k)
  <2>1. StoreIds' = [j \in 1 .. Len(sessions) - 1 |-> RemoveAt(StoreIds, k)[j]]
    BY <1>6, <1>8 DEF StoreIds
  <2> QED
    BY <1>5, <2>1
<1>10. RemoveAt(StoreIds, k) = Store!RemoveAt(StoreIds, k)
  BY DEF RemoveAt, Store!RemoveAt
<1>11. StoreCursor' = IF StoreCursor = Store!AtSession(heap[p].id) THEN Store!Stale
                                                                  ELSE StoreCursor
  <2>1. CASE start = p
    <3>1. StoreCursor = Store!AtSession(heap[p].id) /\ StoreCursor' = Store!Stale
      BY <1>2, <2>1, PtrAssumption
         DEF StoreCursor, Alive, Store!AtSession, Store!Stale, TableOK
    <3> QED
      BY <3>1
  <2>2. CASE start # p /\ Alive(start)
    <3>1. heap[start].id # heap[p].id
      BY <2>2 DEF UniqueIds, Alive
    <3>2. StoreCursor' = StoreCursor
      BY <1>2, <2>2 DEF StoreCursor, Alive
    <3>3. StoreCursor # Store!AtSession(heap[p].id)
      BY <2>2, <3>1 DEF StoreCursor, Store!AtSession
    <3> QED
      BY <3>2, <3>3
  <2>3. CASE start # p /\ ~Alive(start)
    <3>1. StoreCursor' = StoreCursor
      BY <1>2, <2>3 DEF StoreCursor, Alive
    <3>2. StoreCursor # Store!AtSession(heap[p].id)
      BY <2>3 DEF StoreCursor, Store!AtSession
    <3> QED
      BY <3>1, <3>2
  <2> QED
    BY <2>1, <2>2, <2>3
<1>12. k \in DOMAIN StoreIds /\ StoreIds[k] = heap[p].id
  BY <1>1, <1>3, <1>6
<1> QED
  BY <1>9, <1>10, <1>11, <1>12 DEF Store!Drop

\* getSession and deleteSession: the one session with that id, or none.
LEMMA FindRefines ==
    ASSUME OneThread, BaseInv, UniqueIds, NoStuckSession, NEW t \in Threads,
           HoldsLive(t), ServesAlone(t),
           GetFind(t) \/ GetCopy(t) \/ DelFind(t) \/ DelUnlink(t)
    PROVE  \/ Store!Miss(t) \/ Store!Get(t) \/ Store!Delete(t)
           \/ UNCHANGED Store!vars
<1> USE DEF BaseInv, LocalsOK, At, Goto
<1>0. /\ ub = "none" /\ ub' = ub /\ op' = op /\ op[t] \in {"get", "del"}
      /\ key' = key /\ size' = size /\ start' = start /\ out[t] = <<>>
  BY DEF GetFind, GetCopy, DelFind, DelUnlink, Find, CallsOK, CallOK, table, ServesAlone
<1>1. Range(StoreIds) = {heap[p].id : p \in DOMAIN heap} /\ Range(StoreIds) = Store!Range(StoreIds)
  BY StoreOfTable DEF Range, Store!Range
<1>2. CASE GetFind(t) \/ DelFind(t)
  <2>1. /\ sessions' = sessions /\ heap' = heap /\ out' = out
        /\ pc[t] \in {"get_find", "del_find"}
    BY <1>2 DEF GetFind, DelFind, Find, table
  <2>2. StorePhase(t) = "busy"
    BY <2>1 DEF StorePhase
  <2>3. StoreIds' = StoreIds /\ StoreCursor' = StoreCursor
    BY <1>0, <2>1, SameTableSameStore
  <2>4. CASE Found(key[t]) = {} /\ Return(t, "NOT_FOUND")
    <3>1. pc'[t] = "reply" /\ status' = [status EXCEPT ![t] = "NOT_FOUND"]
      BY <2>4 DEF Return
    <3>2. StorePhase(t)' = "done"
      BY <3>1 DEF StorePhase
    <3>3. /\ StorePhases[t] = "busy" /\ StorePhases' = [StorePhases EXCEPT ![t] = "done"]
          /\ StoreKeys[t] = key[t] /\ StoreKeys' = StoreKeys
          /\ StoreAnswers' = StoreAnswers
      BY <1>0, <2>1, <2>2, <3>1, <3>2, OneEntry
    <3>4. \A p \in DOMAIN heap : heap[p].id # key[t]
      BY <2>4 DEF Found, Alive, TableOK, ListOK
    <3>5. StoreKeys[t] \notin Store!Range(StoreIds)
      BY <1>1, <3>3, <3>4
    <3> QED
      BY <1>0, <2>3, <3>1, <3>3, <3>5
         DEF Store!Miss, Store!In, Store!Finish, Store!Become, Store!request
  <2>5. CASE pc'[t] \in {"get_copy", "del_unlink"} /\ UNCHANGED status
    <3>1. StorePhase(t)' = "busy"
      BY <2>5 DEF StorePhase
    <3>2. StoreKeys'[t] = StoreKeys[t]
      BY <1>0, <2>1, <2>5, OneEntry
    <3>3. StoreAnswers'[t] = StoreAnswers[t]
      BY <1>0, <2>1, <2>5, OneEntry
    <3> QED
      BY <1>0, <2>1, <2>2, <2>3, <2>5, <3>1, <3>2, <3>3, Stutters
  <2> QED
    BY <1>2, <2>4, <2>5 DEF GetFind, DelFind, Find
<1>3. CASE GetCopy(t) \/ DelUnlink(t)
  <2>1. /\ pc[t] \in {"get_copy", "del_unlink"} /\ r[t] \in DOMAIN heap
        /\ heap[r[t]].id = key[t] /\ pc'[t] = "reply"
        /\ status' = [status EXCEPT ![t] = "OK"]
    BY <1>3 DEF GetCopy, DelUnlink, Alive, ServesAlone, Return
  <2>2. heap[r[t]].state = "_CLOSED"
    BY <2>1, AllClosed
  <2>3. out'[t] = Append(out[t], [id |-> key[t], what |-> "_CLOSED"])
    <3>1. out'[t] = <<[id |-> key[t], what |-> "_CLOSED"]>>
      BY <1>3, <2>2 DEF GetCopy, DelUnlink
    <3>2. Append(<<>>, [id |-> key[t], what |-> "_CLOSED"])
            = <<[id |-> key[t], what |-> "_CLOSED"]>>
      OBVIOUS
    <3> QED
      BY <1>0, <3>1, <3>2
  <2>4. StorePhase(t) = "busy" /\ StorePhase(t)' = "done"
    BY <2>1 DEF StorePhase
  <2>5. /\ StorePhases[t] = "busy" /\ StorePhases' = [StorePhases EXCEPT ![t] = "done"]
        /\ StoreKeys[t] = key[t] /\ StoreKeys' = StoreKeys
    BY <1>0, <2>1, <2>4, OneEntry
  <2>6. StoreAnswers'[t] = Append(StoreAnswers[t], [id |-> StoreKeys[t], what |-> "_CLOSED"])
    BY <2>1, <2>3, <2>5, OneEntry
  <2>7. StoreAnswers' = [StoreAnswers EXCEPT ![t] =
                            Append(StoreAnswers[t], [id |-> StoreKeys[t], what |-> "_CLOSED"])]
    BY <2>6, OneEntry
  <2>8. StoreKeys[t] \in Store!Range(StoreIds)
    BY <1>1, <2>1, <2>5
  <2>9. CASE GetCopy(t)
    <3>1. StoreIds' = StoreIds /\ StoreCursor' = StoreCursor
      BY <1>0, <2>9, SameTableSameStore DEF GetCopy, table
    <3>2. op[t] = "get"
      BY <2>9 DEF GetCopy, CallsOK, CallOK
    <3> QED
      BY <1>0, <2>1, <2>5, <2>7, <2>8, <3>1, <3>2
         DEF Store!Get, Store!In, Store!Answer, Store!Finish, Store!Become, Store!request
  <2>10. CASE DelUnlink(t)
    <3>1. Store!Drop(StoreKeys[t])
      BY <1>0, <2>1, <2>5, <2>10, UnlinkDrops DEF DelUnlink
    <3>2. op[t] = "del"
      BY <2>10 DEF DelUnlink, CallsOK, CallOK
    <3> QED
      BY <1>0, <2>1, <2>5, <2>7, <2>8, <3>1, <3>2
         DEF Store!Delete, Store!In, Store!Answer, Store!Finish, Store!Become, Store!request
  <2> QED
    BY <1>3, <2>9, <2>10
<1> QED
  BY <1>2, <1>3

\* getClosedSessions: the oldest session first, up to the page size.
LEMMA ClosedRefines ==
    ASSUME OneThread, BaseInv, BufferInv, UniqueIds, NoStuckSession, NEW t \in Threads,
           HoldsLive(t), ServesAlone(t), ClosedStep(t)
    PROVE  \/ Store!Collect(t) \/ Store!CollectedAll(t) \/ Store!Send(t)
           \/ Store!Break(t) \/ UNCHANGED Store!vars
<1> USE DEF BaseInv, LocalsOK, At, Goto
<1>0. /\ ub = "none" /\ op' = op /\ op[t] = "closed"
      /\ key' = key /\ size' = size /\ start' = start
  BY DEF ClosedStep, ClosedBegin, ClosedSkip, ClosedTake, ClosedOverflow, ClosedNext,
         ClosedWrite, Undefined, locals, CallsOK, CallOK, table
<1>1. ~ClosedSkip(t)
  BY AllClosed DEF ClosedSkip, Alive
<1>2. ASSUME pc[t] \in {"closed_begin", "closed_next"}, sessions = <<>>, ub' = ub,
             out' = out, sessions' = sessions, heap' = heap, ClosedScanned(t, out[t])
      PROVE  Store!CollectedAll(t)
  <2>1. StorePhase(t) = "busy"
    BY <1>2 DEF StorePhase
  <2>2. /\ \/ out[t] = <<>> /\ pc'[t] = "reply"
              /\ status' = [status EXCEPT ![t] = "NOT_FOUND"]
           \/ out[t] # <<>> /\ pc'[t] = "closed_write" /\ status' = status
    BY <1>2 DEF ClosedScanned, Return
  <2>3. /\ StorePhases[t] = "busy" /\ StoreAnswers[t] = out[t]
        /\ StoreKeys' = StoreKeys /\ StoreAnswers' = StoreAnswers
    BY <1>0, <1>2, <2>1, <2>2, OneEntry
  <2>4. StoreIds' = StoreIds /\ StoreCursor' = StoreCursor /\ StoreIds = <<>>
    BY <1>0, <1>2, SameTableSameStore, StoreOfTable
  <2>5. CASE out[t] = <<>>
    <3>1. StorePhase(t)' = "done"
      BY <2>2, <2>5 DEF StorePhase
    <3>2. StorePhases' = [StorePhases EXCEPT ![t] = "done"]
      BY <3>1, OneEntry
    <3> QED
      BY <1>0, <1>2, <2>2, <2>3, <2>4, <2>5, <3>2
         DEF Store!CollectedAll, Store!In, Store!Finish, Store!Become, Store!request
  <2>6. CASE out[t] # <<>>
    <3>1. StorePhase(t)' = "sending"
      BY <2>2, <2>6 DEF StorePhase
    <3>2. StorePhases' = [StorePhases EXCEPT ![t] = "sending"]
      BY <3>1, OneEntry
    <3> QED
      BY <1>0, <1>2, <2>2, <2>3, <2>4, <2>6, <3>2
         DEF Store!CollectedAll, Store!In, Store!Become, Store!request
  <2> QED
    BY <2>5, <2>6
<1>3. ASSUME pc[t] \in {"closed_begin", "closed_next"}, pc'[t] = "closed_body",
             UNCHANGED <<table, op, key, size, out, cancelled, lost, ub>>, status' = status
      PROVE  UNCHANGED Store!vars
  <2>1. StorePhase(t)' = StorePhase(t)
    BY <1>3 DEF StorePhase
  <2>2. StoreKeys'[t] = StoreKeys[t] /\ StoreAnswers'[t] = StoreAnswers[t]
    BY <1>3, OneEntry
  <2>3. StoreIds' = StoreIds /\ StoreCursor' = StoreCursor
    BY <1>3, SameTableSameStore DEF table
  <2> QED
    BY <1>3, <2>1, <2>2, <2>3, Stutters DEF table
<1>4. CASE ClosedBegin(t)
  <2>1. out[t] = <<>>
    BY <1>4 DEF ClosedBegin, CallsOK, CallOK
  <2>2. CASE sessions = <<>>
    <3>1. ClosedScanned(t, out[t])
      BY <1>4, <2>1, <2>2 DEF ClosedBegin
    <3> QED
      BY <1>2, <1>4, <2>2, <3>1 DEF ClosedBegin, table
  <2>3. CASE sessions # <<>>
    BY <1>3, <1>4, <2>3 DEF ClosedBegin
  <2> QED
    BY <2>2, <2>3
<1>5. CASE ClosedNext(t)
  <2>1. tmp[t] = First
    BY <1>5 DEF ClosedNext, ServesAlone
  <2>2. CASE tmp[t] = NULL
    <3>1. sessions = <<>>
      BY <2>1, <2>2, FirstIsLive, PtrAssumption DEF TableOK
    <3>2. ClosedScanned(t, out[t])
      BY <1>5, <2>2, PtrAssumption DEF ClosedNext, Alive, TableOK
    <3> QED
      BY <1>2, <1>5, <3>1, <3>2 DEF ClosedNext, table
  <2>3. CASE tmp[t] # NULL
    BY <1>3, <1>5, <2>3 DEF ClosedNext
  <2> QED
    BY <2>2, <2>3
<1>6. ASSUME pc[t] = "closed_body", Alive(r[t])
      PROVE  /\ StorePhases[t] = "busy" /\ StoreAnswers[t] = out[t]
             /\ r[t] = First /\ sessions # <<>> /\ StoreIds # <<>>
             /\ heap[r[t]].id = Head(StoreIds)
  <2>1. StorePhase(t) = "busy"
    BY <1>6 DEF StorePhase
  <2>2. r[t] = First /\ sessions # <<>>
    BY <1>6, PtrAssumption DEF ServesAlone, First, Alive, TableOK
  <2>3. 1 \in DOMAIN sessions /\ First = sessions[1]
    BY <2>2, FirstIsLive
  <2>4. StoreIds # <<>> /\ StoreIds \in Seq(Ids) /\ StoreIds[1] = heap[sessions[1]].id
    BY <2>2, <2>3, StoreOfTable
  <2>5. Head(StoreIds) = heap[First].id
    BY <2>3, <2>4
  <2> QED
    BY <1>6, <2>1, <2>2, <2>4, <2>5, OneEntry
<1>7. CASE ClosedTake(t)
  <2> DEFINE entry == [id |-> Head(StoreIds), what |-> "_CLOSED"]
             next == IF Len(out'[t]) = size[t] THEN "sending" ELSE "busy"
  <2>1. /\ pc[t] = "closed_body" /\ r[t] \in DOMAIN heap /\ UnlinkAndFree(r[t])
        /\ out'[t] = Append(out[t], [id |-> heap[r[t]].id, what |-> "_CLOSED"])
        /\ ub' = ub
    BY <1>7 DEF ClosedTake, Alive
  <2>2. /\ StorePhases[t] = "busy" /\ StoreAnswers[t] = out[t] /\ StoreIds # <<>>
        /\ heap[r[t]].id = Head(StoreIds)
    BY <1>6, <2>1 DEF Alive
  <2>3. out'[t] # <<>>
    <3>1. [id |-> heap[r[t]].id, what |-> "_CLOSED"] \in Entry
      BY <2>1 DEF TableOK, Record, Entry, State
    <3>2. out[t] \in Seq(Entry)
      OBVIOUS
    <3>3. Len(out'[t]) = Len(out[t]) + 1 /\ Len(out[t]) \in Nat
      BY <2>1, <3>1, <3>2
    <3> QED
      BY <3>3
  <2>4. /\ status' = status
        /\ \/ Len(out'[t]) = size[t] /\ pc'[t] = "closed_write"
           \/ Len(out'[t]) # size[t] /\ pc'[t] = "closed_next"
    BY <1>7, <2>3 DEF ClosedTake, ClosedScanned, Return
  <2>5. StorePhase(t)' = next
    BY <2>4 DEF StorePhase
  <2>6. Store!Drop(Head(StoreIds))
    BY <1>0, <2>1, <2>2, UnlinkDrops
  <2>7. /\ StoreKeys' = StoreKeys /\ StoreAnswers'[t] = out'[t]
        /\ StorePhases' = [StorePhases EXCEPT ![t] = next]
    BY <1>0, <2>1, <2>4, <2>5, OneEntry
  <2>8. StoreAnswers'[t] = Append(StoreAnswers[t], entry)
    BY <2>1, <2>2, <2>7
  <2>9. StoreAnswers' = [StoreAnswers EXCEPT ![t] = Append(StoreAnswers[t], entry)]
    BY <2>8, OneEntry
  <2>10. StorePhases' = [StorePhases EXCEPT ![t] =
                            IF Len(StoreAnswers'[t]) = size[t] THEN "sending" ELSE "busy"]
    BY <2>7
  <2> QED
    BY <1>0, <2>1, <2>2, <2>4, <2>6, <2>7, <2>9, <2>10
       DEF Store!Collect, Store!In, Store!Answer, Store!Become, Store!request
<1>8. CASE ClosedOverflow(t)
  <2>1. /\ pc[t] = "closed_body" /\ Alive(r[t]) /\ ub' = "overflow"
        /\ Len(out[t]) >= BUFFER_MAX /\ UNCHANGED <<table, locals>>
    BY <1>8 DEF ClosedOverflow, Undefined
  <2>2. StorePhases[t] = "busy" /\ StoreAnswers[t] = out[t] /\ StoreIds # <<>>
    BY <1>6, <2>1
  <2>3. Len(out[t]) = BUFFER_MAX /\ size[t] \notin 1 .. BUFFER_MAX
    <3>1. Len(out[t]) <= BUFFER_MAX /\ Len(out[t]) \in Nat /\ BUFFER_MAX \in Nat
      BY <1>0, SizeAssumption DEF BufferInv
    <3>2. size[t] \in 1 .. BUFFER_MAX => Len(out[t]) < size[t]
      BY <2>1 DEF ServesAlone
    <3> QED
      BY <2>1, <3>1, <3>2
  <2>4. pc' = pc /\ key' = key /\ out' = out /\ status' = status
    BY <2>1 DEF locals
  <2>5. StoreIds' = StoreIds /\ StoreCursor' = StoreCursor
    BY <2>1, SameTableSameStore DEF table
  <2>6. StorePhase(t)' = StorePhase(t)
    BY <2>4 DEF StorePhase
  <2>7. StorePhases' = StorePhases /\ StoreKeys' = StoreKeys /\ StoreAnswers' = StoreAnswers
    BY <2>4, <2>6, OneEntry
  <2> QED
    BY <1>0, <2>1, <2>2, <2>3, <2>4, <2>5, <2>7 DEF Store!Break, Store!In, Store!request
<1>9. CASE ClosedWrite(t)
  <2>1. /\ pc[t] = "closed_write" /\ sessions' = sessions /\ heap' = heap /\ ub' = ub
        /\ \/ /\ out[t] = <<>> /\ pc'[t] = "reply" /\ out' = out
              /\ status' = [status EXCEPT ![t] = "OK"]
           \/ /\ out[t] # <<>> /\ out'[t] = Tail(out[t]) /\ pc' = pc /\ status' = status
    BY <1>9 DEF ClosedWrite, Return, table
  <2>2. StorePhase(t) = "sending"
    BY <2>1 DEF StorePhase
  <2>3. /\ StorePhases[t] = "sending" /\ StoreAnswers[t] = out[t] /\ StoreKeys' = StoreKeys
        /\ StoreAnswers'[t] = out'[t]
    BY <1>0, <2>1, <2>2, OneEntry
  <2>4. StoreIds' = StoreIds /\ StoreCursor' = StoreCursor
    BY <1>0, <2>1, SameTableSameStore
  <2>5. CASE out[t] = <<>>
    <3>1. StorePhase(t)' = "done"
      BY <2>1, <2>5 DEF StorePhase
    <3>2. StorePhases' = [StorePhases EXCEPT ![t] = "done"]
      BY <3>1, OneEntry
    <3>3. StoreAnswers' = StoreAnswers
      BY <2>1, <2>3, <2>5, OneEntry
    <3> QED
      BY <1>0, <2>1, <2>3, <2>4, <2>5, <3>2, <3>3
         DEF Store!Send, Store!In, Store!Finish, Store!Become, Store!request
  <2>6. CASE out[t] # <<>>
    <3>1. StorePhase(t)' = StorePhase(t)
      BY <2>1, <2>6 DEF StorePhase
    <3>2. StorePhases' = StorePhases
      BY <3>1, OneEntry
    <3>3. StoreAnswers'[t] = Tail(StoreAnswers[t])
      BY <2>1, <2>3, <2>6
    <3>4. StoreAnswers' = [StoreAnswers EXCEPT ![t] = Tail(StoreAnswers[t])]
      BY <3>3, OneEntry
    <3> QED
      BY <1>0, <2>1, <2>3, <2>4, <2>6, <3>2, <3>4
         DEF Store!Send, Store!In, Store!request
  <2> QED
    BY <2>5, <2>6
<1> QED
  BY <1>1, <1>4, <1>5, <1>7, <1>8, <1>9 DEF ClosedStep

\* The entries of the sessions from place i of the store to place last.
PageOf(i, last) ==
    [j \in 1 .. last - i + 1 |-> [id |-> StoreIds[i + j - 1], what |-> "_CLOSED"]]

\* The page that ends at index m of the list is the page the store answers.
LEMMA PageIsStorePage ==
    ASSUME BaseInv, NEW t \in Threads, NEW i \in DOMAIN sessions, Listed(t, i),
           heap[r[t]].state = "_CLOSED", Len(out[t]) < BUFFER_MAX, PageEnds(t),
           NEW entry \in Entry,
           entry = [id |-> heap[r[t]].id, what |-> heap[r[t]].state],
           NEW m, m = i + Len(out[t])
    PROVE  /\ m = IF i + BUFFER_MAX - 1 <= Len(StoreIds)
                  THEN i + BUFFER_MAX - 1 ELSE Len(StoreIds)
           /\ m \in DOMAIN sessions
           /\ Succ(r[t]) = IF m < Len(sessions) THEN sessions[m + 1] ELSE NULL
           /\ Append(out[t], entry) = PageOf(i, m)
<1> USE DEF BaseInv
<1>1. /\ out[t] \in Seq(Entry) /\ Len(out[t]) \in Nat /\ i \in Nat /\ BUFFER_MAX \in Nat
      /\ Len(sessions) \in Nat /\ DOMAIN sessions = 1 .. Len(sessions)
  BY SizeAssumption DEF LocalsOK, TableOK
<1>2. m \in DOMAIN sessions /\ r[t] = sessions[m]
  BY DEF Listed
<1>3. Succ(r[t]) = IF m < Len(sessions) THEN sessions[m + 1] ELSE NULL
  BY <1>2, PositionIsUnique
<1>4. Len(out[t]) + 1 = BUFFER_MAX \/ m = Len(sessions)
  <2>1. CASE m < Len(sessions)
    <3>1. m + 1 \in DOMAIN sessions
      BY <1>1, <1>2, <2>1
    <3>2. Succ(r[t]) # NULL
      BY <1>3, <2>1, <3>1, PositionIsUnique
    <3> QED
      BY <3>2 DEF PageEnds
  <2>2. CASE ~(m < Len(sessions))
    BY <1>1, <1>2, <2>2
  <2> QED
    BY <2>1, <2>2
<1>5. /\ Len(StoreIds) = Len(sessions)
      /\ \A k \in DOMAIN sessions : StoreIds[k] = heap[sessions[k]].id
  BY StoreOfTable
<1>6. m = IF i + BUFFER_MAX - 1 <= Len(StoreIds) THEN i + BUFFER_MAX - 1 ELSE Len(StoreIds)
  BY <1>1, <1>2, <1>4, <1>5
<1>7. \A j \in 1 .. Len(out[t]) + 1 :
         Append(out[t], entry)[j]
           = [id |-> heap[sessions[i + j - 1]].id, what |-> "_CLOSED"]
  BY ListedGrows
<1>8. Append(out[t], entry) = PageOf(i, m)
  <2>1. m - i + 1 = Len(out[t]) + 1
    BY <1>1
  <2>2. /\ Append(out[t], entry) \in Seq(Entry)
        /\ Len(Append(out[t], entry)) = Len(out[t]) + 1
    BY <1>1
  <2>3. ASSUME NEW j \in 1 .. Len(out[t]) + 1
        PROVE  Append(out[t], entry)[j]
                 = [id |-> StoreIds[i + j - 1], what |-> "_CLOSED"]
    <3>1. i + j - 1 \in DOMAIN sessions
      BY <1>1, <1>2
    <3> QED
      BY <1>5, <1>7, <3>1
  <2>4. Append(out[t], entry)
          = [j \in 1 .. Len(out[t]) + 1 |-> Append(out[t], entry)[j]]
    BY <2>2
  <2> QED
    BY <2>1, <2>3, <2>4 DEF PageOf
<1> QED
  BY <1>2, <1>3, <1>6, <1>8

\* getAllSessions: the page from the cursor on, and where the next one begins.
LEMMA AllRefines ==
    ASSUME OneThread, BaseInv, BufferInv, NoStuckSession, UniqueIds, NEW t \in Threads,
           HoldsLive(t), ServesAlone(t), AllBegin(t) \/ AllStep(t) \/ Dangling(t)
    PROVE  \/ Store!Open(t) \/ Store!Page(t) \/ Store!Break(t) \/ UNCHANGED Store!vars
<1> USE DEF BaseInv, LocalsOK, At, Goto
<1>1. CASE AllBegin(t)
  <2>1. /\ ub = "none" /\ ub' = ub /\ op' = op /\ op[t] = "all" /\ key' = key
        /\ size' = size /\ out' = out /\ out[t] = <<>> /\ pc[t] = "all_begin"
        /\ sessions' = sessions /\ heap' = heap
        /\ start' = IF key[t] = UINT_MAX THEN First ELSE start
    BY <1>1 DEF AllBegin, CallsOK, CallOK
  <2>2. \/ start' = NULL /\ pc'[t] = "reply" /\ status' = [status EXCEPT ![t] = "OK"]
        \/ start' # NULL /\ pc'[t] = "all_step" /\ status' = status
    BY <1>1 DEF AllBegin, Return
  <2>3. StorePhase(t) = "busy"
    BY <2>1 DEF StorePhase
  <2>4. /\ StorePhases[t] = "busy" /\ StoreKeys[t] = key[t] /\ StoreKeys' = StoreKeys
    BY <2>1, <2>2, <2>3, OneEntry
  <2>5. StoreAnswers' = StoreAnswers
    BY <2>1, <2>2, OneEntry
  <2>6. StoreIds' = StoreIds
    BY <2>1 DEF StoreIds
  <2>7. StoreCursor' = IF key[t] = UINT_MAX THEN Store!CursorFrom(1) ELSE StoreCursor
    <3>1. CASE key[t] = UINT_MAX /\ sessions = <<>>
      <4>1. StoreIds = <<>> /\ start' = NULL
        BY <2>1, <3>1, StoreOfTable DEF First
      <4>2. Store!CursorFrom(1) = [at |-> "end", id |-> 0]
        BY <4>1 DEF Store!CursorFrom, Store!AtEnd
      <4> QED
        BY <3>1, <4>1, <4>2 DEF StoreCursor
    <3>2. CASE key[t] = UINT_MAX /\ sessions # <<>>
      <4>1. /\ 1 \in DOMAIN sessions /\ First = sessions[1] /\ First \in DOMAIN heap
            /\ First # NULL /\ start' = First
        BY <2>1, <3>2, FirstIsLive, PositionIsUnique
      <4>2. StoreCursor' = [at |-> "session", id |-> heap[First].id]
        BY <2>1, <4>1 DEF StoreCursor, Alive
      <4>3. Len(StoreIds) = Len(sessions) /\ StoreIds[1] = heap[First].id
            /\ ~(1 > Len(sessions))
        BY <4>1, StoreOfTable DEF TableOK
      <4> QED
        BY <3>2, <4>2, <4>3 DEF Store!CursorFrom, Store!AtSession
    <3>3. CASE key[t] # UINT_MAX
      BY <2>1, <3>3 DEF StoreCursor, Alive
    <3> QED
      BY <3>1, <3>2, <3>3
  <2>8. StoreCursor' = Store!AtEnd <=> start' = NULL
    BY DEF StoreCursor, Store!AtEnd
  <2>9. CASE start' = NULL
    <3>1. StorePhase(t)' = "done"
      BY <2>2, <2>9 DEF StorePhase
    <3>2. StorePhases' = [StorePhases EXCEPT ![t] = "done"]
      BY <3>1, OneEntry
    <3> QED
      BY <2>1, <2>2, <2>4, <2>5, <2>6, <2>7, <2>8, <2>9, <3>2
         DEF Store!Open, Store!In, Store!Finish, Store!Become, Store!request
  <2>10. CASE start' # NULL
    <3>1. StorePhase(t)' = "listing"
      BY <2>2, <2>10 DEF StorePhase
    <3>2. StorePhases' = [StorePhases EXCEPT ![t] = "listing"]
      BY <3>1, OneEntry
    <3> QED
      BY <2>1, <2>2, <2>4, <2>5, <2>6, <2>7, <2>8, <2>10, <3>2
         DEF Store!Open, Store!In, Store!Become, Store!request
  <2> QED
    BY <2>9, <2>10
<1>2. ASSUME pc[t] = "all_step"
      PROVE  /\ StorePhases[t] = "listing" /\ StoreAnswers[t] = <<>> /\ op[t] = "all"
             /\ StoreKeys[t] = key[t]
  <2>1. StorePhase(t) = "listing"
    BY <1>2 DEF StorePhase
  <2> QED
    BY <1>2, <2>1, OneEntry DEF CallsOK, CallOK
<1>3. CASE AllStep(t)
  <2>1. /\ pc[t] = "all_step" /\ ub = "none" /\ ub' = ub /\ op' = op /\ size' = size
        /\ sessions' = sessions /\ heap' = heap /\ r[t] \in DOMAIN heap
    BY <1>3 DEF AllStep, Alive
  <2>2. /\ StorePhases[t] = "listing" /\ StoreAnswers[t] = <<>> /\ op[t] = "all"
        /\ StoreKeys[t] = key[t]
    BY <1>2, <2>1
  <2>3. StoreIds' = StoreIds
    BY <2>1 DEF StoreIds
  <2>4. CASE ~PageEnds(t)
    <3>1. start' = start /\ pc' = pc /\ key' = key /\ status' = status
      BY <1>3, <2>4 DEF AllStep
    <3>2. StorePhase(t)' = StorePhase(t)
      BY <3>1 DEF StorePhase
    <3>3. StoreCursor' = StoreCursor
      BY <2>1, <3>1 DEF StoreCursor, Alive
    <3>4. StoreKeys'[t] = StoreKeys[t]
      BY <3>1, OneEntry
    <3>5. StoreAnswers'[t] = StoreAnswers[t]
      BY <2>1, <3>1, OneEntry
    <3> QED
      BY <2>1, <2>3, <3>1, <3>2, <3>3, <3>4, <3>5, Stutters
  <2>5. CASE PageEnds(t)
    <3>1. /\ start' = Succ(r[t]) /\ key'[t] = heap[r[t]].id /\ pc'[t] = "reply"
          /\ status' = [status EXCEPT ![t] = "OK"]
      BY <1>3, <2>5 DEF AllStep, Return
    <3>2. PICK i \in DOMAIN sessions : Listed(t, i)
      BY <1>3, <2>1 DEF ServesAlone, PageSoFar, Alive
    <3>3. heap[r[t]].state = "_CLOSED" /\ Len(out[t]) < BUFFER_MAX
      BY <2>1, AllClosed DEF BufferInv
    <3>4. PICK entry \in Entry :
             /\ entry = [id |-> heap[r[t]].id, what |-> heap[r[t]].state]
             /\ out'[t] = Append(out[t], entry)
      <4>1. [id |-> heap[r[t]].id, what |-> heap[r[t]].state] \in Entry
        BY <2>1 DEF Entry, TableOK, Record
      <4> QED
        BY <1>3, <4>1 DEF AllStep
    <3>5. PICK last : last = i + Len(out[t])
      OBVIOUS
    <3>6. /\ last = IF i + BUFFER_MAX - 1 <= Len(StoreIds)
                    THEN i + BUFFER_MAX - 1 ELSE Len(StoreIds)
          /\ last \in DOMAIN sessions
          /\ Succ(r[t]) = IF last < Len(sessions) THEN sessions[last + 1] ELSE NULL
          /\ Append(out[t], entry) = PageOf(i, last)
      BY <2>5, <3>2, <3>3, <3>4, <3>5, PageIsStorePage, Z3T(60)
    <3>7. /\ DOMAIN StoreIds = DOMAIN sessions /\ Len(StoreIds) = Len(sessions)
          /\ \A k \in DOMAIN sessions : StoreIds[k] = heap[sessions[k]].id
      BY StoreOfTable
    <3>8. \A k \in DOMAIN sessions : sessions[k] \in DOMAIN heap /\ sessions[k] # NULL
      BY PositionIsUnique
    <3>9. StoreCursor = Store!AtSession(StoreIds[i])
      BY <3>2, <3>7, <3>8 DEF Listed, StoreCursor, Alive, Store!AtSession
    <3>10. StoreCursor' = Store!CursorFrom(last + 1)
      <4>1. Len(sessions) \in Nat /\ DOMAIN sessions = 1 .. Len(sessions)
        BY DEF TableOK
      <4>2. CASE last < Len(sessions)
        <5>1. last + 1 \in DOMAIN sessions /\ ~(last + 1 > Len(sessions))
          BY <3>6, <4>1, <4>2
        <5>2. start' = sessions[last + 1]
          BY <3>1, <3>6, <4>2
        <5> QED
          BY <2>1, <3>7, <3>8, <5>1, <5>2
             DEF StoreCursor, Alive, Store!CursorFrom, Store!AtSession
      <4>3. CASE ~(last < Len(sessions))
        <5>1. last + 1 > Len(sessions)
          BY <3>6, <4>1, <4>3
        <5>2. start' = NULL
          BY <3>1, <3>6, <4>3
        <5> QED
          BY <3>7, <5>1, <5>2 DEF StoreCursor, Store!CursorFrom, Store!AtEnd
      <4> QED
        BY <4>2, <4>3
    <3>11. key'[t] = StoreIds[last]
      <4>1. r[t] = sessions[last]
        BY <3>2, <3>5 DEF Listed
      <4> QED
        BY <3>1, <3>6, <3>7, <4>1
    <3>12. StorePhase(t)' = "done"
      BY <3>1 DEF StorePhase
    <3>13. /\ StorePhases' = [StorePhases EXCEPT ![t] = "done"]
           /\ StoreKeys'[t] = StoreIds[last] /\ StoreAnswers'[t] = out'[t]
      BY <3>1, <3>11, <3>12, OneEntry
    <3>14. StoreKeys' = [StoreKeys EXCEPT ![t] = StoreIds[last]]
      BY <3>13, OneEntry
    <3>15. StoreAnswers' = [StoreAnswers EXCEPT ![t] = PageOf(i, last)]
      <4>1. StoreAnswers'[t] = PageOf(i, last)
        BY <3>4, <3>6, <3>13
      <4> QED
        BY <4>1, OneEntry
    <3>16. i \in DOMAIN StoreIds
      BY <3>2, <3>7
    <3> QED
      BY <2>1, <2>2, <2>3, <3>1, <3>6, <3>9, <3>10, <3>13, <3>14, <3>15, <3>16
         DEF Store!Page, Store!In, Store!Finish, Store!Become, PageOf
  <2> QED
    BY <2>4, <2>5
<1>4. CASE Dangling(t)
  <2>1. /\ pc[t] = "all_step" /\ ~Alive(r[t]) /\ ub = "none" /\ ub' = "dangling"
        /\ UNCHANGED <<table, locals>>
    BY <1>4 DEF Dangling, HoldsLive, Undefined
  <2>2. start = r[t] /\ start # NULL
    <3>1. \A i \in DOMAIN sessions : ~Listed(t, i)
      BY <2>1, PositionIsUnique DEF Listed, Alive
    <3> QED
      BY <2>1, <3>1 DEF ServesAlone, PageSoFar
  <2>3. StoreCursor = Store!Stale
    BY <2>1, <2>2 DEF StoreCursor, Store!Stale
  <2>4. pc' = pc /\ op' = op /\ key' = key /\ size' = size /\ out' = out /\ status' = status
    BY <2>1 DEF locals
  <2>5. StoreIds' = StoreIds /\ StoreCursor' = StoreCursor
    BY <2>1, SameTableSameStore DEF table
  <2>6. StorePhase(t)' = StorePhase(t)
    BY <2>4 DEF StorePhase
  <2>7. StorePhases' = StorePhases /\ StoreKeys' = StoreKeys /\ StoreAnswers' = StoreAnswers
    BY <2>4, <2>6, OneEntry
  <2>8. StorePhases[t] = "listing" /\ op[t] = "all"
    BY <1>2, <2>1
  <2> QED
    BY <2>1, <2>3, <2>4, <2>5, <2>7, <2>8 DEF Store!Break, Store!In, Store!request
<1> QED
  BY <1>1, <1>3, <1>4

\* What holds in every state of a server with one thread.
SerialInv ==
    /\ BaseInv /\ BufferInv /\ NoStuckSession
    /\ UniqueIds /\ CheckedIdIsNew /\ OnlyPagingDangles
    /\ \A t \in Threads : HoldsLive(t) /\ ServesAlone(t)

\* The invariant of the lone thread is inductive.
LEMMA SerialInductive ==
    ASSUME OneThread, SerialInv, [Next]_vars
    PROVE  SerialInv'
<1>1. TableOK' /\ LocalsOK' /\ CallsOK' /\ BufferInv' /\ NoStuckSession'
  BY TableInductive, LocalsInductive, CallsInductive, BufferInductive, NoStuckInductive
     DEF SerialInv
<1>2. UniqueIds' /\ CheckedIdIsNew'
  BY UniqueInductive DEF SerialInv
<1>3. OnlyPagingDangles' /\ \A t \in Threads : HoldsLive(t)'
  BY DanglesInductive DEF SerialInv
<1>4. \A t \in Threads : ServesAlone(t)'
  <2>1. CASE UNCHANGED vars \/ Halted
    BY <2>1 DEF SerialInv, ServesAlone, PageSoFar, Listed, First, Alive, Halted, vars,
                table, locals
  <2>2. ASSUME NEW t \in Threads, Client(t) \/ Run(t) \/ DataRace(t)
        PROVE  \A u \in Threads : ServesAlone(u)'
    <3>1. ServesAlone(t)'
      BY <2>2, AloneInductive DEF SerialInv
    <3> QED
      BY <3>1 DEF OneThread
  <2> QED
    BY <2>1, <2>2 DEF Next
<1> QED
  BY <1>1, <1>2, <1>3, <1>4 DEF SerialInv, BaseInv

\* With one thread the handlers, step by step, are the calls of SessionStore: each
\* request of an add stream is entered or refused for a true reason, getClosedSessions
\* takes the oldest sessions first, and a page of a listing is the next BUFFER_MAX.
THEOREM ImplementsStoreSerial ==
    ASSUME OneThread
    PROVE  Spec => ImplementsStore
<1>1. Init => SerialInv
  <2> SUFFICES ASSUME Init PROVE SerialInv
    OBVIOUS
  <2>1. TableOK
    BY DEF Init, ThreadsIdle, TableOK, ListOK, IsInjective, Range
  <2>2. LocalsOK /\ CallsOK
    BY DEF Init, ThreadsIdle, LocalsOK, Labels, Ops, CallsOK, CallOK
  <2>3. BufferInv
    BY SizeAssumption DEF Init, ThreadsIdle, BufferInv
  <2>4. NoStuckSession /\ UniqueIds /\ CheckedIdIsNew /\ OnlyPagingDangles
    BY DEF Init, ThreadsIdle, NoStuckSession, UniqueIds, CheckedIdIsNew,
           OnlyPagingDangles
  <2>5. \A t \in Threads : HoldsLive(t) /\ ServesAlone(t)
    BY DEF Init, ThreadsIdle, HoldsLive, ServesAlone
  <2> QED
    BY <2>1, <2>2, <2>3, <2>4, <2>5 DEF SerialInv, BaseInv
<1>2. SerialInv /\ [Next]_vars => SerialInv'
  BY OneThread, SerialInductive
<1>3. Init => Store!Init
  <2> SUFFICES ASSUME Init PROVE Store!Init
    OBVIOUS
  <2>1. StoreIds = <<>>
    BY DEF Init, StoreIds
  <2>2. StoreCursor = Store!AtEnd
    BY DEF Init, StoreCursor, Store!AtEnd
  <2>3. StorePhases = [t \in Threads |-> "idle"]
    BY DEF Init, ThreadsIdle, StorePhases, StorePhase
  <2>4. /\ StoreKeys = [t \in Threads |-> 0] /\ StoreAnswers = [t \in Threads |-> <<>>]
    BY DEF Init, ThreadsIdle, StoreKeys, StoreAnswers
  <2> QED
    BY <2>1, <2>2, <2>3, <2>4 DEF Init, ThreadsIdle, Store!Init
<1>4. SerialInv /\ [Next]_vars => [Store!Next]_(Store!vars)
  <2> SUFFICES ASSUME SerialInv, [Next]_vars PROVE [Store!Next]_(Store!vars)
    OBVIOUS
  <2>1. CASE UNCHANGED vars \/ Halted
    <3>1. UNCHANGED <<sessions, heap, start, pc, op, key, size, out, status, ub>>
      BY <2>1 DEF Halted, vars, table, locals
    <3> QED
      BY <3>1 DEF Store!vars, StoreIds, StoreCursor, StorePhases, StorePhase, StoreKeys,
                  StoreAnswers, Alive
  <2>2. ASSUME NEW t \in Threads, Client(t) \/ Run(t) \/ DataRace(t)
        PROVE  [Store!Next]_(Store!vars)
    <3>1. ~DataRace(t)
      BY OneThread DEF DataRace, OneThread
    <3>2. CASE Client(t) \/ CheckCancelled(t) \/ Reply(t)
      BY <3>2, OneThread, CallRefines DEF SerialInv, Store!Next
    <3>3. CASE AddStep(t)
      BY <3>3, OneThread, AddRefines DEF SerialInv, Store!Next
    <3>4. CASE GetFind(t) \/ GetCopy(t) \/ DelFind(t) \/ DelUnlink(t)
      BY <3>4, OneThread, FindRefines DEF SerialInv, Store!Next
    <3>5. CASE ClosedStep(t)
      BY <3>5, OneThread, ClosedRefines DEF SerialInv, Store!Next
    <3>6. CASE AllBegin(t) \/ AllStep(t) \/ Dangling(t)
      BY <3>6, OneThread, AllRefines DEF SerialInv, Store!Next
    <3> QED
      BY <2>2, <3>1, <3>2, <3>3, <3>4, <3>5, <3>6 DEF Run
  <2> QED
    BY <2>1, <2>2 DEF Next
<1> QED
  BY <1>1, <1>2, <1>3, <1>4, PTL DEF Spec, ImplementsStore, Store!Spec
=============================================================================
