------------------------- MODULE SessionCleanupProofs -------------------------
(***************************************************************************)
(* The loop of opof_delete_all_sessions: it lists the table page by page    *)
(* and deletes what it was told, and the page it asks for next begins where *)
(* the server kept its pointer, in the static start of                     *)
(* opof_server_test.c.  With one client whose calls are not cut short, the  *)
(* sessions in front of that pointer are those still to be deleted and      *)
(* those the client library has no id for; and when the pointer dangles, a  *)
(* session of the latter kind has been confused with the one it pointed to. *)
(***************************************************************************)
EXTENDS SessionReportProofs

-----------------------------------------------------------------------------
(* The ids that an int holds. *)

\* Adding a multiple of n does not change the remainder.
LEMMA LowBits ==
    ASSUME NEW n \in Nat, 0 < n, NEW k \in Nat, NEW m \in 0 .. n - 1
    PROVE  (n * k + m) % n = m
<1> DEFINE v == n * k + m
           q == v \div n
           d == k - q
<1>0. v \in Nat
  OBVIOUS
<1> HIDE DEF v
<1>1. q \in Int /\ v % n \in 0 .. n - 1 /\ v = n * q + (v % n)
  BY <1>0
<1>2. d \in Int /\ n * d = (v % n) - m
  BY <1>1 DEF v
<1> HIDE DEF d, q
<1>3. d < 1
  BY <1>1, <1>2
<1>4. d > -1
  BY <1>1, <1>2
<1>5. d = 0
  BY <1>2, <1>3, <1>4
<1>6. n * d = 0
  BY <1>5
<1> QED
  BY <1>1, <1>2, <1>6 DEF v

\* What the client library makes of an id, it hands on unchanged.
LEMMA AsIntFits ==
    ASSUME NEW id \in Nat
    PROVE  FitsInt(AsInt(id))
<1>1. /\ IntSize \in Nat /\ LongSize \in Nat /\ 0 < IntSize /\ IntSize < LongSize
      /\ LongSize % IntSize = 0
  BY WidthAssumption, SizeAssumption
<1> DEFINE low == id % IntSize
<1>2. low \in 0 .. IntSize - 1
  BY <1>1
<1> HIDE DEF low
<1>3. AsInt(id) = IF low < IntSize \div 2 THEN low ELSE LongSize - IntSize + low
  BY DEF AsInt, low
<1>4. CASE low < IntSize \div 2
  <2>1. AsInt(id) = low
    BY <1>3, <1>4
  <2>2. low % IntSize = low
    BY <1>1, <1>2
  <2>3. AsInt(low) = low
    BY <1>4, <2>2 DEF AsInt
  <2> QED
    BY <2>1, <2>3 DEF FitsInt
<1>5. CASE ~(low < IntSize \div 2)
  <2>1. PICK k \in Nat : LongSize - IntSize = IntSize * k
    <3> DEFINE d == LongSize \div IntSize
    <3>1. d \in Nat /\ LongSize = IntSize * d + (LongSize % IntSize)
      BY <1>1
    <3> HIDE DEF d
    <3>2. LongSize = IntSize * d
      BY <1>1, <3>1
    <3>3. d - 1 \in Nat /\ LongSize - IntSize = IntSize * (d - 1)
      BY <1>1, <3>1, <3>2
    <3> QED
      BY <3>3
  <2>2. AsInt(id) = IntSize * k + low
    BY <1>1, <1>2, <1>3, <1>5, <2>1
  <2>3. (IntSize * k + low) % IntSize = low
    BY <1>1, <1>2, LowBits
  <2>4. AsInt(AsInt(id)) = LongSize - IntSize + low
    BY <1>5, <2>2, <2>3 DEF AsInt
  <2> QED
    BY <1>3, <1>5, <2>4 DEF FitsInt
<1> QED
  BY <1>4, <1>5

-----------------------------------------------------------------------------
(* What lies in front of a record, and what is at it or behind it. *)

Behind(p, q) == p \in Range(sessions) /\ Position(p) <= Position(q)

\* A session that was asked for under an id of another one, which is gone.
Confused == \E id \in TableIds : ~FitsInt(id) /\ AsInt(id) \in Existing \ TableIds

\* The loop has listed the ids in listed and not deleted them yet, and goes on at
\* p: each of the others that an int holds is at p or behind it, each that no int
\* holds is still there, and p is freed only by a confusion of sessions.
Listed(p, listed) ==
    \/ sessions = <<>> /\ p = NULL
    \/ /\ \A id \in listed : ~FitsInt(id) => id \in TableIds
       /\ p \in Range(sessions) \cup {NULL} =>
            \A q \in Range(sessions) :
               /\ FitsInt(heap[q].id) => heap[q].id \in listed \/ Behind(p, q)
               /\ heap[q].id \in listed => ~Behind(p, q)
       /\ p \notin Range(sessions) \cup {NULL} => Confused

\* Taking a record out of the list leaves the order of the others.
LEMMA UnlinkKeepsOrder ==
    ASSUME TableOK, NEW x \in DOMAIN heap, UnlinkAndFree(x)
    PROVE  /\ TableOK' /\ Range(sessions') = Range(sessions) \ {x}
           /\ \A q \in Range(sessions') : heap'[q] = heap[q]
           /\ \A p, q : q \in Range(sessions') /\ p # x =>
                           (Behind(p, q)' <=> Behind(p, q))
<1>00. /\ TableOK' /\ Len(sessions') = Len(sessions) - 1
       /\ DOMAIN heap' = DOMAIN heap \ {x}
       /\ \A q \in DOMAIN heap' : heap'[q] = heap[q]
  BY UnlinkKeepsTable
<1>0. TableOK' /\ Len(sessions') = Len(sessions) - 1 /\ Len(sessions) \in Nat
  BY <1>00 DEF TableOK
<1>1. Range(sessions') = Range(sessions) \ {x} /\ Range(sessions') = DOMAIN heap'
  BY <1>00 DEF TableOK, ListOK
<1> DEFINE k == Position(x)
<1>2. k \in 1 .. Len(sessions) /\ sessions[k] = x
  BY PositionOfLinked DEF TableOK, ListOK
<1>3. sessions' = RemoveAt(sessions, k)
  BY DEF UnlinkAndFree
<1> HIDE DEF k
<1>4. ASSUME NEW q \in Range(sessions')
      PROVE  /\ Position(q)' \in 1 .. Len(sessions) - 1
             /\ Position(q) = IF Position(q)' < k THEN Position(q)' ELSE Position(q)' + 1
  <2>1. PICK j \in DOMAIN sessions' : sessions'[j] = q
    BY DEF Range
  <2>2. j \in 1 .. Len(sessions) - 1 /\ Position(q)' = j
    BY <1>0, <2>1, PositionIsUniqueNext DEF TableOK
  <2>3. q = IF j < k THEN sessions[j] ELSE sessions[j + 1]
    BY <1>2, <1>3, <2>1, <2>2, RemoveAtElements DEF TableOK
  <2>4. j \in DOMAIN sessions /\ j + 1 \in DOMAIN sessions
    BY <1>0, <2>2 DEF TableOK
  <2> QED
    BY <2>2, <2>3, <2>4, PositionIsUnique
<1>5. ASSUME NEW p, NEW q \in Range(sessions'), p # x
      PROVE  Behind(p, q)' <=> Behind(p, q)
  <2>1. CASE p \notin Range(sessions')
    BY <1>1, <1>5, <2>1 DEF Behind
  <2>2. CASE p \in Range(sessions')
    <3>1. Position(p)' <= Position(q)' <=> Position(p) <= Position(q)
      BY <1>0, <1>2, <1>4, <2>2
    <3> QED
      BY <1>1, <2>2, <3>1 DEF Behind
  <2> QED
    BY <2>1, <2>2
<1> QED
  BY <1>00, <1>1, <1>5

\* At the beginning of the list everything is ahead.
LEMMA FirstListsAll ==
    ASSUME TableOK
    PROVE  Listed(First, {})
<1>1. CASE sessions = <<>>
  BY <1>1 DEF Listed, First
<1>2. CASE sessions # <<>>
  <2>1. First \in DOMAIN heap /\ Position(First) = 1 /\ First \in Range(sessions)
    BY <1>2, FirstIsLive DEF TableOK, ListOK
  <2>2. \A q \in Range(sessions) : Position(q) \in 1 .. Len(sessions)
    BY PositionOfLinked DEF TableOK
  <2>3. Len(sessions) \in Nat
    BY DEF TableOK
  <2>4. \A q \in Range(sessions) : Behind(First, q)
    BY <2>1, <2>2, <2>3 DEF Behind
  <2> QED
    BY <2>1, <2>4 DEF Listed
<1> QED
  BY <1>1, <1>2

\* The record in hand is listed, and the loop goes on at the next.
LEMMA OneMoreListed ==
    ASSUME TableOK, UniqueIds, NEW p \in Range(sessions), NEW listed, Listed(p, listed)
    PROVE  Listed(Succ(p), listed \cup {heap[p].id})
<1>1. PICK i \in DOMAIN sessions : sessions[i] = p
  BY DEF Range
<1>2. /\ Len(sessions) \in Nat /\ DOMAIN sessions = 1 .. Len(sessions)
      /\ Range(sessions) = DOMAIN heap
  BY DEF TableOK, ListOK
<1>3. Position(p) = i /\ Succ(p) = IF i < Len(sessions) THEN sessions[i + 1] ELSE NULL
  BY <1>1, PositionIsUnique
<1>4. sessions # <<>>
  BY <1>1
<1>5. \A q \in Range(sessions) : Position(q) \in 1 .. Len(sessions)
                                 /\ sessions[Position(q)] = q
  BY PositionOfLinked DEF TableOK
<1>6. Succ(p) \in Range(sessions) \cup {NULL} /\ heap[p].id \in TableIds
  BY SuccIsLinked DEF TableOK, TableIds
\* behind the next is what was behind the record, but for itself
<1>7. ASSUME NEW q \in Range(sessions)
      PROVE  Behind(Succ(p), q) <=> Behind(p, q) /\ q # p
  <2>1. Behind(p, q) /\ q # p <=> i < Position(q)
    BY <1>1, <1>2, <1>3, <1>5 DEF Behind
  <2>2. CASE i < Len(sessions)
    <3>1. i + 1 \in DOMAIN sessions /\ Succ(p) = sessions[i + 1]
      BY <1>2, <1>3, <2>2
    <3>2. Position(Succ(p)) = i + 1 /\ Succ(p) \in Range(sessions)
      BY <3>1, PositionIsUnique DEF Range
    <3> QED
      BY <1>2, <1>5, <2>1, <3>2 DEF Behind
  <2>3. CASE ~(i < Len(sessions))
    <3>1. Succ(p) = NULL /\ ~(i < Position(q))
      BY <1>2, <1>3, <1>5, <2>3
    <3>2. NULL \notin Range(sessions)
      BY <1>2, PtrAssumption DEF TableOK
    <3> QED
      BY <2>1, <3>1, <3>2 DEF Behind
  <2> QED
    BY <2>2, <2>3
<1>8. /\ \A id \in listed : ~FitsInt(id) => id \in TableIds
      /\ \A q \in Range(sessions) :
            /\ FitsInt(heap[q].id) => heap[q].id \in listed \/ Behind(p, q)
            /\ heap[q].id \in listed => ~Behind(p, q)
  BY <1>4 DEF Listed
<1>9. \A q \in Range(sessions) : heap[q].id = heap[p].id => q = p
  BY <1>2 DEF UniqueIds
<1> QED
  BY <1>6, <1>7, <1>8, <1>9 DEF Listed

\* A delete call that finds nothing was for an id that no session of the table has,
\* or that no int holds.
LEMMA NothingToDelete ==
    ASSUME NEW p, NEW ids \in Seq(Ids), ids # <<>>, TableOK, Listed(p, Range(ids)),
           Found(AsInt(Head(ids))) = {}
    PROVE  Listed(p, Range(Tail(ids)))
<1>1. Range(ids) = Range(Tail(ids)) \cup {Head(ids)}
  BY InjectiveTail
<1>2. \A q \in Range(sessions) : heap[q].id # AsInt(Head(ids))
  BY DEF Found, Alive, TableOK, ListOK
<1>3. \A q \in Range(sessions) :
         FitsInt(heap[q].id) /\ heap[q].id \in Range(ids) => heap[q].id \in Range(Tail(ids))
  BY <1>1, <1>2 DEF FitsInt
<1> QED
  BY <1>1, <1>3 DEF Listed

\* A delete call takes out the session it was made for, or confuses two.
LEMMA OneLessListed ==
    ASSUME NEW p, NEW ids \in Seq(Ids), ids # <<>>, TableOK, UniqueIds,
           TableIds \subseteq Existing, Listed(p, Range(ids)),
           NEW x \in DOMAIN heap, heap[x].id = AsInt(Head(ids)), UnlinkAndFree(x)
    PROVE  Listed(p, Range(Tail(ids)))'
<1> DEFINE id == Head(ids)
           rest == Range(Tail(ids))
<1>1. Range(ids) = rest \cup {id} /\ id \in Nat
  BY InjectiveTail, IdsAssumption
<1>2. Range(sessions) = DOMAIN heap /\ x # NULL /\ NULL \notin Range(sessions)
  BY PtrAssumption DEF TableOK, ListOK
<1>3. /\ Range(sessions') = Range(sessions) \ {x}
      /\ \A q \in Range(sessions') : heap'[q] = heap[q]
      /\ \A o, q : q \in Range(sessions') /\ o # x => (Behind(o, q)' <=> Behind(o, q))
  BY UnlinkKeepsOrder
<1>4. FitsInt(heap[x].id)
  BY <1>1, AsIntFits
\* nothing but the session found is gone
<1>5. TableIds' = TableIds \ {heap[x].id} /\ heap[x].id \in TableIds
  <2>1. TableIds' = {heap[q].id : q \in Range(sessions) \ {x}}
    BY <1>3 DEF TableIds
  <2>2. \A q \in Range(sessions) : heap[q].id = heap[x].id => q = x
    BY <1>2 DEF UniqueIds
  <2> QED
    BY <1>2, <2>1, <2>2 DEF TableIds
<1>6. sessions # <<>>
  BY <1>2 DEF Range
<1>7. \A i \in rest : ~FitsInt(i) => i \in TableIds'
  BY <1>1, <1>4, <1>5, <1>6 DEF Listed
<1>8. Confused => Confused'
  BY <1>4, <1>5 DEF Confused
<1>9. CASE p = x
  <2>1. Behind(p, x) /\ p \in Range(sessions)
    <3>1. Position(x) \in 1 .. Len(sessions) /\ Len(sessions) \in Nat
      BY <1>2, PositionOfLinked DEF TableOK
    <3> QED
      BY <1>2, <1>9, <3>1 DEF Behind
  <2>2. heap[x].id \notin Range(ids)
    BY <1>2, <1>6, <2>1 DEF Listed
  <2>3. ~FitsInt(id)
    BY <1>1, <2>2 DEF FitsInt
  <2>4. id \in TableIds'
    BY <1>1, <1>4, <1>5, <1>6, <2>3 DEF Listed
  <2>5. AsInt(id) \in Existing \ TableIds'
    BY <1>5
  <2>6. Confused'
    BY <2>3, <2>4, <2>5 DEF Confused
  <2>7. p \notin Range(sessions') \cup {NULL}
    BY <1>2, <1>3, <1>9
  <2> QED
    BY <1>7, <2>6, <2>7 DEF Listed
<1>10. CASE p # x
  <2>1. ASSUME p \in Range(sessions') \cup {NULL}, NEW q \in Range(sessions')
        PROVE  /\ FitsInt(heap'[q].id) => heap'[q].id \in rest \/ Behind(p, q)'
               /\ heap'[q].id \in rest => ~Behind(p, q)'
    <3>1. q \in Range(sessions) /\ q # x /\ heap'[q] = heap[q] /\ heap[q].id # heap[x].id
      BY <1>2, <1>3 DEF UniqueIds
    <3>2. Behind(p, q)' <=> Behind(p, q)
      BY <1>3, <1>10
    <3>3. /\ FitsInt(heap[q].id) => heap[q].id \in Range(ids) \/ Behind(p, q)
          /\ heap[q].id \in Range(ids) => ~Behind(p, q)
      BY <1>3, <1>6, <2>1, <3>1 DEF Listed
    <3>4. FitsInt(heap[q].id) => heap[q].id # id
      BY <3>1 DEF FitsInt
    <3> QED
      BY <1>1, <3>1, <3>2, <3>3, <3>4
  <2>2. ASSUME p \notin Range(sessions') \cup {NULL}
        PROVE  Confused'
    BY <1>3, <1>6, <1>8, <1>10, <2>2 DEF Listed
  <2> QED
    BY <1>7, <2>1, <2>2 DEF Listed
<1> QED
  BY <1>9, <1>10

\* Listing says nothing but of the list and its records.
LEMMA ListedSame ==
    ASSUME NEW p, NEW listed, UNCHANGED <<sessions, heap>>
    PROVE  Listed(p, listed)' <=> Listed(p, listed)
BY DEF Listed, Behind, Position, Confused, TableIds

\* When nothing is ahead, the sessions left have ids that no int holds.
LEMMA NothingAhead ==
    ASSUME TableOK, Listed(NULL, {})
    PROVE  \A id \in TableIds : ~FitsInt(id)
<1>1. NULL \notin Range(sessions)
  BY PtrAssumption DEF TableOK, ListOK
<1> QED
  BY <1>1 DEF Listed, Behind, TableIds, Range

-----------------------------------------------------------------------------
(* The loop. *)

\* What is in the table while it is cleaned was there when the driver started.
Known == stage \in {"list", "delete"} => TableIds \subseteq Existing

\* Between two calls the next page begins in front of all that is still to be
\* listed.
Between ==
    on = NULL =>
        /\ stage = "list" => sessionStart = UINT_MAX \/ Listed(start, {})
        /\ stage = "delete" => Listed(start, Range(todo))

\* A page is listed, from the first record on or from where the last page ended.
ListsOn(t) ==
    op[t] = "all" =>
        /\ pc[t] \in {"check", "all_begin"} => key[t] = UINT_MAX \/ Listed(start, {})
        /\ pc[t] = "all_step" => r[t] # NULL /\ Listed(r[t], Range(IdsOf(out[t])))
        /\ pc[t] = "reply" => /\ Listed(start, Range(IdsOf(out[t])))
                              /\ out[t] = <<>> => start = NULL

\* The first session of the page is deleted, or what its id is taken for.
Deletes(t) ==
    op[t] = "del" =>
        /\ pc[t] \in {"check", "del_find"} => key[t] = AsInt(Head(todo))
        /\ pc[t] # "reply" => Listed(start, Range(todo))
        /\ pc[t] = "del_unlink" => heap[r[t]].id = AsInt(Head(todo))
        /\ pc[t] = "reply" => Listed(start, Range(Tail(todo)))

Cleaning ==
    /\ Known /\ Between
    /\ \A t \in Threads : ListsOn(t) /\ Deletes(t)

\* The handler lists the page it was asked for.
LEMMA WorkListsOn ==
    ASSUME SerialClientInv, NEW t \in Threads, ~cancelled[t], op[t] = "all",
           ListsOn(t), Work(t)
    PROVE  ListsOn(t)'
<1> USE DEF At, Goto
<1>0. TypedInv /\ TableOK /\ LocalsOK /\ CallOK(t) /\ UniqueIds
  BY DEF SerialClientInv, ServerInv, TypedInv, BaseInv, CallsOK
<1>1. out[t] \in Seq(Entry) /\ op'[t] = "all"
  BY <1>0, WorkGoesOn DEF LocalsOK, TypedInv
<1>2. CASE CheckCancelled(t)
  <2>1. /\ pc[t] = "check" /\ pc'[t] = "all_begin" /\ key' = key
        /\ UNCHANGED <<sessions, heap, start>>
    BY <1>0, <1>2 DEF CheckCancelled, LocalsOK, table
  <2>2. key[t] = UINT_MAX \/ Listed(start, {})
    BY <1>1, <1>2, <2>1, WorkGoesOn DEF ListsOn
  <2>3. key'[t] = UINT_MAX \/ Listed(start, {})'
    BY <2>1, <2>2, ListedSame
  <2> QED
    BY <2>1, <2>3 DEF ListsOn
<1>3. CASE AllBegin(t)
  <2>1. /\ pc[t] = "all_begin" /\ out' = out /\ out[t] = <<>>
        /\ UNCHANGED <<sessions, heap>>
        /\ start' = IF key[t] = UINT_MAX THEN First ELSE start
    BY <1>0, <1>3 DEF AllBegin, CallOK
  <2>2. Range(IdsOf(out'[t])) = {}
    <3>1. IdsOf(out'[t]) = <<>>
      BY <1>1, <2>1, IdsOfTyped
    <3> QED
      BY <3>1 DEF Range
  <2>3. Listed(start, {})'
    <3>1. CASE key[t] = UINT_MAX
      BY <1>0, <2>1, <3>1, FirstListsAll, ListedSame
    <3>2. CASE key[t] # UINT_MAX
      <4>1. Listed(start, {}) /\ start' = start
        BY <2>1, <3>2 DEF ListsOn
      <4> QED
        BY <2>1, <4>1, ListedSame
    <3> QED
      BY <3>1, <3>2
  <2>4. CASE start' = NULL
    <3>1. pc'[t] = "reply"
      BY <1>0, <1>3, <2>4 DEF AllBegin, Return, LocalsOK
    <3> QED
      BY <2>2, <2>3, <2>4, <3>1 DEF ListsOn
  <2>5. CASE start' # NULL
    <3>1. pc'[t] = "all_step" /\ r'[t] = start'
      BY <1>0, <1>3, <2>5 DEF AllBegin, LocalsOK
    <3> QED
      BY <2>2, <2>3, <2>5, <3>1 DEF ListsOn
  <2> QED
    BY <2>4, <2>5
<1>4. CASE AllStep(t)
  <2> DEFINE e == [id |-> heap[r[t]].id, what |-> heap[r[t]].state]
  <2>1. /\ pc[t] = "all_step" /\ UNCHANGED <<sessions, heap>>
        /\ r[t] \in Range(sessions) /\ heap[r[t]] \in Record
        /\ out'[t] = Append(out[t], e)
    BY <1>0, <1>4 DEF AllStep, Alive, LocalsOK, TableOK, ListOK
  <2>2. e \in Entry /\ e.id = heap[r[t]].id
    BY <2>1 DEF Record, Entry
  <2> HIDE DEF e
  <2>3. /\ Range(IdsOf(out'[t])) = Range(IdsOf(out[t])) \cup {heap[r[t]].id}
        /\ out'[t] # <<>>
    <3>1. IdsOf(out[t]) \in Seq(Ids) /\ e.id \in Ids
      BY <1>1, <2>2, IdsOfTyped DEF Entry
    <3>2. IdsOf(out'[t]) = Append(IdsOf(out[t]), e.id)
      BY <1>1, <2>1, <2>2, IdsOfSteps
    <3>3. out'[t] # <<>>
      BY <1>1, <2>1, <2>2
    <3> QED
      BY <2>2, <3>1, <3>2, <3>3, InjectiveAppend
  <2>4. Listed(r[t], Range(IdsOf(out[t])))
    BY <1>1, <2>1, WorkGoesOn DEF ListsOn
  <2>5. Listed(Succ(r[t]), Range(IdsOf(out'[t])))
    BY <1>0, <2>1, <2>3, <2>4, OneMoreListed
  <2>6. CASE ~PageEnds(t)
    <3>1. Succ(r[t]) # NULL /\ r'[t] = Succ(r[t]) /\ pc'[t] = "all_step"
      BY <1>0, <1>4, <2>1, <2>6 DEF AllStep, PageEnds, LocalsOK
    <3> QED
      BY <2>1, <2>5, <3>1, ListedSame DEF ListsOn
  <2>7. CASE PageEnds(t)
    <3>1. start' = Succ(r[t]) /\ pc'[t] = "reply"
      BY <1>0, <1>4, <2>7 DEF AllStep, Return, LocalsOK
    <3> QED
      BY <2>1, <2>3, <2>5, <3>1, ListedSame DEF ListsOn
  <2> QED
    BY <2>6, <2>7
<1>5. CASE Dangling(t)
  <2>1. /\ UNCHANGED <<sessions, heap, start, pc, op, key, r, out>>
    BY <1>5 DEF Dangling, Undefined, table, locals
  <2>2. /\ pc[t] \in {"check", "all_begin"} => key[t] = UINT_MAX \/ Listed(start, {})'
        /\ pc[t] = "all_step" => r[t] # NULL /\ Listed(r[t], Range(IdsOf(out[t])))'
        /\ pc[t] = "reply" => Listed(start, Range(IdsOf(out[t])))'
    BY <2>1, ListedSame DEF ListsOn
  <2> QED
    BY <2>1, <2>2 DEF ListsOn
<1>6. ~Reply(t) /\ ~AddStep(t)
  BY <1>0 DEF Work, Reply, AddStep, AddRead, AddCancelled, AddEnd, AddCount, AddFind,
              AddLink, AddFill, CallOK
<1>7. ~(GetFind(t) \/ GetCopy(t) \/ DelFind(t) \/ DelUnlink(t))
  BY <1>0 DEF GetFind, GetCopy, DelFind, DelUnlink, Find, CallOK
<1>8. ~ClosedStep(t)
  BY <1>0 DEF ClosedStep, ClosedBegin, ClosedSkip, ClosedTake, ClosedOverflow,
              ClosedNext, ClosedWrite, CallOK
<1> QED
  BY <1>2, <1>3, <1>4, <1>5, <1>6, <1>7, <1>8 DEF Work, Run

\* The handler deletes the session the driver means, or confuses it with another.
LEMMA WorkDeletes ==
    ASSUME SerialClientInv, Known, NEW t \in Threads, ~cancelled[t],
           stage = "delete", op[t] = "del", Deletes(t), Work(t)
    PROVE  Deletes(t)'
<1> USE DEF At, Goto
<1>0. TypedInv /\ TableOK /\ LocalsOK /\ CallOK(t) /\ UniqueIds /\ HoldsLive(t)
  BY DEF SerialClientInv, ServerInv, TypedInv, BaseInv, CallsOK
<1>1. op'[t] = "del" /\ todo' = todo
  BY <1>0, WorkGoesOn DEF Work, driver, TypedInv
<1>2. todo \in Seq(Ids) /\ todo # <<>>
  BY <1>0 DEF TypedInv, ClientTypeOK, InputsOK
<1>3. Listed(start, Range(todo))
  BY DEF Deletes, Work
<1>4. CASE CheckCancelled(t)
  <2>1. /\ pc[t] = "check" /\ pc'[t] = "del_find" /\ key' = key
        /\ key[t] = AsInt(Head(todo))
        /\ UNCHANGED <<sessions, heap, start>>
    BY <1>0, <1>4 DEF CheckCancelled, LocalsOK, table, Deletes
  <2>2. Listed(start, Range(todo))'
    BY <1>1, <1>3, <2>1, ListedSame
  <2> QED
    BY <1>1, <2>1, <2>2 DEF Deletes
<1>5. CASE DelFind(t)
  <2>1. /\ pc[t] = "del_find" /\ key' = key /\ key[t] = AsInt(Head(todo))
        /\ UNCHANGED <<sessions, heap, start>>
    BY <1>5 DEF DelFind, Find, table, Deletes
  <2>2. CASE Found(key[t]) = {} /\ pc'[t] = "reply"
    <3>1. Listed(start, Range(Tail(todo)))
      BY <1>0, <1>2, <1>3, <2>1, <2>2, NothingToDelete
    <3>2. Listed(start, Range(Tail(todo)))'
      BY <1>1, <2>1, <3>1, ListedSame
    <3> QED
      BY <2>2, <3>2 DEF Deletes
  <2>3. ASSUME NEW p \in Found(key[t]), pc'[t] = "del_unlink", r'[t] = p
        PROVE  Deletes(t)'
    <3>1. heap'[r'[t]].id = AsInt(Head(todo))
      BY <2>1, <2>3 DEF Found
    <3>2. Listed(start, Range(todo))'
      BY <1>1, <1>3, <2>1, ListedSame
    <3> QED
      BY <1>1, <2>3, <3>1, <3>2 DEF Deletes
  <2>4. \/ Found(key[t]) = {} /\ pc'[t] = "reply"
        \/ \E p \in Found(key[t]) : pc'[t] = "del_unlink" /\ r'[t] = p
    BY <1>0, <1>5 DEF DelFind, Find, Return, LocalsOK
  <2> QED
    BY <2>2, <2>3, <2>4
<1>6. CASE DelUnlink(t)
  <2>1. /\ pc'[t] = "reply" /\ UnlinkAndFree(r[t]) /\ start' = start
        /\ r[t] \in DOMAIN heap /\ heap[r[t]].id = AsInt(Head(todo))
    BY <1>0, <1>6 DEF DelUnlink, Return, Deletes, LocalsOK, Alive
  <2>2. TableIds \subseteq Existing
    BY DEF Known
  <2>3. Listed(start, Range(Tail(todo)))'
    BY <1>0, <1>1, <1>2, <1>3, <2>1, <2>2, OneLessListed
  <2> QED
    BY <2>1, <2>3 DEF Deletes
<1>7. CASE Dangling(t)
  BY <1>0, <1>7 DEF Dangling, HoldsLive, CallOK
<1>8. ~Reply(t) /\ ~AddStep(t)
  BY <1>0 DEF Work, Reply, AddStep, AddRead, AddCancelled, AddEnd, AddCount, AddFind,
              AddLink, AddFill, CallOK
<1>9. ~(GetFind(t) \/ GetCopy(t) \/ AllBegin(t) \/ AllStep(t))
  BY <1>0 DEF GetFind, GetCopy, Find, AllBegin, AllStep, CallOK
<1>10. ~ClosedStep(t)
  BY <1>0 DEF ClosedStep, ClosedBegin, ClosedSkip, ClosedTake, ClosedOverflow,
              ClosedNext, ClosedWrite, CallOK
<1> QED
  BY <1>4, <1>5, <1>6, <1>7, <1>8, <1>9, <1>10 DEF Work, Run

\* An empty table is clean.
LEMMA EmptyIsClean ==
    ASSUME \A t \in Threads : op'[t] = "none", sessions' = <<>>, start' = NULL
    PROVE  Cleaning' /\ TableIds' = {}
<1>1. TableIds' = {}
  BY DEF TableIds, Range
<1>2. Known' /\ Between'
  BY <1>1 DEF Known, Between, Listed
<1>3. \A t \in Threads : ListsOn(t)' /\ Deletes(t)'
  BY DEF ListsOn, Deletes
<1> QED
  BY <1>1, <1>2, <1>3 DEF Cleaning

\* The answer of a page is what the driver deletes, and the answer of the last
\* deletion makes it ask for the next page.
LEMMA AnswerCleans ==
    ASSUME SerialClientInv, Cleaning, NEW t \in Threads, on = t, Alone(t), Answer(t)
    PROVE  /\ Cleaning'
           /\ stage = "list" /\ stage' \in {"kill", "add"} =>
                \A id \in TableIds' : id \in Existing /\ ~FitsInt(id)
<1>0. TypedInv /\ TableOK /\ LocalsOK /\ OneCall
  BY DEF SerialClientInv, TypedInv, BaseInv
<1>1. /\ Answered(status[t], IdsOf(out[t]), key[t])
      /\ status[t] \notin {"DEADLINE_EXCEEDED", "UNAVAILABLE"}
  BY <1>0 DEF Answer, LocalsOK
<1>2. /\ UNCHANGED <<sessions, heap, start>> /\ pc[t] = "reply"
      /\ op' = [op EXCEPT ![t] = "none"]
  BY DEF Answer, Reply, table, At
<1>3. Makes(stage, op[t])
  BY <1>0, DriverAssumption DEF OneCall
<1>4. TableIds' = TableIds
  BY <1>2 DEF TableIds
<1>5. \A u \in Threads : op'[u] = "none"
  BY <1>0, <1>2 DEF Alone, LocalsOK, TypedInv, BaseInv, CallsOK, CallOK
<1>6. \A u \in Threads : ListsOn(u)' /\ Deletes(u)'
  BY <1>5 DEF ListsOn, Deletes
<1>7. Known'
  BY <1>1, <1>4, AnsweredMoves DEF Cleaning, Known
<1>8. IdsOf(out[t]) = <<>> <=> out[t] = <<>>
  BY <1>0, IdsOfTyped DEF LocalsOK
<1>9. Range(<<>>) = {}
  BY DEF Range
<1>10. CASE stage = "list"
  <2>1. op[t] = "all"
    BY <1>3, <1>10 DEF Makes
  <2>2. /\ Listed(start, Range(IdsOf(out[t])))
        /\ out[t] = <<>> => start = NULL
    BY <1>2, <2>1 DEF Cleaning, ListsOn
  <2>3. CASE IdsOf(out[t]) # <<>>
    <3>1. stage' = "delete" /\ todo' = IdsOf(out[t])
      BY <1>1, <1>10, <2>3 DEF Answered, ListAnswered, DeleteAnswered, AddAnswered,
                               CollectAnswered, Again
    <3>2. Listed(start, Range(todo))'
      BY <1>2, <2>2, <3>1, ListedSame
    <3> QED
      BY <1>6, <1>7, <3>1, <3>2 DEF Cleaning, Between
  <2>4. CASE IdsOf(out[t]) = <<>>
    <3>1. stage' \in {"kill", "add"}
      BY <1>1, <1>10, <2>4 DEF Answered, ListAnswered, DeleteAnswered, AddAnswered,
                               CollectAnswered, Again
    <3>2. Listed(NULL, {})
      BY <1>8, <1>9, <2>2, <2>4
    <3>3. \A id \in TableIds' : id \in Existing /\ ~FitsInt(id)
      BY <1>0, <1>4, <1>10, <3>2, NothingAhead DEF Cleaning, Known
    <3> QED
      BY <1>6, <1>7, <3>1, <3>3 DEF Cleaning, Between
  <2> QED
    BY <2>3, <2>4
<1>11. CASE stage = "delete"
  <2>1. op[t] = "del"
    BY <1>3, <1>11 DEF Makes
  <2>2. Listed(start, Range(Tail(todo)))
    BY <1>2, <2>1 DEF Cleaning, Deletes
  <2>3. todo' = Tail(todo) /\ stage' = IF Tail(todo) = <<>> THEN "list" ELSE "delete"
    BY <1>1, <1>11 DEF Answered, ListAnswered, DeleteAnswered, AddAnswered,
                       CollectAnswered, Again
  <2>4. Listed(start, Range(todo))'
    BY <1>2, <2>2, <2>3, ListedSame
  <2>5. Tail(todo) = <<>> => Listed(start, {})'
    BY <1>2, <1>9, <2>2, ListedSame
  <2> QED
    BY <1>6, <1>7, <1>11, <2>3, <2>4, <2>5 DEF Cleaning, Between
<1>12. CASE stage \notin {"list", "delete"}
  <2>1. stage' \notin {"list", "delete"}
    BY <1>1, <1>12, AnsweredMoves
  <2>2. Between'
    BY <2>1 DEF Between
  <2> QED
    BY <1>6, <1>7, <1>12, <2>2 DEF Cleaning
<1> QED
  BY <1>10, <1>11, <1>12

\* Every step of the loop keeps what is still to be listed behind the pointer, and
\* the loop ends when nothing is left but sessions it has no id for.
LEMMA CleaningInductive ==
    ASSUME NoneCut, SerialClientInv, Cleaning, [ClientNext]_allVars
    PROVE  /\ Cleaning'
           /\ stage = "list" /\ stage' \in {"kill", "add"} =>
                \A id \in TableIds' : id \in Existing /\ ~FitsInt(id)
<1>0. TypedInv /\ BaseInv /\ TableOK /\ LocalsOK /\ CallsOK /\ OneCall /\ UniqueIds
  BY DEF SerialClientInv, ServerInv, TypedInv, BaseInv
<1>1. ASSUME NEW t \in Threads, on = NULL, on' = t, Alone(t), pc[t] = "idle", DriverCall(t)
      PROVE  Cleaning' /\ stage' = stage
  <2>1. UNCHANGED <<stage, sessions, heap, start, todo, sessionStart, out>>
    BY <1>1 DEF DriverCall, ListCall, DeleteCall, AddCall, CollectCall, Issue, Call, table
  <2>2. TableIds' = TableIds
    BY <2>1 DEF TableIds
  <2>3. Known' /\ Between'
    BY <1>1, <2>1, <2>2, DriverAssumption DEF Cleaning, Known, Between
  <2>4. ASSUME NEW u \in Threads \ {t}
        PROVE  ListsOn(u)' /\ Deletes(u)'
    <3>1. op[u] = "none" /\ op'[u] = op[u]
      BY <1>0, <1>1 DEF Alone, CallsOK, CallOK, DriverCall, ListCall, DeleteCall, AddCall,
                        CollectCall, Issue, Call, LocalsOK
    <3> QED
      BY <3>1 DEF ListsOn, Deletes
  <2>5. CASE ListCall(t)
    <3>1. /\ stage = "list" /\ op'[t] = "all" /\ pc'[t] = "check" /\ key'[t] = sessionStart
      BY <1>0, <2>5 DEF ListCall, Issue, Call, Goto, LocalsOK
    <3>2. sessionStart = UINT_MAX \/ Listed(start, {})
      BY <1>1, <3>1 DEF Cleaning, Between
    <3>3. key'[t] = UINT_MAX \/ Listed(start, {})'
      BY <2>1, <3>1, <3>2, ListedSame
    <3>4. ListsOn(t)' /\ Deletes(t)'
      BY <3>1, <3>3 DEF ListsOn, Deletes
    <3> QED
      BY <2>1, <2>3, <2>4, <3>4 DEF Cleaning
  <2>6. CASE DeleteCall(t)
    <3>1. /\ stage = "delete" /\ op'[t] = "del" /\ pc'[t] = "check"
          /\ key'[t] = AsInt(Head(todo))
      BY <1>0, <2>6 DEF DeleteCall, Issue, Call, Goto, LocalsOK
    <3>2. Listed(start, Range(todo))
      BY <1>1, <3>1 DEF Cleaning, Between
    <3>3. Listed(start, Range(todo))'
      BY <2>1, <3>2, ListedSame
    <3>4. ListsOn(t)' /\ Deletes(t)'
      BY <2>1, <3>1, <3>3 DEF ListsOn, Deletes
    <3> QED
      BY <2>1, <2>3, <2>4, <3>4 DEF Cleaning
  <2>7. CASE AddCall(t) \/ CollectCall(t)
    <3>1. op'[t] \in {"add", "closed"}
      BY <1>0, <2>7 DEF AddCall, CollectCall, Issue, Call, LocalsOK
    <3>2. ListsOn(t)' /\ Deletes(t)'
      BY <3>1 DEF ListsOn, Deletes
    <3> QED
      BY <2>1, <2>3, <2>4, <3>2 DEF Cleaning
  <2> QED
    BY <1>1, <2>5, <2>6, <2>7 DEF DriverCall
<1>2. ASSUME NEW t \in Threads, on = t, Alone(t), ~cancelled[t],
             Receive(t) \/ Deliver(t) \/ Work(t)
      PROVE  Cleaning' /\ stage' = stage
  <2>1. UNCHANGED <<stage, on, todo>> /\ op' = op /\ Run(t)
    <3>1. CASE Work(t)
      BY <1>0, <3>1, WorkGoesOn DEF Work, driver
    <3>2. CASE Receive(t) \/ Deliver(t)
      BY <3>2 DEF Receive, AddRead, Deliver, ClosedWrite, driver, Run, AddStep, ClosedStep
    <3> QED
      BY <1>2, <3>1, <3>2
  <2>2. Makes(stage, op[t])
    BY <1>0, <1>2, DriverAssumption DEF OneCall
  <2>3. Between'
    BY <1>2, <2>1, DriverAssumption DEF Between
  <2>4. ASSUME NEW u \in Threads \ {t}
        PROVE  ListsOn(u)' /\ Deletes(u)'
    <3>1. op'[u] = "none"
      BY <1>0, <1>2, <2>1 DEF Alone, CallsOK, CallOK
    <3> QED
      BY <3>1 DEF ListsOn, Deletes
  <2>5. Known'
    <3>1. ASSUME stage \in {"list", "delete"}
          PROVE  TableIds' \subseteq TableIds
      <4>1. ~AddLink(t)
        BY <1>0, <2>2, <3>1 DEF AddLink, At, CallsOK, CallOK, Makes
      <4> QED
        BY <1>0, <1>2, <2>1, <4>1, TableIdsStep
    <3> QED
      BY <2>1, <3>1 DEF Cleaning, Known
  <2>6. ListsOn(t)' /\ Deletes(t)'
    <3>1. CASE op[t] \notin {"all", "del"}
      BY <2>1, <3>1 DEF ListsOn, Deletes
    <3>2. CASE op[t] \in {"all", "del"}
      <4>1. Work(t)
        BY <1>0, <1>2, <3>2 DEF Receive, AddRead, Deliver, ClosedWrite, At, CallsOK, CallOK
      <4>2. CASE op[t] = "all"
        <5>1. ListsOn(t)'
          BY <1>2, <4>1, <4>2, WorkListsOn DEF Cleaning
        <5> QED
          BY <2>1, <4>2, <5>1 DEF Deletes
      <4>3. CASE op[t] = "del"
        <5>1. stage = "delete"
          BY <2>2, <4>3 DEF Makes
        <5>2. Deletes(t)'
          BY <1>2, <4>1, <4>3, <5>1, WorkDeletes DEF Cleaning
        <5> QED
          BY <2>1, <4>3, <5>2 DEF ListsOn
      <4> QED
        BY <3>2, <4>2, <4>3
    <3> QED
      BY <3>1, <3>2
  <2> QED
    BY <2>1, <2>3, <2>4, <2>5, <2>6 DEF Cleaning
<1>3. ASSUME Die
      PROVE  Cleaning' /\ TableIds' = {}
  BY <1>3, DieEndsCalls, EmptyIsClean
<1>4. ASSUME NoServer, on = NULL
      PROVE  Cleaning' /\ TableIds' = {}
  <2>1. sessions' = <<>> /\ start' = NULL /\ op' = op
    BY <1>0, <1>4 DEF NoServer, OneCall, vars, table, locals
  <2>2. \A t \in Threads : op'[t] = "none"
    BY <1>0, <1>4, <2>1, DriverAssumption DEF OneCall, CallsOK, CallOK
  <2> QED
    BY <2>1, <2>2, EmptyIsClean
<1>5. ASSUME UNCHANGED <<vars, driver>>
      PROVE  Cleaning' /\ stage' = stage
  <2>1. /\ UNCHANGED <<sessions, heap, start, op, pc, key, r, out>>
        /\ UNCHANGED <<stage, on, todo, sessionStart>>
    BY <1>5 DEF vars, table, locals, driver
  <2>2. TableIds' = TableIds
    BY <2>1 DEF TableIds
  <2>3. Known'
    BY <2>1, <2>2 DEF Cleaning, Known
  <2>4. Between'
    <3>1. on = NULL => /\ stage = "list" => sessionStart = UINT_MAX \/ Listed(start, {})'
                       /\ stage = "delete" => Listed(start, Range(todo))'
      BY <2>1, ListedSame DEF Cleaning, Between
    <3> QED
      BY <2>1, <3>1 DEF Between
  <2>5. ASSUME NEW t \in Threads
        PROVE  ListsOn(t)' /\ Deletes(t)'
    <3>1. ListsOn(t) /\ Deletes(t)
      BY DEF Cleaning
    <3>2. /\ Listed(start, {}) <=> Listed(start, {})'
          /\ Listed(r[t], Range(IdsOf(out[t]))) <=> Listed(r[t], Range(IdsOf(out[t])))'
          /\ Listed(start, Range(IdsOf(out[t]))) <=> Listed(start, Range(IdsOf(out[t])))'
          /\ Listed(start, Range(todo)) <=> Listed(start, Range(todo))'
          /\ Listed(start, Range(Tail(todo))) <=> Listed(start, Range(Tail(todo)))'
      BY <2>1, ListedSame
    <3> QED
      BY <2>1, <3>1, <3>2 DEF ListsOn, Deletes
  <2> QED
    BY <2>1, <2>3, <2>4, <2>5 DEF Cleaning
<1>6. Crash \/ KillTestServer => Die
  BY DEF Crash, KillTestServer
<1>7. stage' = stage => ~(stage = "list" /\ stage' \in {"kill", "add"})
  OBVIOUS
<1> QED
  BY <1>0, <1>1, <1>2, <1>3, <1>4, <1>5, <1>6, <1>7, SerialCases, AnswerCleans DEF allVars

\* The loop begins with a table that holds what was there, and asks for its first
\* page.
LEMMA CleaningInit ==
    ASSUME ClientInit
    PROVE  SerialClientInv /\ Cleaning
<1>1. SerialClientInv
  BY SerialClientInit
<1>2. \A t \in Threads : ListsOn(t) /\ Deletes(t)
  BY DEF ClientInit, ThreadsIdle, ListsOn, Deletes
<1>3. Known
  <2>1. \A p \in DOMAIN heap : heap[p].id \in Existing
    BY PopulatedTable DEF ClientInit
  <2> QED
    BY <1>1, <2>1, TableIdsOfHeap DEF SerialClientInv, TypedInv, BaseInv, Known
<1>4. Between
  BY DEF ClientInit, Between
<1> QED
  BY <1>1, <1>2, <1>3, <1>4 DEF Cleaning

\* When opof_delete_all_sessions returns OK, the table it cleaned holds no session
\* whose id an int holds, whatever ids there were and also when the server is killed
\* and started again in between.
THEOREM CleanupEmptiesSerial ==
    ASSUME OnlyKills
    PROVE  ClientSpec => CleanupEmpties
<1> DEFINE Inv == SerialClientInv /\ Cleaning
           Emptied == CleanupReturnsOK => \A id \in TableIds' : ~FitsInt(id)
<1>1. ClientInit => Inv
  BY CleaningInit
<1>2. Inv /\ [ClientNext]_allVars => Inv' /\ [Emptied]_allVars
  BY OnlyKills, KillsCutNone, SerialClientStep, CleaningInductive DEF CleanupReturnsOK
<1> QED
  BY <1>1, <1>2, PTL DEF ClientSpec, CleanupEmpties

\* The only undefined behaviour so far is that of a clean-up that has confused two
\* sessions.
Defined ==
    \/ ub = "none"
    \/ ub = "dangling" /\ stage = "list" /\ on # NULL /\ Confused

\* The handler at work writes past the end of no array, no other thread touches what
\* it touches, and it follows a dangling pointer only where a page begins.
LEMMA DefinedStep ==
    ASSUME NoneCut, SerialClientInv, SerialClientInv', Cleaning, ub = "none",
           [ClientNext]_allVars
    PROVE  Defined'
<1>0. TypedInv /\ BaseInv /\ TableOK /\ LocalsOK /\ OneCall /\ ServerInv /\ ServerInv'
  BY DEF SerialClientInv, TypedInv, BaseInv
<1>1. ASSUME NEW t \in Threads, on = t, Work(t)
      PROVE  Defined'
  <2>1. HoldsLive(t)
    BY <1>0 DEF ServerInv
  <2>2. CASE Dangling(t)
    <3>1. pc[t] = "all_step" /\ ~Alive(r[t])
      BY <2>1, <2>2 DEF Dangling, HoldsLive
    <3>2. op[t] = "all" /\ stage = "list" /\ on # NULL
      BY <1>0, <1>1, <3>1, DriverAssumption DEF BaseInv, CallsOK, CallOK, OneCall, Makes
    <3>3. r[t] # NULL /\ Listed(r[t], Range(IdsOf(out[t])))
      BY <3>1, <3>2 DEF Cleaning, ListsOn
    <3>4. r[t] \notin Range(sessions)
      BY <1>0, <3>1 DEF Alive, TableOK, ListOK
    <3>5. Confused
      BY <3>3, <3>4 DEF Listed
    <3>6. ub' = "dangling" /\ UNCHANGED <<sessions, heap, stage, on>>
      BY <1>1, <2>2 DEF Dangling, Undefined, table, Work, driver
    <3>7. Confused'
      BY <3>5, <3>6 DEF Confused, TableIds
    <3> QED
      BY <3>2, <3>6, <3>7 DEF Defined
  <2>3. ~ClosedOverflow(t)
    <3>1. ub' # "overflow"
      BY <1>0, DriverAssumption DEF ServerInv, BufferInv
    <3> QED
      BY <3>1 DEF ClosedOverflow, Undefined
  <2>4. Run(t)
    BY <1>1 DEF Work
  <2>5. CASE AddStep(t)
    BY <2>5 DEF AddStep, AddRead, AddCancelled, AddEnd, AddCount, AddFind, AddLink,
                AddFill, Defined
  <2>6. CASE ClosedStep(t)
    BY <2>3, <2>6 DEF ClosedStep, ClosedBegin, ClosedSkip, ClosedTake, ClosedNext,
                      ClosedWrite, Defined
  <2>7. CASE CheckCancelled(t) \/ Reply(t) \/ AllBegin(t) \/ AllStep(t)
    BY <2>7 DEF CheckCancelled, Reply, AllBegin, AllStep, Defined
  <2>8. CASE GetFind(t) \/ GetCopy(t) \/ DelFind(t) \/ DelUnlink(t)
    BY <2>8 DEF GetFind, GetCopy, DelFind, DelUnlink, Find, Defined
  <2> QED
    BY <2>2, <2>4, <2>5, <2>6, <2>7, <2>8 DEF Run
<1>2. ASSUME NEW t \in Threads, DriverCall(t)
      PROVE  Defined'
  BY <1>2 DEF DriverCall, ListCall, DeleteCall, AddCall, CollectCall, Issue, Call, Defined
<1>3. ASSUME NEW t \in Threads, Receive(t) \/ Deliver(t) \/ Answer(t)
      PROVE  Defined'
  BY <1>3 DEF Receive, AddRead, Deliver, ClosedWrite, Answer, Reply, Defined
<1>4. Crash \/ KillTestServer => Defined'
  BY DieEndsCalls DEF Crash, KillTestServer, Defined
<1>5. NoServer \/ UNCHANGED vars => Defined'
  BY DEF NoServer, vars, Defined
<1> QED
  BY <1>0, <1>1, <1>2, <1>3, <1>4, <1>5, SerialCases DEF allVars

\* Once behaviour is undefined nothing more happens.
LEMMA UndefinedStays ==
    ASSUME NoneCut, SerialClientInv, Defined, ub # "none", [ClientNext]_allVars
    PROVE  Defined'
<1>0. TypedInv /\ OneCall
  BY DEF SerialClientInv
<1>1. ASSUME NEW t \in Threads
      PROVE  ~DriverCall(t)
  BY DEF DriverCall, ListCall, DeleteCall, AddCall, CollectCall, Issue, Call, At
<1>2. ASSUME NEW t \in Threads
      PROVE  ~Receive(t) /\ ~Deliver(t) /\ ~Answer(t)
  BY DEF Receive, AddRead, Deliver, ClosedWrite, Answer, Reply, At
<1>3. ASSUME NEW t \in Threads
      PROVE  ~Work(t)
  <2>1. ~AddStep(t) /\ ~ClosedStep(t)
    BY DEF AddStep, AddRead, AddCancelled, AddEnd, AddCount, AddFind, AddLink, AddFill,
           ClosedStep, ClosedBegin, ClosedSkip, ClosedTake, ClosedOverflow, ClosedNext,
           ClosedWrite, At
  <2>2. ~CheckCancelled(t) /\ ~Reply(t) /\ ~AllBegin(t) /\ ~AllStep(t) /\ ~Dangling(t)
    BY DEF CheckCancelled, Reply, AllBegin, AllStep, Dangling, At
  <2>3. ~GetFind(t) /\ ~GetCopy(t) /\ ~DelFind(t) /\ ~DelUnlink(t)
    BY DEF GetFind, GetCopy, DelFind, DelUnlink, Find, At
  <2> QED
    BY <2>1, <2>2, <2>3 DEF Work, Run
<1>4. ~Crash /\ ~KillTestServer
  BY DEF Crash, KillTestServer, Die
<1>5. ~(NoServer /\ on = NULL)
  BY DEF Defined
<1>6. UNCHANGED <<vars, driver>>
  BY <1>0, <1>1, <1>2, <1>3, <1>4, <1>5, SerialCases DEF allVars
<1>7. Confused' <=> Confused
  BY <1>6 DEF vars, table, Confused, TableIds
<1> QED
  BY <1>6, <1>7 DEF vars, driver, Defined

\* One client whose calls are never cut short by a deadline or a broken connection
\* meets undefined behaviour in one way only, though the server follows the static
\* start of opof_server_test.c from one call to the next: whatever ids are in the
\* table, the record start points at is freed only by a delete that was meant for a
\* session whose id no int holds.
THEOREM WellDefinedSerial ==
    ASSUME OnlyKills
    PROVE  ClientSpec => []WellDefined
<1> DEFINE Inv == SerialClientInv /\ Cleaning /\ Defined
<1>1. ClientInit => Inv
  BY CleaningInit DEF ClientInit, ThreadsIdle, Defined
<1>2. Inv /\ [ClientNext]_allVars => Inv'
  BY OnlyKills, KillsCutNone, SerialClientStep, CleaningInductive, DefinedStep,
     UndefinedStays
<1>3. Inv => WellDefined
  BY DEF WellDefined, Defined, Confused
<1> QED
  BY <1>1, <1>2, <1>3, PTL DEF ClientSpec

-----------------------------------------------------------------------------
(* A driver that met no fault has been told of all its sessions. *)

\* The client library hands the ids of the sessions in the table on unchanged.
SmallIds == \A id \in Existing : FitsInt(id)

\* A clean-up that deletes every session it has an id for leaves none then.
LEMMA CleanupLeavesNone ==
    ASSUME NoneCut, SmallIds, SerialClientInv, SerialClientInv', Cleaning,
           [ClientNext]_allVars, stage = "list", stage' \in {"kill", "add"}
    PROVE  sessions' = <<>>
<1>1. TableIds' = {}
  BY CleaningInductive DEF SmallIds
<1>2. \A i \in DOMAIN sessions' : heap'[sessions'[i]].id \in TableIds'
  BY DEF TableIds, Range
<1>3. sessions' \in Seq(Ptr)
  BY DEF SerialClientInv, TypedInv, BaseInv, TableOK
<1> QED
  BY <1>1, <1>2, <1>3

\* A scan that has removed something reports it; one that ends with nothing to
\* report has emptied the table.
ScanFinds(t) ==
    /\ pc[t] = "closed_next" => out[t] # <<>>
    /\ pc[t] = "closed_write" => out[t] # <<>> \/ closed # <<>>
    /\ pc[t] = "reply" /\ op[t] = "closed" => closed # <<>> \/ sessions = <<>>

\* While a batch is added, the table holds acknowledged sessions and those of the
\* batch that were not refused.
NewAdds(t) ==
    op[t] = "add" =>
        /\ Refused(t) \subseteq sessionId .. Undecided(t) - 1
        /\ TableIds \subseteq acked \cup ((sessionId .. Undecided(t) - 1) \ Refused(t))

\* After the cleaning every session that is somewhere is one the server
\* acknowledged, and the driver stops when the table is empty.
NewOnly ==
    /\ stage = "kill" => sessions = <<>>
    /\ stage = "add" /\ on = NULL => TableIds \subseteq acked
    /\ stage \in {"collect", "done"} => Places \subseteq acked
    /\ stage = "done" => sessions = <<>> /\ closed = <<>>
    /\ \A t \in Threads : ScanFinds(t) /\ NewAdds(t)

\* No fault happens in a run that has met none.
LEMMA NoFaultYet ==
    ASSUME TypedInv, [ClientNext]_allVars, faults' = <<>>
    PROVE  faults = <<>> /\ NoneCut /\ ~Crash
<1>1. Append(faults, stage) # <<>>
  <2>1. faults \in Seq(Stages) /\ stage \in Stages
    BY DEF TypedInv, ClientTypeOK
  <2>2. Len(Append(faults, stage)) = Len(faults) + 1 /\ Len(faults) \in Nat
    BY <2>1
  <2>3. Len(<<>>) = 0
    OBVIOUS
  <2> QED
    BY <2>2, <2>3
<1>2. ~Deadline /\ ~Disconnect /\ ~Crash
  BY <1>1 DEF Deadline, Disconnect, Crash, Fault
<1>3. ASSUME NEW t \in Threads,
             DriverCall(t) \/ Serve(t) \/ Race(t) \/ NoticeCancel(t)
      PROVE  faults' = faults
  BY <1>3 DEF DriverCall, Serve, Receive, Deliver, Answer, Work, Race, NoticeCancel, world
<1>4. KillTestServer \/ StartTestServer \/ NoServer \/ Ended \/ UNCHANGED allVars
         => faults' = faults
  BY DEF KillTestServer, StartTestServer, NoServer, Ended, allVars, world
<1>5. ClientNext \/ UNCHANGED allVars
  OBVIOUS
<1>6. \/ \E t \in Threads : DriverCall(t) \/ Serve(t) \/ Race(t) \/ NoticeCancel(t)
      \/ KillTestServer \/ StartTestServer \/ NoServer \/ Ended \/ UNCHANGED allVars
  BY <1>2, <1>5 DEF ClientNext
<1>7. faults' = faults
  BY <1>3, <1>4, <1>6
<1> QED
  BY <1>2, <1>7 DEF NoneCut

\* getClosedSessions removes what it meets: with no other thread at work, every
\* session of the table is filled in.
LEMMA WorkFinds ==
    ASSUME SerialClientInv, NEW t \in Threads, on = t, Alone(t), ~cancelled[t],
           ScanFinds(t), Work(t)
    PROVE  ScanFinds(t)'
<1> USE DEF At, Goto
<1>0. TypedInv /\ TableOK /\ LocalsOK /\ CallOK(t) /\ NoStuckSession /\ HoldsLive(t)
  BY DEF SerialClientInv, ServerInv, TypedInv, BaseInv, CallsOK
<1>1. op' = op /\ closed' = closed
  BY <1>0, WorkGoesOn DEF Work, driver, TypedInv
<1>2. CASE op[t] # "closed"
  <2>1. pc'[t] \notin {"closed_next", "closed_write"}
    <3>1. CallOK(t)'
      <4>1. [Next]_vars
        BY DEF Work, Next
      <4> QED
        BY <1>0, <4>1, CallsInductive DEF TypedInv, CallsOK
    <3> QED
      BY <1>1, <1>2, <3>1 DEF CallOK
  <2> QED
    BY <1>1, <1>2, <2>1 DEF ScanFinds
<1>3. CASE op[t] = "closed"
  <2>1. CASE CheckCancelled(t)
    BY <1>0, <1>3, <2>1 DEF CheckCancelled, ScanFinds, LocalsOK
  <2>2. CASE ClosedBegin(t)
    <3>1. CASE sessions = <<>>
      <4>1. pc'[t] = "reply" /\ sessions' = <<>>
        BY <1>0, <2>2, <3>1 DEF ClosedBegin, ClosedScanned, Return, LocalsOK, table
      <4> QED
        BY <4>1 DEF ScanFinds
    <3>2. CASE sessions # <<>>
      <4>1. pc'[t] = "closed_body"
        BY <1>0, <2>2, <3>2 DEF ClosedBegin, LocalsOK
      <4> QED
        BY <4>1 DEF ScanFinds
    <3> QED
      BY <3>1, <3>2
  <2>3. ~ClosedSkip(t)
    <3>1. ASSUME ClosedSkip(t)
          PROVE  FALSE
      <4>1. r[t] \in DOMAIN heap /\ heap[r[t]].state # "_CLOSED" /\ pc[t] = "closed_body"
        BY <3>1 DEF ClosedSkip, Alive
      <4>2. heap[r[t]].state = "_ESTABLISHED"
        BY <1>0, <4>1 DEF TableOK, Record, State
      <4>3. \E u \in Threads : pc[u] = "add_fill"
        BY <1>0, <4>1, <4>2 DEF NoStuckSession
      <4> QED
        BY <4>1, <4>3 DEF Alone
    <3> QED
      BY <3>1
  <2>4. CASE ClosedTake(t)
    <3>1. out'[t] # <<>>
      BY <1>0, <2>4 DEF ClosedTake, LocalsOK
    <3>2. pc'[t] \in {"closed_next", "closed_write"}
      BY <1>0, <2>4, <3>1 DEF ClosedTake, ClosedScanned, Return, LocalsOK
    <3> QED
      BY <3>1, <3>2 DEF ScanFinds
  <2>5. CASE ClosedNext(t)
    <3>1. out[t] # <<>> /\ out' = out
      BY <2>5 DEF ClosedNext, ScanFinds
    <3>2. pc'[t] \in {"closed_body", "closed_write"}
      BY <1>0, <2>5, <3>1 DEF ClosedNext, ClosedScanned, LocalsOK
    <3> QED
      BY <3>1, <3>2 DEF ScanFinds
  <2>6. CASE Dangling(t) \/ ClosedOverflow(t)
    BY <1>1, <2>6 DEF Dangling, ClosedOverflow, Undefined, table, locals, ScanFinds
  <2>7. ~Reply(t) /\ ~AddStep(t) /\ ~ClosedWrite(t)
    BY <1>0, <1>3 DEF Work, Reply, ClosedWrite, AddStep, AddRead, AddCancelled, AddEnd,
                      AddCount, AddFind, AddLink, AddFill, CallOK
  <2>8. ~(GetFind(t) \/ GetCopy(t) \/ DelFind(t) \/ DelUnlink(t) \/ AllBegin(t)
          \/ AllStep(t))
    BY <1>0, <1>3 DEF GetFind, GetCopy, DelFind, DelUnlink, Find, AllBegin, AllStep, CallOK
  <2> QED
    BY <2>1, <2>2, <2>3, <2>4, <2>5, <2>6, <2>7, <2>8 DEF Work, Run, ClosedStep
<1> QED
  BY <1>2, <1>3

\* What an add handler enters is of its batch, and not refused.
LEMMA WorkAddsNew ==
    ASSUME SerialClientInv, NEW t \in Threads, Alone(t), ~cancelled[t],
           op[t] = "add", AddOrder(t), NewAdds(t), Work(t)
    PROVE  NewAdds(t)'
<1>0. TypedInv
  BY DEF SerialClientInv
<1>1. op' = op /\ size' = size /\ UNCHANGED <<sessionId, acked>>
  BY <1>0, WorkGoesOn DEF Work, driver, world, TypedInv
<1>2. NextId(t)' = NextId(t)
  BY <1>1 DEF BatchSize, NextId
<1>3. /\ sessionId \in Nat /\ NextId(t) \in Int /\ Undecided(t) \in Int
      /\ BatchSize \in Nat /\ size[t] \in Nat
  BY <1>0, AddNumbers
<1>4. /\ Refused(t) \subseteq sessionId .. Undecided(t) - 1
      /\ TableIds \subseteq acked \cup ((sessionId .. Undecided(t) - 1) \ Refused(t))
  BY DEF NewAdds
<1>5. CASE InHand(t)' <=> InHand(t)
  <2>1. TableIds' = TableIds /\ Refused(t)' = Refused(t)
    BY <1>0, <1>5, AddWorkCases
  <2>2. Undecided(t)' = Undecided(t)
    BY <1>2, <1>5 DEF Undecided
  <2> QED
    BY <1>1, <1>4, <2>1, <2>2 DEF NewAdds
<1>6. CASE ~(InHand(t)' <=> InHand(t))
  <2>1. /\ InHand(t) /\ ~InHand(t)'
        /\ \/ TableIds' = TableIds \cup {key[t]} /\ Refused(t)' = Refused(t)
           \/ TableIds' = TableIds /\ Refused(t)' = Refused(t) \cup {key[t]}
           \/ TableIds' = TableIds /\ Refused(t)' = Refused(t)
    BY <1>0, <1>6, AddWorkCases
  <2>2. key[t] = Undecided(t) /\ Undecided(t)' = Undecided(t) + 1
    BY <1>2, <1>3, <2>1 DEF Undecided, AddOrder
  <2>3. sessionId <= Undecided(t)
    <3>1. size[t] < BatchSize /\ Undecided(t) = NextId(t) - 1
      BY <2>1 DEF Undecided, AddOrder
    <3> QED
      BY <1>3, <3>1 DEF NextId
  <2>4. /\ sessionId .. Undecided(t)' - 1 = (sessionId .. Undecided(t) - 1) \cup {key[t]}
        /\ key[t] \notin sessionId .. Undecided(t) - 1
    <3>1. \A a, b \in Int : a <= b => /\ a .. (b + 1) - 1 = (a .. b - 1) \cup {b}
                                      /\ b \notin a .. b - 1
      OBVIOUS
    <3> QED
      BY <1>3, <2>2, <2>3, <3>1
  <2> DEFINE done == sessionId .. Undecided(t) - 1
             done1 == sessionId .. Undecided(t)' - 1
  <2>5. done1 = done \cup {key[t]} /\ key[t] \notin done
    BY <2>4
  <2> HIDE DEF done, done1
  <2>6. Refused(t) \subseteq done /\ TableIds \subseteq acked \cup (done \ Refused(t))
    BY <1>4 DEF done
  <2>7. Refused(t)' \subseteq done1 /\ TableIds' \subseteq acked \cup (done1 \ Refused(t)')
    BY <2>1, <2>5, <2>6
  <2> QED
    BY <1>1, <2>7 DEF NewAdds, done1
<1> QED
  BY <1>5, <1>6

\* A session is where it was, or nowhere, when the table loses sessions and
\* answers are dropped.
LEMMA PlacesShrink ==
    ASSUME TableIds' \subseteq TableIds, Told' = Told,
           \A t \in Threads : op'[t] = "closed" =>
              (op[t] = "closed" /\ out'[t] = out[t]) \/ out'[t] = <<>>
    PROVE  Places' \subseteq Places
<1>1. Range(IdsOf(<<>>)) = {}
  <2>1. <<>> \in Seq(Entry)
    OBVIOUS
  <2>2. IdsOf(<<>>) = <<>>
    BY <2>1, IdsOfSteps
  <2> QED
    BY <2>2 DEF Range
<1>2. ASSUME NEW x \in Underway'
      PROVE  x \in Underway
  <2>1. PICK t \in Threads : op'[t] = "closed" /\ x \in Range(IdsOf(out'[t]))
    BY DEF Underway
  <2>2. op[t] = "closed" /\ x \in Range(IdsOf(out[t]))
    BY <1>1, <2>1
  <2> QED
    BY <2>2 DEF Underway
<1> QED
  BY <1>2 DEF Places

\* A thread without a call has found nothing and adds nothing.
LEMMA IdleIsNew ==
    ASSUME NEW t \in Threads, pc'[t] = "idle", op'[t] = "none"
    PROVE  ScanFinds(t)' /\ NewAdds(t)'
BY DEF ScanFinds, NewAdds

\* The call of a batch begins with a table of acknowledged sessions.
LEMMA CallNewOnly ==
    ASSUME SerialClientInv, NewOnly, NEW t \in Threads, on = NULL, on' = t,
           pc[t] = "idle", Alone(t), DriverCall(t)
    PROVE  NewOnly'
<1>0. TypedInv /\ BaseInv /\ LocalsOK /\ CallsOK
  BY DEF SerialClientInv, TypedInv, BaseInv
<1>1. UNCHANGED <<stage, reported, closed, sessions, heap, out, acked, sessionId>>
  BY DEF DriverCall, ListCall, DeleteCall, AddCall, CollectCall, Issue, Call, table
<1>2. TableIds' = TableIds /\ Told' = Told
  BY <1>1 DEF TableIds, Told
<1>3. \A u \in Threads : out[u] = <<>> /\ op[u] = "none"
  BY <1>0 DEF CallsOK, CallOK, Alone
<1>4. Places' \subseteq Places
  BY <1>1, <1>2, <1>3, PlacesShrink
<1>5. ASSUME NEW u \in Threads \ {t}
      PROVE  ScanFinds(u)' /\ NewAdds(u)'
  <2>1. pc'[u] = "idle" /\ op'[u] = "none"
    BY <1>0, <1>3 DEF Alone, DriverCall, ListCall, DeleteCall, AddCall, CollectCall,
                      Issue, Call, Goto, LocalsOK
  <2> QED
    BY <2>1, IdleIsNew
<1>6. ScanFinds(t)'
  <2>1. pc'[t] \in {"add_read", "check"}
    BY <1>0 DEF DriverCall, ListCall, DeleteCall, AddCall, CollectCall, Issue, Call,
                Goto, LocalsOK
  <2> QED
    BY <2>1 DEF ScanFinds
<1>7. NewAdds(t)'
  <2>1. CASE AddCall(t)
    <3>1. /\ size'[t] = BatchSize /\ pc'[t] = "add_read" /\ stage = "add"
      BY <1>0, <2>1 DEF AddCall, Issue, Call, Goto, LocalsOK
    <3>2. sessionId \in Nat /\ BatchSize \in Nat
      BY <1>0, AddNumbers
    <3>3. BatchSize' = BatchSize
      BY <1>1 DEF BatchSize
    <3>4. Refused(t)' = {}
      BY <1>0, <1>1, <1>3, RefusedSteps
    <3>5. TableIds' \subseteq acked'
      BY <1>1, <1>2, <3>1 DEF NewOnly
    <3> QED
      BY <3>4, <3>5 DEF NewAdds
  <2>2. CASE ~AddCall(t)
    <3>1. op'[t] # "add"
      BY <1>0, <2>2 DEF DriverCall, ListCall, DeleteCall, CollectCall, Issue, Call, LocalsOK
    <3> QED
      BY <3>1 DEF NewAdds
  <2> QED
    BY <2>1, <2>2
<1>8. on' # NULL
  BY DriverAssumption
<1> QED
  BY <1>1, <1>4, <1>5, <1>6, <1>7, <1>8 DEF NewOnly

\* A request that is read is the next to be decided.
LEMMA ReceiveNewOnly ==
    ASSUME SerialClientInv, NewOnly, NEW t \in Threads, on = t, Alone(t), Receive(t)
    PROVE  NewOnly'
<1>0. TypedInv /\ BaseInv /\ LocalsOK /\ CallsOK
  BY DEF SerialClientInv, TypedInv, BaseInv
<1>1. /\ UNCHANGED <<stage, on, reported, closed, sessions, heap, out, op, acked, sessionId>>
      /\ pc[t] = "add_read" /\ op[t] = "add" /\ pc'[t] = "add_count" /\ size[t] > 0
      /\ size'[t] = size[t] - 1
      /\ \A u \in Threads \ {t} : pc'[u] = pc[u]
  BY <1>0 DEF Receive, AddRead, At, Goto, driver, table, LocalsOK, CallsOK, CallOK
<1>2. TableIds' = TableIds /\ Told' = Told /\ Refused(t)' = Refused(t)
  BY <1>1 DEF TableIds, Told, Refused
<1>3. Places' \subseteq Places
  BY <1>1, <1>2, PlacesShrink
<1>4. ASSUME NEW u \in Threads \ {t}
      PROVE  ScanFinds(u)' /\ NewAdds(u)'
  BY <1>0, <1>1, IdleIsNew DEF Alone, CallsOK, CallOK
<1>5. ScanFinds(t)'
  BY <1>1 DEF ScanFinds
<1>6. NewAdds(t)'
  <2>1. Undecided(t)' = Undecided(t)
    <3>1. BatchSize' = BatchSize /\ sessionId' = sessionId
      BY <1>1 DEF BatchSize
    <3>2. sessionId \in Nat /\ BatchSize \in Nat /\ size[t] \in Nat
      BY <1>0, AddNumbers
    <3>3. NextId(t)' = NextId(t) + 1 /\ NextId(t) \in Int
      BY <1>1, <3>1, <3>2 DEF NextId
    <3> QED
      BY <1>1, <3>3 DEF Undecided, InHand
  <2> QED
    BY <1>1, <1>2, <2>1 DEF NewOnly, NewAdds
<1>7. on' # NULL
  BY <1>1, DriverAssumption
<1> QED
  BY <1>1, <1>3, <1>4, <1>5, <1>6, <1>7 DEF NewOnly

\* The handler at work adds what is new and removes what it will report.
LEMMA WorkNewOnly ==
    ASSUME SerialClientInv, SerialClientInv', AddsInOrder, NewOnly, NEW t \in Threads,
           on = t, Alone(t), ~cancelled[t], Work(t)
    PROVE  NewOnly'
<1>0. TypedInv /\ BaseInv /\ LocalsOK /\ CallsOK /\ OneCall /\ UniqueIds
  BY DEF SerialClientInv, ServerInv, TypedInv, BaseInv
<1>1. UNCHANGED <<stage, on, reported, closed, op, acked, sessionId>> /\ Run(t)
  BY <1>0, WorkGoesOn DEF Work, driver, world
<1>2. Told' = Told /\ on' # NULL /\ Makes(stage, op[t])
  BY <1>0, <1>1, DriverAssumption DEF Told, OneCall
<1>3. ASSUME NEW u \in Threads \ {t}
      PROVE  ScanFinds(u)' /\ NewAdds(u)'
  <2>1. pc'[u] = "idle" /\ op'[u] = "none"
    <3>1. pc'[u] = "idle"
      BY <1>1 DEF SerialClientInv, OneCall
    <3> QED
      BY <3>1 DEF SerialClientInv, TypedInv, BaseInv, CallsOK, CallOK
  <2> QED
    BY <2>1, IdleIsNew
<1>4. ScanFinds(t)'
  BY WorkFinds DEF NewOnly
<1>5. NewAdds(t)'
  <2>1. CASE op[t] = "add"
    BY <2>1, WorkAddsNew DEF NewOnly, AddsInOrder
  <2>2. CASE op[t] # "add"
    BY <1>1, <2>2 DEF NewAdds
  <2> QED
    BY <2>1, <2>2
<1>6. ASSUME stage \in {"collect", "done"}
      PROVE  Places' \subseteq Places
  <2>1. op[t] = "closed"
    BY <1>2, <1>6 DEF Makes
  <2>2. ASSUME NEW u \in Threads, op[u] = "closed"
        PROVE  u = t
    BY <1>0, <2>2, OneClosedCall
  <2>3. CASE ClosedTake(t)
    <3> DEFINE x == heap[r[t]].id
               e == [id |-> x, what |-> "_CLOSED"]
               ids == IdsOf(out[t])
    <3>1. x \in TableIds /\ TableIds' = TableIds \ {x} /\ x \in Ids
      <4>1. x \in TableIds /\ TableIds' = TableIds \ {x}
        BY <1>0, <1>1, <2>3, TableIdsStep
      <4> QED
        BY <1>0, <4>1, TableIdsOfHeap DEF BaseInv
    <3>2. out[t] \in Seq(Entry) /\ out \in [Threads -> Seq(Entry)]
      BY <1>0 DEF LocalsOK
    <3>3. out'[t] = Append(out[t], e) /\ e.id = x
      BY <2>3, <3>2 DEF ClosedTake
    <3>4. e \in Entry
      BY <3>1 DEF Entry, State
    <3>5. ids \in Seq(Ids)
      BY <3>2, IdsOfTyped
    <3> HIDE DEF x, e
    <3>6. IdsOf(out'[t]) = Append(ids, x)
      BY <3>2, <3>3, <3>4, IdsOfSteps
    <3>7. Underway = Range(ids)
      BY <1>0, <2>1, UnderwayOfOne
    <3> HIDE DEF ids
    <3>8. Range(IdsOf(out'[t])) = Range(ids) \cup {x}
      BY <3>1, <3>5, <3>6, InjectiveAppend
    <3>9. Underway' \subseteq Range(ids) \cup {x}
      BY <1>1, <2>2, <3>8 DEF Underway
    <3> QED
      BY <1>2, <3>1, <3>7, <3>9 DEF Places
  <2>4. CASE ~ClosedTake(t)
    <3>1. out' = out
      BY <1>0, <2>1, <2>4, WorkOfClosed
    <3>2. ~AddLink(t)
      BY <1>0, <2>1 DEF AddLink, At, CallsOK, CallOK
    <3>3. TableIds' \subseteq TableIds
      BY <1>0, <1>1, <3>2, TableIdsStep
    <3> QED
      BY <1>1, <1>2, <3>1, <3>3, PlacesShrink
  <2> QED
    BY <2>3, <2>4
<1>7. stage \notin {"kill", "done"}
  BY <1>2 DEF Makes
<1> QED
  BY <1>1, <1>2, <1>3, <1>4, <1>5, <1>6, <1>7 DEF NewOnly

\* What is delivered was under way, and an answer that has delivered everything
\* has delivered something.
LEMMA DeliverNewOnly ==
    ASSUME SerialClientInv, NewOnly, NEW t \in Threads, on = t, Alone(t), Deliver(t)
    PROVE  NewOnly'
<1>0. /\ TypedInv /\ BaseInv /\ LocalsOK /\ CallsOK /\ OneCall
      /\ Told \in Seq(Ids) /\ closed \in Seq(Ids)
  BY DEF SerialClientInv, TypedInv, BaseInv, ClientTypeOK, Told
<1>1. /\ UNCHANGED <<stage, on, reported, sessions, heap, op, acked>>
      /\ pc[t] = "closed_write" /\ op[t] = "closed"
      /\ \A u \in Threads \ {t} : pc'[u] = pc[u]
  BY <1>0 DEF Deliver, ClosedWrite, Return, Goto, table, world, At, LocalsOK, CallsOK, CallOK
<1>2. on' # NULL /\ Makes(stage, op[t]) /\ TableIds' = TableIds
  BY <1>0, <1>1, DriverAssumption DEF OneCall, TableIds
<1>3. stage = "collect"
  BY <1>1, <1>2 DEF Makes
<1>4. ASSUME NEW u \in Threads \ {t}
      PROVE  ScanFinds(u)' /\ NewAdds(u)'
  BY <1>0, <1>1, IdleIsNew DEF Alone, CallsOK, CallOK
<1>5. NewAdds(t)'
  BY <1>1 DEF NewAdds
<1>6. ScanFinds(t)'
  <2>1. CASE out[t] = <<>>
    <3>1. pc'[t] = "reply" /\ closed' = closed
      BY <1>0, <2>1 DEF Deliver, ClosedWrite, Return, Goto, LocalsOK
    <3>2. closed # <<>>
      BY <1>1, <2>1 DEF NewOnly, ScanFinds
    <3> QED
      BY <3>1, <3>2 DEF ScanFinds
  <2>2. CASE out[t] # <<>>
    <3>1. pc'[t] = "closed_write" /\ closed' = Append(closed, Head(out[t]).id)
      BY <1>1, <2>2 DEF Deliver, ClosedWrite
    <3>2. Head(out[t]).id \in Ids
      <4>1. Head(out[t]) \in Entry
        BY <1>0, <2>2 DEF LocalsOK
      <4> QED
        BY <4>1 DEF Entry
    <3>3. Len(closed') = Len(closed) + 1 /\ Len(closed) \in Nat
      BY <1>0, <3>1, <3>2
    <3>4. Len(<<>>) = 0
      OBVIOUS
    <3>5. closed' # <<>>
      BY <3>3, <3>4
    <3> QED
      BY <3>1, <3>5 DEF ScanFinds
  <2> QED
    BY <2>1, <2>2
<1>7. Places' \subseteq Places
  <2>1. CASE out' = out /\ Told' = Told
    BY <1>1, <1>2, <2>1, PlacesShrink
  <2>2. ASSUME NEW x \in Ids, out[t] # <<>>, x = Head(IdsOf(out[t])),
               IdsOf(out'[t]) = Tail(IdsOf(out[t])), Told' = Append(Told, x)
        PROVE  Places' \subseteq Places
    <3> DEFINE ids == IdsOf(out[t])
    <3>1. ids \in Seq(Ids) /\ ids # <<>>
      BY <1>0, <2>2, IdsOfTyped DEF LocalsOK
    <3>2. Underway = Range(ids)
      BY <1>0, <1>1, UnderwayOfOne
    <3> HIDE DEF ids
    <3>3. Range(ids) = Range(Tail(ids)) \cup {x}
      BY <2>2, <3>1, InjectiveTail DEF ids
    <3>4. Range(Told') = Range(Told) \cup {x}
      BY <1>0, <2>2, InjectiveAppend
    <3>5. ASSUME NEW u \in Threads, op[u] = "closed"
          PROVE  u = t
      BY <1>0, <3>5, OneClosedCall
    <3>6. Underway' \subseteq Range(Tail(ids))
      BY <1>1, <2>2, <3>5 DEF Underway, ids
    <3> QED
      BY <1>2, <3>2, <3>3, <3>4, <3>6 DEF Places
  <2> QED
    BY <1>0, <1>1, <2>1, <2>2, DeliverMoves
<1> QED
  BY <1>1, <1>2, <1>3, <1>4, <1>5, <1>6, <1>7 DEF NewOnly

\* The answer of a batch acknowledges what is new in the table; an answer without
\* closed sessions comes from an empty table.
LEMMA AnswerNewOnly ==
    ASSUME SerialClientInv, ToldLater, AddsInOrder, NewOnly,
           stage = "list" /\ stage' \in {"kill", "add"} => sessions' = <<>>,
           NEW t \in Threads, on = t, Alone(t), Answer(t)
    PROVE  NewOnly'
<1>0. TypedInv /\ BaseInv /\ LocalsOK /\ CallsOK /\ OneCall
  BY DEF SerialClientInv, TypedInv, BaseInv
<1>1. /\ Answered(status[t], IdsOf(out[t]), key[t])
      /\ status[t] \notin {"DEADLINE_EXCEEDED", "UNAVAILABLE"}
  BY <1>0 DEF Answer, LocalsOK
<1>2. /\ UNCHANGED <<sessions, heap>> /\ pc[t] = "reply" /\ on' = NULL
      /\ \A u \in Threads : pc'[u] = "idle" /\ op'[u] = "none"
  BY <1>0, <1>1 DEF Answer, Answered, Reply, Goto, table, At, Alone, LocalsOK, CallsOK,
                    CallOK
<1>3. TableIds' = TableIds /\ Told' = Told
  BY <1>0, <1>1, <1>2, AnswerTellsNothing DEF TableIds
<1>4. Underway' = {}
  BY <1>2 DEF Underway
<1>5. Places' \subseteq Places
  BY <1>3, <1>4 DEF Places
<1>6. \A u \in Threads : ScanFinds(u)' /\ NewAdds(u)'
  BY <1>2, IdleIsNew
<1>7. Makes(stage, op[t])
  BY <1>0, DriverAssumption DEF OneCall
<1>8. CASE stage = "list"
  <2>1. stage' \in {"list", "delete", "kill", "add"}
    BY <1>1, <1>8, AnsweredMoves
  <2>2. stage' \in {"kill", "add"} => sessions' = <<>>
    BY <1>8
  <2>3. sessions' = <<>> => TableIds' = {}
    BY DEF TableIds, Range
  <2> QED
    BY <1>6, <2>1, <2>2, <2>3 DEF NewOnly
<1>9. CASE stage = "delete"
  <2>1. stage' \in {"list", "delete"}
    BY <1>1, <1>9, AnsweredMoves
  <2> QED
    BY <1>6, <2>1 DEF NewOnly
<1>10. CASE stage = "add" /\ status[t] = "OK"
  <2>1. op[t] = "add"
    BY <1>7, <1>10 DEF Makes
  <2>2. acked' = acked \cup Entered(t)
    BY <1>10, <2>1 DEF Answer
  <2>3. TableIds \subseteq acked \cup Entered(t)
    <3>1. size[t] = 0 /\ TableIds \subseteq acked \cup ((sessionId .. Undecided(t) - 1) \ Refused(t))
      BY <1>2, <2>1 DEF AddsInOrder, AddOrder, NewOnly, NewAdds
    <3>2. sessionId \in Nat /\ BatchSize \in Nat
      BY <1>0, AddNumbers
    <3>3. Undecided(t) = sessionId + BatchSize
      BY <1>2, <3>1, <3>2 DEF Undecided, NextId, InHand
    <3>4. Range(Batch) = sessionId .. Undecided(t) - 1
      <4>1. Range(Batch) = sessionId .. sessionId + BatchSize - 1
        BY <1>0, BatchTyped DEF TypedInv, ClientTypeOK
      <4> QED
        BY <3>2, <3>3, <4>1
    <3> QED
      BY <3>1, <3>4 DEF Entered
  <2>4. Range(Told) = {}
    BY <1>10 DEF ToldLater, Told, Range
  <2>5. TableIds' \subseteq acked' /\ Places' \subseteq acked'
    BY <1>3, <1>4, <2>2, <2>3, <2>4 DEF Places
  <2>6. stage' \in {"add", "collect", "failed"}
    BY <1>1, <1>10, AnsweredMoves
  <2> QED
    BY <1>6, <2>5, <2>6 DEF NewOnly
<1>11. CASE stage = "add" /\ status[t] # "OK"
  <2>1. stage' = "failed"
    BY <1>1, <1>11 DEF Answered, ListAnswered, DeleteAnswered, AddAnswered,
                       CollectAnswered, AddAgain, Again
  <2> QED
    BY <1>6, <2>1 DEF NewOnly
<1>12. CASE stage = "collect"
  <2>1. op[t] = "closed"
    BY <1>7, <1>12 DEF Makes
  <2>2. acked' = acked /\ Places' \subseteq acked'
    BY <1>5, <1>12, <2>1 DEF Answer, NewOnly
  <2>3. closed' = <<>> /\ stage' \in {"collect", "done"} /\ (stage' = "done" <=> closed = <<>>)
    BY <1>1, <1>12, AnsweredMoves
  <2>4. closed # <<>> \/ sessions = <<>>
    BY <1>2, <2>1 DEF NewOnly, ScanFinds
  <2> QED
    BY <1>2, <1>6, <2>2, <2>3, <2>4 DEF NewOnly
<1>13. stage \in {"list", "delete", "add", "collect"}
  BY <1>7 DEF Makes
<1> QED
  BY <1>8, <1>9, <1>10, <1>11, <1>12, <1>13

\* A call while no server is running meets a table that is gone.
LEMMA NoServerNewOnly ==
    ASSUME SerialClientInv, ToldLater, NewOnly, on = NULL, NoServer
    PROVE  NewOnly'
<1>0. TypedInv /\ BaseInv /\ CallsOK /\ OneCall
  BY DEF SerialClientInv, TypedInv, BaseInv
<1>1. Answered("UNAVAILABLE", <<>>, 0) /\ UNCHANGED vars /\ acked' = acked /\ ~up
  BY FailsMoves DEF NoServer, world
<1>2. /\ UNCHANGED <<sessions, heap>> /\ sessions = <<>>
      /\ \A u \in Threads : pc'[u] = "idle" /\ op'[u] = "none"
  BY <1>0, <1>1, DriverAssumption DEF OneCall, CallsOK, CallOK, vars, table, locals
<1>3. TableIds' = {} /\ TableIds' = TableIds /\ Told' = Told /\ Underway' = {}
  <2>1. Told' = Told
    BY <1>0, <1>1, AnswerTellsNothing
  <2> QED
    BY <1>2, <2>1 DEF TableIds, Underway, Range
<1>4. Places' \subseteq Places
  BY <1>3 DEF Places
<1>5. \A u \in Threads : ScanFinds(u)' /\ NewAdds(u)'
  BY <1>2, IdleIsNew
<1>6. stage' \in {"collect", "done"} => Places' \subseteq acked'
  <2>1. CASE stage = "collect"
    BY <1>1, <1>4, <2>1 DEF NewOnly
  <2>2. CASE stage # "collect"
    <3>1. stage' \in {"collect", "done"} => stage = "add"
      BY <1>1, <2>2, AnsweredMoves
    <3>2. stage = "add" => Range(Told) = {}
      BY DEF ToldLater, Told, Range
    <3> QED
      BY <1>3, <3>1, <3>2 DEF Places
  <2> QED
    BY <2>1, <2>2
<1>7. stage' = "done" => closed' = <<>>
  BY <1>1, AnsweredMoves
<1> QED
  BY <1>2, <1>3, <1>5, <1>6, <1>7 DEF NewOnly

\* No step but a crash of the server puts anything into a place without the
\* server's acknowledgement, or ends the driver too early.
LEMMA NewOnlyInductive ==
    ASSUME NoneCut, ~Crash, SmallIds, SerialClientInv, ToldLater, AcksInv, Cleaning,
           NewOnly, [ClientNext]_allVars
    PROVE  NewOnly'
<1>0. /\ SerialClientInv' /\ AddsInOrder /\ TypedInv /\ OneCall
      /\ stage = "list" /\ stage' \in {"kill", "add"} => sessions' = <<>>
  BY SerialClientStep, CleanupLeavesNone DEF AcksInv, SerialClientInv
<1>1. ASSUME KillTestServer
      PROVE  NewOnly'
  <2>1. /\ sessions' = <<>> /\ stage' = "add"
        /\ \A u \in Threads : pc'[u] = "idle" /\ op'[u] = "none"
    BY <1>1, DieEndsCalls DEF KillTestServer
  <2>2. \A u \in Threads : ScanFinds(u)' /\ NewAdds(u)'
    BY <2>1, IdleIsNew
  <2>3. TableIds' = {}
    BY <2>1 DEF TableIds, Range
  <2> QED
    BY <2>1, <2>2, <2>3 DEF NewOnly
<1>2. ASSUME UNCHANGED <<vars, driver, acked>>
      PROVE  NewOnly'
  <2>1. /\ UNCHANGED <<sessions, heap, pc, op, size, out>>
        /\ UNCHANGED <<stage, on, sessionId, closed, reported, acked>>
    BY <1>2 DEF vars, table, locals, driver
  <2>2. TableIds' = TableIds /\ Told' = Told
    BY <2>1 DEF TableIds, Told
  <2>3. Places' \subseteq Places
    BY <2>1, <2>2, PlacesShrink
  <2>4. ASSUME NEW u \in Threads
        PROVE  ScanFinds(u)' /\ NewAdds(u)'
    BY <2>1, <2>2 DEF NewOnly, ScanFinds, NewAdds, Refused, Undecided, InHand, NextId,
                      BatchSize
  <2> QED
    BY <2>1, <2>2, <2>3, <2>4 DEF NewOnly
<1> QED
  BY <1>0, <1>1, <1>2, SerialCases, CallNewOnly, ReceiveNewOnly, WorkNewOnly,
     DeliverNewOnly, AnswerNewOnly, NoServerNewOnly DEF allVars, world

\* What holds of a driver that met no fault.
FaultFree == SerialClientInv /\ ToldLater /\ OnePlace /\ AcksInv /\ Cleaning /\ NewOnly

\* A driver that met no fault has been told of every session it entered, and of no
\* other: what was in the table before it started is deleted and never reported
\* (opof_run_tests.c collects until getClosedSessions returns nothing).  Faults of
\* every kind may happen; the property is about the runs that met none.
THEOREM EveryAddedIsReportedUnlessFaults ==
    ASSUME SmallIds
    PROVE  ClientSpec => []EveryAddedIsReported
<1> DEFINE Inv == TypedInv /\ (faults = <<>> => FaultFree)
<1>1. ClientInit => Inv
  <2> SUFFICES ASSUME ClientInit PROVE Inv
    OBVIOUS
  <2>1. SerialClientInv /\ Cleaning
    BY CleaningInit
  <2>2. /\ stage = "list" /\ reported = <<>> /\ closed = <<>> /\ acked = {}
        /\ Told = <<>> /\ \A t \in Threads : pc[t] = "idle" /\ op[t] = "none"
    BY DEF ClientInit, ThreadsIdle, Told
  <2>3. ToldLater /\ OnePlace
    BY <2>2 DEF ToldLater, OnePlace, IsInjective, Range
  <2>4. AcksInv
    BY <2>2 DEF AcksInv, AckedLater, AllWritten, AddsInOrder, AddOrder
  <2>5. NewOnly
    BY <2>2 DEF NewOnly, ScanFinds, NewAdds
  <2> QED
    BY <2>1, <2>3, <2>4, <2>5 DEF FaultFree, SerialClientInv
<1>2. Inv /\ [ClientNext]_allVars => Inv'
  <2> SUFFICES ASSUME Inv, [ClientNext]_allVars PROVE Inv'
    OBVIOUS
  <2>1. TypedInv'
    BY ClientKeepsBase, ClientTypesInductive DEF TypedInv
  <2>2. ASSUME faults' = <<>>
        PROVE  FaultFree'
    <3>1. FaultFree /\ NoneCut /\ ~Crash
      BY <2>2, NoFaultYet
    <3> QED
      BY <3>1, SmallIds, SerialClientStep, OnePlaceInductive, AcksInductive,
         CleaningInductive, NewOnlyInductive DEF FaultFree, SerialClientInv
  <2> QED
    BY <2>1, <2>2
<1>3. Inv => EveryAddedIsReported
  <2> SUFFICES ASSUME Inv, stage = "done", faults = <<>>
               PROVE  acked = Range(reported)
    BY DEF EveryAddedIsReported
  <2>1. TypedInv /\ OneCall /\ AcksInv /\ NewOnly
    BY DEF FaultFree, SerialClientInv
  <2>2. on = NULL
    BY <2>1 DEF OneCall, Makes, TypedInv, ClientTypeOK
  <2>3. \A t \in Threads : op[t] = "none"
    BY <2>1, <2>2, DriverAssumption DEF OneCall, TypedInv, BaseInv, CallsOK, CallOK
  <2>4. Underway = {} /\ TableIds = {} /\ closed = <<>>
    BY <2>1, <2>3 DEF NewOnly, Underway, TableIds, Range
  <2>5. Told = reported
    BY <2>1, <2>4 DEF Told, TypedInv, ClientTypeOK
  <2>6. acked \subseteq Places /\ Places \subseteq acked
    BY <2>1 DEF AcksInv, NewOnly
  <2> QED
    BY <2>4, <2>5, <2>6 DEF Places
<1> QED
  BY <1>1, <1>2, <1>3, PTL DEF ClientSpec

=============================================================================
