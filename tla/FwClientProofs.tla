------------------------------ MODULE FwClientProofs ------------------------------
(***************************************************************************)
(* The simulated firewall and the simulated device keep their two tables   *)
(* in agreement, whatever the traffic's thread does in between: type       *)
(* correctness and the safety properties of FwClient, for every size of    *)
(* the two tables, every batch and every set of tuples.                    *)
(***************************************************************************)
EXTENDS FwClient, FiniteSetTheorems, WellFoundedInduction, TLAPS

-----------------------------------------------------------------------------
(* The inductive invariant. *)

Tuple == Tuples \cup TuplesV6
Session == [client : Nat, tuple : Tuple, stamp : 1 .. inserted,
            state : {"_ESTABLISHED", "_CLOSED"},
            code : {"_NOT_CLOSED", "_TIMEOUT", "_FINACK"}]
Request == [id : Nat, tuple : Tuple]
Refusal == [id : Nat, error : {"_SESSION_ALREADY_EXISTS", "_SESSION_TABLE_FULL"}]
Report == [id : Nat, stamp : 1 .. inserted]

\* the device
DeviceTyped ==
    /\ Keys \subseteq 1 .. maxSessionId - 1
    /\ \A k \in Keys : offloadSessionTable[k] \in Session
    /\ lastSessionId \in 1 .. maxSessionId /\ inserted \in Nat
    /\ traffic \in [pc : {"sleep", "walk", "closing", "dead"},
                    size : 0 .. maxSessionId - 1, at : 0 .. inserted]

\* the firewall
FirewallTyped ==
    /\ sessionTable \in [DOMAIN sessionTable -> BOOLEAN]
    /\ DOMAIN sessionTable \subseteq Nat /\ IsFiniteSet(DOMAIN sessionTable)
    /\ lastId \in Nat
    /\ step \in DOMAIN After /\ received \subseteq 1 .. inserted

\* which call is under way in which step of run(), and what is sent in it: only
\* getClosedSessions sends before it has returned
CallInStep ==
    \/ call = idle /\ reply = << >>
    \/ Adding /\ reply = << >>
       /\ call \in [op : {"addSession"}, requests : Seq(Request), errors : Seq(Refusal)]
    \/ Adding /\ call = [op |-> "returned"] /\ reply \in Seq(Refusal)
    \/ step = "closed" /\ reply \in Seq(Report)
       /\ call \in [op : {"getClosedSessions"}, begun : BOOLEAN, keys : Seq(Keys)]
       /\ \A i, j \in 1 .. Len(call.keys) : call.keys[i] = call.keys[j] => i = j
    \/ step = "closed" /\ reply \in Seq(Report) /\ call = [op |-> "returned"]
    \/ Fetching /\ reply = << >> /\ call \in [op : {"getSession"}, id : Offloaded]
    \/ Fetching /\ call = [op |-> "returned"] /\ Head(reply).state # "UNKNOWN"
    \/ Listing /\ reply = << >> /\ call = [op |-> "getAllSessions"]
    \/ Listing /\ call = [op |-> "returned"]

\* no two of these messages have the same id, or the same stamp
Differ(messages, field) ==
    \A i, j \in 1 .. Len(messages) : messages[i][field] = messages[j][field] => i = j

ClientsDiffer ==
    \A k, l \in Keys : offloadSessionTable[k].client = offloadSessionTable[l].client => k = l

\* the ids the firewall has as offloaded are in one place each
IdsApart ==
    /\ TablesAgree
    /\ ClientsDiffer
    /\ call.op = "addSession" =>
        /\ Differ(call.requests, "id")
        /\ IdsOf(call.requests) \cap (Clients \cup IdsOf(call.errors)) = {}
        /\ IdsOf(call.errors) \cap Clients = {}
    /\ step = "closed" \/ Adding => IdsOf(reply) \cap Clients = {}
    /\ step = "closed" => Differ(reply, "id")

\* every stamp given out is in one place
StampsApart ==
    /\ \A k, l \in Keys : offloadSessionTable[k].stamp = offloadSessionTable[l].stamp
                               => k = l
    /\ Stamps \cup OnTheWay \cup received = 1 .. inserted
    /\ received \cap (Stamps \cup OnTheWay) = {}
    /\ Stamps \cap OnTheWay = {}
    /\ step = "closed" => Differ(reply, "stamp")

FwInv == DeviceTyped /\ FirewallTyped /\ CallInStep /\ IdsApart /\ StampsApart

-----------------------------------------------------------------------------
(* Natural numbers. *)

\* A set of numbers that is not empty has a least element: among the intervals
\* from 0 up to one of them there is a smallest.
LEMMA NatHasLeast ==
    ASSUME NEW S, S \subseteq Nat, S # {}
    PROVE  \E x \in S : \A y \in S : x <= y
<1> DEFINE Below == {T \in SUBSET Nat : \E x \in S : T = 0 .. x}
<1>1. Below \subseteq FiniteSubsetsOf(Nat) /\ Below # {}
  <2>1. \A x \in S : 0 .. x \in SUBSET Nat /\ IsFiniteSet(0 .. x)
    BY FS_Interval
  <2> QED
    BY <2>1 DEF FiniteSubsetsOf
<1>2. PICK T \in Below : \A U \in Below : ~ (<<U, T>> \in StrictSubsetOrdering(Nat))
  <2> HIDE DEF Below
  <2>1. IsWellFoundedOn(StrictSubsetOrdering(Nat), FiniteSubsetsOf(Nat))
    BY FS_StrictSubsetOrderingWellFounded
  <2> QED
    BY <1>1, <2>1, WFMin
<1>3. PICK x \in S : T = 0 .. x
  BY <1>2
<1>4. ASSUME NEW y \in S, y < x PROVE FALSE
  <2>1. 0 .. y \in Below /\ 0 .. y \in SUBSET Nat /\ T \in SUBSET Nat
    BY <1>2, <1>3
  <2>2. 0 .. y \subseteq T /\ x \in T /\ x \notin 0 .. y
    BY <1>3, <1>4
  <2>3. <<0 .. y, T>> \in StrictSubsetOrdering(Nat)
    <3> HIDE DEF Below
    <3>1. DEFINE p == <<0 .. y, T>>
    <3>2. p \in (SUBSET Nat) \X (SUBSET Nat) /\ p[1] = 0 .. y /\ p[2] = T
      BY <2>1
    <3>3. 0 .. y # T
      BY <2>2
    <3> HIDE DEF p
    <3>4. p \in StrictSubsetOrdering(Nat)
      BY <3>2, <3>3, <2>2 DEF StrictSubsetOrdering
    <3> QED
      BY <3>4 DEF p
  <2> QED
    BY <2>1, <2>3, <1>2
<1> QED
  BY <1>4

\* Induction over a set of numbers.
LEMMA NatSetInduction ==
    ASSUME NEW T, T \subseteq Nat, 0 \in T, \A n \in T : n + 1 \in T
    PROVE  T = Nat
<1>1. SUFFICES ASSUME Nat \ T # {} PROVE FALSE
  OBVIOUS
<1>2. PICK x \in Nat \ T : \A y \in Nat \ T : x <= y
  BY <1>1, NatHasLeast
<1>3. x - 1 \in T
  BY <1>2
<1> QED
  BY <1>2, <1>3

\* What Min chooses is the least element.
LEMMA MinIsLeast ==
    ASSUME NEW S, S \subseteq Nat, S # {}
    PROVE  Min(S) \in S /\ \A y \in S : Min(S) <= y
BY NatHasLeast DEF Min

-----------------------------------------------------------------------------
(* Messages. *)

\* The values of a field in a sequence of messages are those of its entries.
LEMMA FieldByIndex ==
    ASSUME NEW M, NEW f, NEW s \in Seq(M)
    PROVE  \A x : x \in FieldOf(s, f) <=> \E i \in 1 .. Len(s) : x = s[i][f]
BY DEF FieldOf, Range

\* They are that of the head and those of the tail; when they differ, the head's is
\* not in the tail.
LEMMA FieldOfTail ==
    ASSUME NEW M, NEW f, NEW s \in Seq(M), s # << >>
    PROVE  /\ FieldOf(s, f) = {Head(s)[f]} \cup FieldOf(Tail(s), f)
           /\ Differ(s, f) => Head(s)[f] \notin FieldOf(Tail(s), f) /\ Differ(Tail(s), f)
<1>1. /\ Head(s) = s[1] /\ Tail(s) \in Seq(M) /\ Len(s) \in Nat \ {0}
      /\ Len(Tail(s)) = Len(s) - 1
      /\ \A i \in 1 .. Len(s) - 1 : Tail(s)[i] = s[i + 1]
  OBVIOUS
<1>2. \A x : x \in FieldOf(Tail(s), f) <=> \E i \in 1 .. Len(s) - 1 : x = s[i + 1][f]
  <2> DEFINE r == Tail(s)
  <2>1. r \in Seq(M)
    BY <1>1
  <2> HIDE DEF r
  <2>2. \A x : x \in FieldOf(r, f) <=> \E i \in 1 .. Len(r) : x = r[i][f]
    BY <2>1, FieldByIndex
  <2> QED
    BY <1>1, <2>2 DEF r
<1>3. \A x : x \in FieldOf(s, f) <=> \E i \in 1 .. Len(s) : x = s[i][f]
  BY FieldByIndex
<1>4. \A i \in 2 .. Len(s) : i - 1 \in 1 .. Len(s) - 1 /\ (i - 1) + 1 = i
  BY <1>1
<1>5. \A i \in 1 .. Len(s) - 1 : i + 1 \in 2 .. Len(s) /\ i + 1 \in 1 .. Len(s)
  BY <1>1
<1>6. FieldOf(s, f) = {Head(s)[f]} \cup FieldOf(Tail(s), f)
  <2>1. 1 \in 1 .. Len(s) /\ \A i \in 1 .. Len(s) : i = 1 \/ i \in 2 .. Len(s)
    BY <1>1
  <2>2. \A x \in FieldOf(s, f) : x = Head(s)[f] \/ x \in FieldOf(Tail(s), f)
    <3> TAKE x \in FieldOf(s, f)
    <3>1. PICK i \in 1 .. Len(s) : x = s[i][f]
      BY <1>3
    <3>2. CASE i = 1
      BY <1>1, <3>1, <3>2
    <3>3. CASE i \in 2 .. Len(s)
      BY <1>2, <1>4, <3>1, <3>3
    <3> QED
      BY <2>1, <3>2, <3>3
  <2>3. Head(s)[f] \in FieldOf(s, f)
    BY <1>1, <1>3, <2>1
  <2>4. FieldOf(Tail(s), f) \subseteq FieldOf(s, f)
    BY <1>2, <1>3, <1>5
  <2> QED
    BY <2>2, <2>3, <2>4
<1>7. Differ(s, f) => Head(s)[f] \notin FieldOf(Tail(s), f)
  <2>1. \A i \in 1 .. Len(s) - 1 : i + 1 # 1 /\ 1 \in 1 .. Len(s)
    BY <1>1
  <2> QED
    BY <1>1, <1>2, <1>5, <2>1 DEF Differ
<1>8. Differ(s, f) => Differ(Tail(s), f)
  BY <1>1, <1>5 DEF Differ
<1> QED
  BY <1>6, <1>7, <1>8

\* Those of two sequences after each other are those of both.
LEMMA FieldOfBoth ==
    ASSUME NEW M, NEW f, NEW s \in Seq(M), NEW t \in Seq(M)
    PROVE  FieldOf(s \o t, f) = FieldOf(s, f) \cup FieldOf(t, f)
<1>1. /\ s \o t \in Seq(M) /\ Len(s \o t) = Len(s) + Len(t)
      /\ Len(s) \in Nat /\ Len(t) \in Nat
      /\ \A i \in 1 .. Len(s) : (s \o t)[i] = s[i]
      /\ \A i \in Len(s) + 1 .. Len(s) + Len(t) : (s \o t)[i] = t[i - Len(s)]
  OBVIOUS
<1>2. \A i \in 1 .. Len(s) : i \in 1 .. Len(s) + Len(t)
  BY <1>1
<1>3. \A i \in 1 .. Len(t) : /\ Len(s) + i \in Len(s) + 1 .. Len(s) + Len(t)
                             /\ Len(s) + i \in 1 .. Len(s) + Len(t)
                             /\ (Len(s) + i) - Len(s) = i
  BY <1>1
<1>4. \A i \in 1 .. Len(s) + Len(t) :
          i \in 1 .. Len(s) \/ (i \in Len(s) + 1 .. Len(s) + Len(t) /\ i - Len(s) \in 1 .. Len(t))
  BY <1>1
<1>5. \A x : x \in FieldOf(s \o t, f) <=> \E i \in 1 .. Len(s) + Len(t) : x = (s \o t)[i][f]
  <2> DEFINE r == s \o t
  <2>1. r \in Seq(M)
    BY <1>1
  <2> HIDE DEF r
  <2>2. \A x : x \in FieldOf(r, f) <=> \E i \in 1 .. Len(r) : x = r[i][f]
    BY <2>1, FieldByIndex
  <2> QED
    BY <1>1, <2>2 DEF r
<1>6. \A x : x \in FieldOf(s, f) <=> \E i \in 1 .. Len(s) : x = s[i][f]
  BY FieldByIndex
<1>7. \A x : x \in FieldOf(t, f) <=> \E i \in 1 .. Len(t) : x = t[i][f]
  BY FieldByIndex
<1>8. FieldOf(s \o t, f) \subseteq FieldOf(s, f) \cup FieldOf(t, f)
  BY <1>1, <1>4, <1>5, <1>6, <1>7
<1>9. FieldOf(s, f) \subseteq FieldOf(s \o t, f)
  BY <1>1, <1>2, <1>5, <1>6
<1>10. FieldOf(t, f) \subseteq FieldOf(s \o t, f)
  BY <1>1, <1>3, <1>5, <1>7
<1> QED
  BY <1>8, <1>9, <1>10

\* A message more at the end: its value is added, and is one more that differs when no
\* message had it.
LEMMA FieldOfAppend ==
    ASSUME NEW M, NEW f, NEW s \in Seq(M), NEW m \in M
    PROVE  /\ FieldOf(Append(s, m), f) = FieldOf(s, f) \cup {m[f]}
           /\ Differ(s, f) /\ m[f] \notin FieldOf(s, f) => Differ(Append(s, m), f)
<1>1. /\ Append(s, m) \in Seq(M) /\ Len(Append(s, m)) = Len(s) + 1 /\ Len(s) \in Nat
      /\ \A i \in 1 .. Len(s) : Append(s, m)[i] = s[i]
      /\ Append(s, m)[Len(s) + 1] = m
  OBVIOUS
<1>2. \A i \in 1 .. Len(s) + 1 : i \in 1 .. Len(s) \/ i = Len(s) + 1
  BY <1>1
<1>3. Len(s) + 1 \in 1 .. Len(s) + 1 /\ \A i \in 1 .. Len(s) : i \in 1 .. Len(s) + 1
  BY <1>1
<1>4. \A x : x \in FieldOf(Append(s, m), f) <=>
                 \E i \in 1 .. Len(s) + 1 : x = Append(s, m)[i][f]
  <2> DEFINE r == Append(s, m)
  <2>1. r \in Seq(M)
    BY <1>1
  <2> HIDE DEF r
  <2>2. \A x : x \in FieldOf(r, f) <=> \E i \in 1 .. Len(r) : x = r[i][f]
    BY <2>1, FieldByIndex
  <2> QED
    BY <1>1, <2>2 DEF r
<1>5. \A x : x \in FieldOf(s, f) <=> \E i \in 1 .. Len(s) : x = s[i][f]
  BY FieldByIndex
<1>6. FieldOf(Append(s, m), f) = FieldOf(s, f) \cup {m[f]}
  <2>1. FieldOf(Append(s, m), f) \subseteq FieldOf(s, f) \cup {m[f]}
    BY <1>1, <1>2, <1>4, <1>5
  <2>2. FieldOf(s, f) \subseteq FieldOf(Append(s, m), f)
    BY <1>1, <1>3, <1>4, <1>5
  <2>3. m[f] \in FieldOf(Append(s, m), f)
    BY <1>1, <1>3, <1>4
  <2> QED
    BY <2>1, <2>2, <2>3
<1>7. ASSUME Differ(s, f), m[f] \notin FieldOf(s, f) PROVE Differ(Append(s, m), f)
  <2>1. \A i \in 1 .. Len(s) : s[i][f] # m[f]
    BY <1>5, <1>7
  <2>2. \A i, j \in 1 .. Len(s) + 1 :
            Append(s, m)[i][f] = Append(s, m)[j][f] => i = j
    BY <1>1, <1>2, <1>7, <2>1 DEF Differ
  <2> QED
    BY <1>1, <2>2 DEF Differ
<1> QED
  BY <1>6, <1>7

\* No message, no value.
LEMMA NoField == \A f : FieldOf(<< >>, f) = {} /\ Differ(<< >>, f)
BY DEF FieldOf, Differ, Range

-----------------------------------------------------------------------------
(* What the two programs compute. *)

\* The dictionary holds at most maxSessionId - 1 sessions, and then every key is taken.
LEMMA KeysAreFinite ==
    ASSUME DeviceTyped
    PROVE  /\ IsFiniteSet(Keys)
           /\ Cardinality(Keys) \in 0 .. maxSessionId - 1
           /\ Keys = 1 .. maxSessionId - 1 => Cardinality(Keys) = maxSessionId - 1
<1> DEFINE all == 1 .. maxSessionId - 1
<1>1. /\ 1 \in Int /\ maxSessionId - 1 \in Int /\ ~ (1 > maxSessionId - 1)
      /\ (maxSessionId - 1) - 1 + 1 = maxSessionId - 1
  BY NosAssumption
<1>2. IsFiniteSet(all) /\ Cardinality(all) = maxSessionId - 1
  BY <1>1, FS_Interval
<1>3. Keys \in SUBSET all
  BY DEF DeviceTyped
<1> HIDE DEF all
<1>4. IsFiniteSet(Keys) /\ Cardinality(Keys) <= maxSessionId - 1
  BY <1>2, <1>3, FS_Subset
<1>5. Cardinality(Keys) \in Nat
  BY <1>4, FS_CardinalityType
<1> QED
  BY <1>1, <1>2, <1>4, <1>5 DEF all

\* Of some keys of the dictionary, one was inserted first.
LEMMA EarliestIsFirst ==
    ASSUME DeviceTyped, NEW keys, keys \subseteq Keys, keys # {}
    PROVE  /\ Earliest(keys) \in keys
           /\ \A l \in keys :
                offloadSessionTable[Earliest(keys)].stamp <= offloadSessionTable[l].stamp
<1>1. \A k \in keys : offloadSessionTable[k].stamp \in Nat
  BY DEF DeviceTyped, Session
<1> DEFINE stamps == {offloadSessionTable[k].stamp : k \in keys}
<1>2. stamps \subseteq Nat /\ stamps # {}
  BY <1>1
<1>3. \E x \in stamps : \A y \in stamps : x <= y
  <2> HIDE DEF stamps
  <2> QED
    BY <1>2, NatHasLeast
<1>4. \E k \in keys : \A l \in keys :
          offloadSessionTable[k].stamp <= offloadSessionTable[l].stamp
  BY <1>3
<1> QED
  BY <1>4 DEF Earliest

\* s has the keys of S, in the order of insertion
Ascends(s, S) ==
    s \in [1 .. Cardinality(S) -> S] /\ \A i, j \in DOMAIN s :
        i < j => offloadSessionTable[s[i]].stamp < offloadSessionTable[s[j]].stamp

\* The keys of the dictionary can be put into the order of insertion.
LEMMA KeysCanBeSorted ==
    ASSUME DeviceTyped, StampsApart
    PROVE  \E s : Ascends(s, Keys)
<1>1. IsFiniteSet(Keys)
  BY KeysAreFinite
<1> DEFINE T == {n \in Nat : \A S \in SUBSET Keys :
                    Cardinality(S) = n => \E s : Ascends(s, S)}
<1>2. T \subseteq Nat
  OBVIOUS
<1>3. 0 \in T
  <2> SUFFICES ASSUME NEW S \in SUBSET Keys, Cardinality(S) = 0 PROVE \E s : Ascends(s, S)
    OBVIOUS
  <2>1. DOMAIN << >> = 1 .. 0 /\ << >> \in [1 .. 0 -> S]
    OBVIOUS
  <2>2. Ascends(<< >>, S)
    BY <2>1 DEF Ascends
  <2> QED
    BY <2>2
<1>4. ASSUME NEW n \in T PROVE n + 1 \in T
  <2> SUFFICES ASSUME NEW S \in SUBSET Keys, Cardinality(S) = n + 1
               PROVE  \E s : Ascends(s, S)
    BY <1>4
  <2>1. n \in Nat /\ IsFiniteSet(S) /\ S # {}
    BY <1>1, <1>4, FS_Subset, FS_EmptySet
  <2> DEFINE first == Earliest(S)
             rest == S \ {first}
  <2>2. first \in S /\ \A l \in S :
            offloadSessionTable[first].stamp <= offloadSessionTable[l].stamp
    BY <2>1, EarliestIsFirst
  <2> HIDE DEF first
  <2>3. Cardinality(rest) = n /\ rest \in SUBSET Keys
    <3>1. Cardinality(rest) = Cardinality(S) - 1
      BY <2>1, <2>2, FS_RemoveElement
    <3> QED
      BY <2>1, <3>1
  <2>4. PICK s : Ascends(s, rest)
    BY <1>4, <2>3
  <2> DEFINE longer == [i \in 1 .. n + 1 |-> IF i = 1 THEN first ELSE s[i - 1]]
  <2>5. s \in [1 .. n -> rest]
    BY <2>3, <2>4 DEF Ascends
  <2>6. \A i \in 1 .. n + 1 : i = 1 \/ i - 1 \in 1 .. n
    BY <2>1
  <2>7. longer \in [1 .. n + 1 -> S]
    BY <2>2, <2>5, <2>6
  <2>8. ASSUME NEW i \in 1 .. n + 1, NEW j \in 1 .. n + 1, i < j
        PROVE  offloadSessionTable[longer[i]].stamp < offloadSessionTable[longer[j]].stamp
    <3>1. j # 1 /\ j - 1 \in 1 .. n /\ longer[j] = s[j - 1] /\ s[j - 1] \in rest
      BY <2>1, <2>5, <2>8
    <3>2. CASE i = 1
      <4>1. longer[i] = first
        BY <3>2
      <4>2. \A k \in S : offloadSessionTable[k].stamp \in Nat
        BY DEF DeviceTyped, Session
      <4>3. offloadSessionTable[first].stamp # offloadSessionTable[s[j - 1]].stamp
        BY <2>2, <3>1 DEF StampsApart
      <4>4. s[j - 1] \in S
        BY <3>1
      <4> HIDE DEF longer, rest
      <4> QED
        BY <2>2, <3>1, <4>1, <4>2, <4>3, <4>4
    <3>3. CASE i # 1
      <4>1. i - 1 \in 1 .. n /\ i - 1 < j - 1 /\ longer[i] = s[i - 1]
        BY <2>1, <2>8, <3>3
      <4>2. DOMAIN s = 1 .. n
        BY <2>5
      <4> HIDE DEF longer
      <4> QED
        BY <2>4, <3>1, <4>1, <4>2 DEF Ascends
    <3> QED
      BY <3>2, <3>3
  <2>9. Ascends(longer, S)
    <3>1. DOMAIN longer = 1 .. n + 1
      OBVIOUS
    <3> HIDE DEF longer
    <3> QED
      BY <2>7, <2>8, <3>1 DEF Ascends
  <2> QED
    BY <2>9
<1>5. T = Nat
  <2> HIDE DEF T
  <2> QED
    BY <1>2, <1>3, <1>4, NatSetInduction
<1>6. Cardinality(Keys) \in T
  BY <1>1, <1>5, FS_CardinalityType
<1> QED
  BY <1>6

\* list(offloadSessionTable) has keys of the dictionary, no key twice.
LEMMA InOrderSorts ==
    ASSUME DeviceTyped, StampsApart
    PROVE  /\ InOrder \in Seq(Keys)
           /\ \A i, j \in 1 .. Len(InOrder) : InOrder[i] = InOrder[j] => i = j
<1>1. \E s \in [1 .. Cardinality(Keys) -> Keys] : \A i, j \in DOMAIN s :
          i < j => offloadSessionTable[s[i]].stamp < offloadSessionTable[s[j]].stamp
  BY KeysCanBeSorted DEF Ascends
<1>2. /\ InOrder \in [1 .. Cardinality(Keys) -> Keys]
      /\ \A i, j \in DOMAIN InOrder : i < j =>
            offloadSessionTable[InOrder[i]].stamp < offloadSessionTable[InOrder[j]].stamp
  BY <1>1 DEF InOrder
<1>3. Cardinality(Keys) \in Nat
  BY KeysAreFinite, NosAssumption
<1>4. InOrder \in Seq(Keys) /\ Len(InOrder) = Cardinality(Keys)
  BY <1>2, <1>3
<1>5. \A k \in Keys : offloadSessionTable[k].stamp \in Nat
  BY DEF DeviceTyped, Session
<1>6. ASSUME NEW i \in 1 .. Len(InOrder), NEW j \in 1 .. Len(InOrder), InOrder[i] = InOrder[j]
      PROVE  i = j
  <2>1. i \in DOMAIN InOrder /\ j \in DOMAIN InOrder /\ InOrder[i] \in Keys
    BY <1>2, <1>4
  <2>2. ~ (offloadSessionTable[InOrder[i]].stamp < offloadSessionTable[InOrder[j]].stamp)
        /\ ~ (offloadSessionTable[InOrder[j]].stamp < offloadSessionTable[InOrder[i]].stamp)
    BY <1>5, <1>6, <2>1
  <2>3. ~ (i < j) /\ ~ (j < i)
    BY <1>2, <2>1, <2>2
  <2>4. i \in Nat /\ j \in Nat
    BY <1>3, <1>4
  <2> QED
    BY <2>3, <2>4
<1> QED
  BY <1>4, <1>6

\* The device's nextSessionId gives a key that is free, unless all are taken.
LEMMA NextKey ==
    ASSUME DeviceTyped
    PROVE  /\ nextSessionId.last \in 1 .. maxSessionId
           /\ nextSessionId.id = 0 => Keys = 1 .. maxSessionId - 1
           /\ nextSessionId.id # 0 =>
                nextSessionId.id \in 1 .. maxSessionId - 1 /\ nextSessionId.id \notin Keys
<1> DEFINE free == {c \in 0 .. maxSessionId - 2 : Tried(c) \notin Keys}
<1>1. maxSessionId \in Nat \ {0, 1} /\ lastSessionId \in 1 .. maxSessionId
  BY NosAssumption DEF DeviceTyped
<1>2. \A c \in 0 .. maxSessionId - 2 : Tried(c) \in 1 .. maxSessionId - 1
  BY <1>1 DEF Tried
<1>3. CASE free = {}
  <2>1. nextSessionId = [id |-> 0, last |-> Tried(maxSessionId - 2) + 1]
    BY <1>3 DEF nextSessionId
  <2>2. maxSessionId - 2 \in 0 .. maxSessionId - 2
    BY <1>1
  <2>3. Tried(maxSessionId - 2) + 1 \in 1 .. maxSessionId
    BY <1>1, <1>2, <2>2
  <2>4. \A k \in 1 .. maxSessionId - 1 : \E c \in 0 .. maxSessionId - 2 : k = Tried(c)
    <3> TAKE k \in 1 .. maxSessionId - 1
    <3> DEFINE first == IF lastSessionId = maxSessionId THEN 1 ELSE lastSessionId
    <3>1. first \in 1 .. maxSessionId - 1
      BY <1>1
    <3>2. \A c : Tried(c) = IF first + c < maxSessionId
                            THEN first + c ELSE first + c - (maxSessionId - 1)
      BY DEF Tried
    <3> HIDE DEF first
    <3>3. CASE first <= k
      <4>1. k - first \in 0 .. maxSessionId - 2 /\ first + (k - first) = k
        BY <1>1, <3>1, <3>3
      <4> QED
        BY <1>1, <3>2, <4>1
    <3>4. CASE k < first
      <4> DEFINE c == k + (maxSessionId - 1) - first
      <4>1. /\ c \in 0 .. maxSessionId - 2 /\ ~ (first + c < maxSessionId)
            /\ first + c - (maxSessionId - 1) = k
        BY <1>1, <3>1, <3>4
      <4>2. Tried(c) = k
        BY <3>2, <4>1
      <4> QED
        BY <4>1, <4>2
    <3> QED
      BY <1>1, <3>1, <3>3, <3>4
  <2>5. 1 .. maxSessionId - 1 \subseteq Keys
    BY <1>3, <2>4
  <2> QED
    BY <2>1, <2>3, <2>5 DEF DeviceTyped
<1>4. CASE free # {}
  <2>1. free \subseteq Nat
    BY <1>1
  <2>2. nextSessionId = [id |-> Tried(Min(free)), last |-> Tried(Min(free))]
    BY <1>4 DEF nextSessionId
  <2>3. Min(free) \in free
    <3> HIDE DEF free
    <3> QED
      BY <1>4, <2>1, MinIsLeast
  <2>4. Tried(Min(free)) \in 1 .. maxSessionId - 1 /\ Tried(Min(free)) \notin Keys
    BY <1>2, <2>3
  <2> HIDE DEF free
  <2> QED
    BY <1>1, <2>2, <2>4
<1> QED
  BY <1>3, <1>4

\* The firewall's nextSessionId gives an id that its table does not have.
LEMMA NextIdIsFree ==
    ASSUME NEW taken, taken \subseteq Nat, IsFiniteSet(taken), NEW last \in Nat
    PROVE  NextId(taken, last) \notin taken
<1> DEFINE from == IF last = maxFwSessionId THEN startSessionId ELSE last
           some == from .. from + Cardinality(taken)
           free == some \ taken
<1>1. from \in Nat
  BY FwAssumption
<1>2. Cardinality(taken) \in Nat
  BY FS_CardinalityType
<1> HIDE DEF from
<1>3. Cardinality(some) = Cardinality(taken) + 1 /\ IsFiniteSet(some)
  <2>1. from + Cardinality(taken) \in Int /\ ~ (from > from + Cardinality(taken))
        /\ (from + Cardinality(taken)) - from + 1 = Cardinality(taken) + 1
    BY <1>1, <1>2
  <2> QED
    BY <1>1, <2>1, FS_Interval
<1>4. free # {}
  <2> SUFFICES ASSUME some \subseteq taken PROVE FALSE
    OBVIOUS
  <2> HIDE DEF some
  <2>1. Cardinality(some) <= Cardinality(taken)
    BY FS_Subset
  <2> QED
    BY <1>2, <1>3, <2>1
<1>5. free \subseteq Nat
  BY <1>1, <1>2
<1>6. \E id \in free : \A other \in free : id <= other
  <2> HIDE DEF free
  <2> QED
    BY <1>4, <1>5, NatHasLeast
<1>7. NextId(taken, last) \in free
  BY <1>6 DEF NextId, from
<1> QED
  BY <1>7

-----------------------------------------------------------------------------
(* Every step preserves the invariant. *)

\* Both programs start with empty tables and no message under way.
LEMMA InitEstablishes == Init => FwInv
<1> SUFFICES ASSUME Init PROVE FwInv
  OBVIOUS
<1> USE DEF Init, ServerInit
<1>1. Keys = {}
  BY DEF Keys
<1>2. Clients = {} /\ Stamps = {}
  BY <1>1 DEF Clients, Stamps
<1>3. step \notin {"closed", "first4", "first6", "add4", "add6"} /\ call.op = "idle"
  BY DEF idle
<1>4. DeviceTyped
  BY <1>1, NosAssumption DEF DeviceTyped
<1>5. FirewallTyped
  <2>1. DOMAIN sessionTable = {} /\ IsFiniteSet({})
    BY FS_EmptySet
  <2> QED
    BY <2>1, FwAssumption DEF FirewallTyped, After
<1>6. CallInStep
  BY DEF CallInStep
<1>7. Offloaded = {}
  BY DEF Offloaded
<1>8. IdsApart
  BY <1>1, <1>2, <1>3, <1>7 DEF IdsApart, TablesAgree, ClientsDiffer, Adding
<1>9. StampsApart
  BY <1>1, <1>2, <1>3 DEF StampsApart, OnTheWay
<1> QED
  BY <1>4, <1>5, <1>6, <1>8, <1>9 DEF FwInv

\* The traffic changes only the state and the close code of sessions.
LEMMA TrafficKeeps ==
    ASSUME FwInv, Traffic
    PROVE  /\ UNCHANGED <<lastSessionId, inserted, call, reply>>
           /\ Keys' = Keys /\ DeviceTyped'
           /\ \A k \in Keys :
                /\ offloadSessionTable'[k].client = offloadSessionTable[k].client
                /\ offloadSessionTable'[k].stamp = offloadSessionTable[k].stamp
<1> USE DEF FwInv
<1>1. CASE TrafficBegins
  <2>1. Cardinality(Keys) \in 0 .. maxSessionId - 1
    BY KeysAreFinite
  <2>2. traffic' \in [pc : {"sleep", "walk", "closing", "dead"},
                      size : 0 .. maxSessionId - 1, at : 0 .. inserted]
    BY <1>1, <2>1 DEF TrafficBegins, DeviceTyped
  <2> QED
    BY <1>1, <2>2 DEF TrafficBegins, TrafficOnly, DeviceTyped, Keys, Session
<1>2. CASE TrafficDies \/ TrafficEnds
  <2>1. traffic' \in [pc : {"sleep", "walk", "closing", "dead"},
                      size : 0 .. maxSessionId - 1, at : 0 .. inserted]
    BY <1>2 DEF TrafficDies, TrafficEnds, DeviceTyped
  <2> QED
    BY <1>2, <2>1 DEF TrafficDies, TrafficEnds, TrafficOnly, DeviceTyped, Keys, Session
<1>3. CASE TrafficNext
  <2> DEFINE k == Earliest(Ahead)
  <2>1. Ahead \subseteq Keys /\ Ahead # {}
    BY <1>3 DEF TrafficNext, Ahead
  <2>2. k \in Keys
    BY <2>1, EarliestIsFirst
  <2>3. offloadSessionTable[k].stamp \in 0 .. inserted
    <3> HIDE DEF k
    <3>1. offloadSessionTable[k].stamp \in 1 .. inserted /\ inserted \in Nat
      BY <2>2 DEF DeviceTyped, Session
    <3> QED
      BY <3>1
  <2>4. traffic' \in [pc : {"sleep", "walk", "closing", "dead"},
                      size : 0 .. maxSessionId - 1, at : 0 .. inserted]
    BY <1>3, <2>3 DEF TrafficNext, DeviceTyped
  <2>5. UNCHANGED <<lastSessionId, inserted, call, reply>>
    BY <1>3 DEF TrafficNext
  <2>6. CASE offloadSessionTable' = offloadSessionTable
    BY <2>4, <2>5, <2>6 DEF DeviceTyped, Keys, Session
  <2>7. CASE offloadSessionTable' = [offloadSessionTable EXCEPT ![k].state = "_CLOSED"]
    <3> HIDE DEF k
    <3>1. Keys' = Keys
      BY <2>7 DEF Keys
    <3>2. /\ offloadSessionTable'[k] = [offloadSessionTable[k] EXCEPT !.state = "_CLOSED"]
          /\ \A l \in Keys \ {k} : offloadSessionTable'[l] = offloadSessionTable[l]
      BY <2>2, <2>7 DEF Keys
    <3>3. offloadSessionTable[k] \in Session
      BY <2>2 DEF DeviceTyped
    <3>4. /\ offloadSessionTable'[k] \in Session
          /\ offloadSessionTable'[k].client = offloadSessionTable[k].client
          /\ offloadSessionTable'[k].stamp = offloadSessionTable[k].stamp
      BY <3>2, <3>3 DEF Session
    <3>5. \A l \in Keys : offloadSessionTable'[l] \in Session
      BY <3>2, <3>4 DEF DeviceTyped
    <3>6. Session' = Session
      BY <2>5 DEF Session
    <3>7. DeviceTyped'
      BY <2>4, <2>5, <3>1, <3>5, <3>6 DEF DeviceTyped
    <3> QED
      BY <2>5, <3>1, <3>2, <3>4, <3>7
  <2> QED
    BY <1>3, <2>6, <2>7 DEF TrafficNext
<1>4. CASE TrafficSetsCode
  <2>1. PICK code \in {"_TIMEOUT", "_FINACK"} :
            offloadSessionTable' =
                [k \in Keys |-> IF offloadSessionTable[k].stamp = traffic.at
                                THEN [offloadSessionTable[k] EXCEPT !.code = code]
                                ELSE offloadSessionTable[k]]
    BY <1>4 DEF TrafficSetsCode
  <2>2. UNCHANGED <<lastSessionId, inserted, call, reply>>
    BY <1>4 DEF TrafficSetsCode
  <2>3. Keys' = Keys /\ Session' = Session
    BY <2>1, <2>2 DEF Keys, Session
  <2>4. ASSUME NEW k \in Keys
        PROVE  /\ offloadSessionTable'[k] \in Session
               /\ offloadSessionTable'[k].client = offloadSessionTable[k].client
               /\ offloadSessionTable'[k].stamp = offloadSessionTable[k].stamp
    <3>1. offloadSessionTable[k] \in Session
      BY DEF DeviceTyped
    <3>2. offloadSessionTable'[k] = offloadSessionTable[k]
          \/ offloadSessionTable'[k] = [offloadSessionTable[k] EXCEPT !.code = code]
      BY <2>1
    <3> QED
      BY <3>1, <3>2 DEF Session
  <2>5. traffic' \in [pc : {"sleep", "walk", "closing", "dead"},
                      size : 0 .. maxSessionId - 1, at : 0 .. inserted]
    BY <1>4 DEF TrafficSetsCode, DeviceTyped
  <2>6. DeviceTyped'
    BY <2>2, <2>3, <2>4, <2>5 DEF DeviceTyped
  <2> QED
    BY <2>2, <2>3, <2>4, <2>6
<1> QED
  BY <1>1, <1>2, <1>3, <1>4 DEF Traffic

\* So it leaves the agreement of the tables alone.
LEMMA TrafficPreserves ==
    ASSUME FwInv, Traffic, UNCHANGED client
    PROVE  FwInv'
<1> USE DEF FwInv
<1>1. /\ UNCHANGED <<lastSessionId, inserted, call, reply>>
      /\ Keys' = Keys /\ DeviceTyped'
      /\ \A k \in Keys :
            /\ offloadSessionTable'[k].client = offloadSessionTable[k].client
            /\ offloadSessionTable'[k].stamp = offloadSessionTable[k].stamp
  BY TrafficKeeps
<1>2. UNCHANGED <<sessionTable, lastId, step, received>>
  BY DEF client
<1>3. Clients' = Clients /\ Stamps' = Stamps
  BY <1>1 DEF Clients, Stamps
<1>4. /\ Offloaded' = Offloaded /\ OnTheWay' = OnTheWay /\ Report' = Report
      /\ Adding' = Adding /\ Fetching' = Fetching /\ Listing' = Listing
  BY <1>1, <1>2 DEF Offloaded, OnTheWay, Report, Adding, Fetching, Listing
<1>5. FirewallTyped'
  BY <1>1, <1>2 DEF FirewallTyped
<1>6. CallInStep'
  BY <1>1, <1>2, <1>4 DEF CallInStep
<1>7. IdsApart'
  BY <1>1, <1>2, <1>3, <1>4 DEF IdsApart, TablesAgree, ClientsDiffer
<1>8. StampsApart'
  BY <1>1, <1>2, <1>3, <1>4 DEF StampsApart
<1> QED
  BY <1>1, <1>5, <1>6, <1>7, <1>8

\* In an add call the requests that are left and the errors so far are messages.
LEMMA AddCall ==
    ASSUME FwInv, call.op = "addSession"
    PROVE  /\ Adding /\ reply = << >> /\ call.requests \in Seq(Request)
           /\ call.errors \in Seq(Refusal)
           /\ DOMAIN call = {"op", "requests", "errors"}
BY DEF FwInv, CallInStep, idle

\* A refused request leaves one or two errors with its id, and each has its reason.
LEMMA ErrorsOfRequest ==
    ASSUME DeviceTyped, NEW request \in Request
    PROVE  /\ Errors(request) \in Seq(Refusal)
           /\ Errors(request) # << >> => IdsOf(Errors(request)) = {request.id}
           /\ Errors(request) = << >> =>
                nextSessionId.id # 0 /\ findSessionByTuple(request.tuple) = {}
           /\ \A i \in 1 .. Len(Errors(request)) :
                \/ /\ Errors(request)[i].error = "_SESSION_ALREADY_EXISTS"
                   /\ findSessionByTuple(request.tuple) # {}
                \/ /\ Errors(request)[i].error = "_SESSION_TABLE_FULL"
                   /\ nextSessionId.id = 0
<1> DEFINE exists == [id |-> request.id, error |-> "_SESSION_ALREADY_EXISTS"]
           full == [id |-> request.id, error |-> "_SESSION_TABLE_FULL"]
           known == findSessionByTuple(request.tuple) # {}
           none == nextSessionId.id = 0
<1>1. exists \in Refusal /\ full \in Refusal
  BY DEF Request, Refusal
<1>2. CASE known /\ none
  <2>1. Errors(request) = <<exists>> \o <<full>>
    BY <1>2 DEF Errors
  <2>2. <<exists>> \in Seq(Refusal) /\ <<full>> \in Seq(Refusal)
    BY <1>1
  <2>3. FieldOf(<<exists>>, "id") = {request.id} /\ FieldOf(<<full>>, "id") = {request.id}
    <3>1. Range(<<exists>>) = {exists} /\ Range(<<full>>) = {full}
      BY DEF Range
    <3> QED
      BY <3>1 DEF FieldOf
  <2>4. exists.error = "_SESSION_ALREADY_EXISTS" /\ full.error = "_SESSION_TABLE_FULL"
    OBVIOUS
  <2> HIDE DEF exists, full
  <2>5. IdsOf(Errors(request)) = {request.id}
    <3> DEFINE e == <<exists>>
               f == <<full>>
    <3>1. /\ e \in Seq(Refusal) /\ f \in Seq(Refusal) /\ Errors(request) = e \o f
          /\ FieldOf(e, "id") = {request.id} /\ FieldOf(f, "id") = {request.id}
      BY <2>1, <2>2, <2>3
    <3> HIDE DEF e, f
    <3>2. FieldOf(e \o f, "id") = FieldOf(e, "id") \cup FieldOf(f, "id")
      BY <3>1, FieldOfBoth
    <3> QED
      BY <3>1, <3>2 DEF IdsOf
  <2>6. /\ Errors(request) \in Seq(Refusal)
        /\ \A i \in 1 .. Len(Errors(request)) :
                Errors(request)[i] = exists \/ Errors(request)[i] = full
    BY <2>1, <2>2
  <2>7. Errors(request) # << >>
    BY <2>1, <2>2
  <2> QED
    BY <1>2, <2>4, <2>5, <2>6, <2>7
<1>3. CASE known /\ ~ none
  <2>1. Errors(request) = <<exists>>
    BY <1>3 DEF Errors
  <2>2. Range(<<exists>>) = {exists}
    BY DEF Range
  <2>3. IdsOf(Errors(request)) = {request.id}
    BY <2>1, <2>2 DEF IdsOf, FieldOf
  <2> QED
    BY <1>1, <1>3, <2>1, <2>3
<1>4. CASE ~ known /\ none
  <2>1. Errors(request) = <<full>>
    BY <1>4 DEF Errors
  <2>2. Range(<<full>>) = {full}
    BY DEF Range
  <2>3. IdsOf(Errors(request)) = {request.id}
    BY <2>1, <2>2 DEF IdsOf, FieldOf
  <2> QED
    BY <1>1, <1>4, <2>1, <2>3
<1>5. CASE ~ known /\ ~ none
  <2>1. Errors(request) = << >>
    BY <1>5 DEF Errors
  <2> QED
    BY <1>5, <2>1
<1> QED
  BY <1>2, <1>3, <1>4, <1>5

\* What a step of addSession does to the rest of the call.
LEMMA AddTakesOne ==
    ASSUME FwInv, addSession, NEW request, request = Head(call.requests)
    PROVE  /\ request \in Request
           /\ call' \in [op : {"addSession"}, requests : Seq(Request), errors : Seq(Refusal)]
           /\ call'.requests = Tail(call.requests)
           /\ call'.errors = call.errors \o Errors(request)
           /\ IdsOf(call.requests) = {request.id} \cup IdsOf(call'.requests)
           /\ request.id \notin IdsOf(call'.requests) /\ Differ(call'.requests, "id")
           /\ IdsOf(call'.errors) = IdsOf(call.errors) \cup IdsOf(Errors(request))
<1>1. /\ call.op = "addSession" /\ call.requests # << >>
      /\ call' = [call EXCEPT !.requests = Tail(@), !.errors = @ \o Errors(request)]
  BY DEF addSession
<1>2. /\ call.requests \in Seq(Request) /\ call.errors \in Seq(Refusal)
      /\ call \in [op : {"addSession"}, requests : Seq(Request), errors : Seq(Refusal)]
  BY <1>1 DEF FwInv, CallInStep, idle
<1>3. request \in Request /\ Tail(call.requests) \in Seq(Request)
  BY <1>1, <1>2
<1>4. Errors(request) \in Seq(Refusal)
  BY <1>3, ErrorsOfRequest DEF FwInv
<1>5. call.errors \o Errors(request) \in Seq(Refusal)
  BY <1>2, <1>4
<1>6. /\ call'.requests = Tail(call.requests)
      /\ call'.errors = call.errors \o Errors(request)
      /\ call' \in [op : {"addSession"}, requests : Seq(Request), errors : Seq(Refusal)]
  BY <1>1, <1>2, <1>3, <1>5
<1>7. Differ(call.requests, "id")
  BY <1>1 DEF FwInv, IdsApart
<1>8. /\ FieldOf(call.requests, "id") =
            {Head(call.requests)["id"]} \cup FieldOf(Tail(call.requests), "id")
      /\ Head(call.requests)["id"] \notin FieldOf(Tail(call.requests), "id")
      /\ Differ(Tail(call.requests), "id")
  BY <1>1, <1>2, <1>7, FieldOfTail
<1>9. FieldOf(call.errors \o Errors(request), "id") =
            FieldOf(call.errors, "id") \cup FieldOf(Errors(request), "id")
  BY <1>2, <1>4, FieldOfBoth
<1> QED
  BY <1>3, <1>6, <1>8, <1>9 DEF IdsOf

\* A refused request: its id moves from the requests to the errors.
LEMMA RefusalPreserves ==
    ASSUME FwInv, addSession, UNCHANGED client, Errors(Head(call.requests)) # << >>
    PROVE  FwInv'
<1> DEFINE request == Head(call.requests)
<1> USE DEF FwInv
<1>1. /\ call.op = "addSession" /\ lastSessionId' = nextSessionId.last
      /\ UNCHANGED <<offloadSessionTable, inserted, reply, traffic>>
  BY DEF addSession
<1>2. /\ Adding /\ reply = << >>
  BY <1>1, AddCall
<1>3. UNCHANGED <<sessionTable, lastId, step, received>>
  BY DEF client
<1>4. /\ Keys' = Keys /\ Clients' = Clients /\ Stamps' = Stamps /\ OnTheWay' = OnTheWay
      /\ Offloaded' = Offloaded /\ Adding' = Adding /\ Session' = Session
  BY <1>1, <1>3 DEF Keys, Clients, Stamps, OnTheWay, Offloaded, Adding, Session
<1>5. /\ request \in Request
      /\ call' \in [op : {"addSession"}, requests : Seq(Request), errors : Seq(Refusal)]
      /\ IdsOf(call.requests) = {request.id} \cup IdsOf(call'.requests)
      /\ request.id \notin IdsOf(call'.requests) /\ Differ(call'.requests, "id")
      /\ IdsOf(call'.errors) = IdsOf(call.errors) \cup IdsOf(Errors(request))
  BY AddTakesOne
<1>6. IdsOf(Errors(request)) = {request.id}
  BY <1>5, ErrorsOfRequest
<1>7. call'.op = "addSession"
  BY <1>5
<1> HIDE DEF request
<1>8. DeviceTyped'
  <2>1. nextSessionId.last \in 1 .. maxSessionId
    BY NextKey
  <2> QED
    BY <1>1, <1>4, <2>1 DEF DeviceTyped
<1>9. FirewallTyped'
  BY <1>1, <1>3 DEF FirewallTyped
<1>10. CallInStep'
  BY <1>1, <1>2, <1>4, <1>5 DEF CallInStep
<1>11. IdsApart'
  <2>1. /\ IdsOf(call.requests) \cap (Clients \cup IdsOf(call.errors)) = {}
        /\ IdsOf(call.errors) \cap Clients = {} /\ TablesAgree /\ ClientsDiffer
        /\ (step = "closed" \/ Adding => IdsOf(reply) \cap Clients = {})
        /\ (step = "closed" => Differ(reply, "id"))
    BY <1>1 DEF IdsApart
  <2>2. TablesAgree'
    BY <1>1, <1>3, <1>4, <1>5, <1>6, <1>7, <2>1 DEF TablesAgree
  <2>3. ClientsDiffer'
    BY <1>1, <1>4, <2>1 DEF ClientsDiffer
  <2> QED
    BY <1>1, <1>3, <1>4, <1>5, <1>6, <2>1, <2>2, <2>3 DEF IdsApart
<1>12. StampsApart'
  BY <1>1, <1>3, <1>4 DEF StampsApart
<1> QED
  BY <1>8, <1>9, <1>10, <1>11, <1>12

\* An accepted request: its id moves from the requests to a session of the device.
LEMMA AddPreserves ==
    ASSUME FwInv, addSession, UNCHANGED client, Errors(Head(call.requests)) = << >>
    PROVE  FwInv'
<1> DEFINE request == Head(call.requests)
           key == nextSessionId.id
           session == NewSession(request)
<1> USE DEF FwInv
<1>1. /\ call.op = "addSession" /\ lastSessionId' = nextSessionId.last
      /\ offloadSessionTable' = [k \in Keys \cup {key} |->
            IF k = key THEN session ELSE offloadSessionTable[k]]
      /\ inserted' = inserted + 1
      /\ UNCHANGED <<reply, traffic>>
  BY DEF addSession
<1>2. /\ Adding /\ reply = << >> /\ step # "closed"
  BY <1>1, AddCall DEF Adding
<1>3. UNCHANGED <<sessionTable, lastId, step, received>>
  BY DEF client
<1>4. /\ request \in Request
      /\ call' \in [op : {"addSession"}, requests : Seq(Request), errors : Seq(Refusal)]
      /\ call'.errors = call.errors \o Errors(request)
      /\ IdsOf(call.requests) = {request.id} \cup IdsOf(call'.requests)
      /\ request.id \notin IdsOf(call'.requests) /\ Differ(call'.requests, "id")
  BY AddTakesOne
<1>5. call'.op = "addSession" /\ call'.errors = call.errors
  <2>1. call.errors \in Seq(Refusal)
    BY <1>1, AddCall
  <2>2. Errors(request) = << >>
    OBVIOUS
  <2>3. call.errors \o << >> = call.errors
    BY <2>1
  <2> QED
    BY <1>4, <2>2, <2>3
<1>6. /\ key \in 1 .. maxSessionId - 1 /\ key \notin Keys
      /\ nextSessionId.last \in 1 .. maxSessionId
  BY <1>4, ErrorsOfRequest, NextKey
<1>7. session \in [client : Nat, tuple : Tuple, stamp : 1 .. inserted + 1,
                   state : {"_ESTABLISHED", "_CLOSED"},
                   code : {"_NOT_CLOSED", "_TIMEOUT", "_FINACK"}]
      /\ session.client = request.id /\ session.stamp = inserted + 1
  BY <1>4 DEF NewSession, Request, DeviceTyped
<1> HIDE DEF request, key, session
<1>8. /\ Keys' = Keys \cup {key} /\ offloadSessionTable'[key] = session
      /\ \A k \in Keys : offloadSessionTable'[k] = offloadSessionTable[k]
  BY <1>1, <1>6 DEF Keys
<1>9. Clients' = Clients \cup {request.id} /\ Stamps' = Stamps \cup {inserted + 1}
  BY <1>7, <1>8 DEF Clients, Stamps
<1>10. /\ OnTheWay = {} /\ OnTheWay' = {} /\ Offloaded' = Offloaded /\ Adding'
  BY <1>2, <1>3 DEF OnTheWay, Offloaded, Adding
<1>11. inserted \in Nat /\ \A k \in Keys : offloadSessionTable[k].stamp \in 1 .. inserted
  BY DEF DeviceTyped, Session
<1>12. DeviceTyped'
  <2>1. \A k \in Keys : offloadSessionTable[k] \in Session'
    <3>1. 1 .. inserted \subseteq 1 .. inserted + 1
      BY <1>11
    <3> QED
      BY <1>1, <3>1 DEF DeviceTyped, Session
  <2>2. session \in Session'
    BY <1>1, <1>7 DEF Session
  <2>3. traffic' \in [pc : {"sleep", "walk", "closing", "dead"},
                      size : 0 .. maxSessionId - 1, at : 0 .. inserted']
    <3>1. 0 .. inserted \subseteq 0 .. inserted + 1
      BY <1>11
    <3> QED
      BY <1>1, <3>1 DEF DeviceTyped
  <2>4. Keys' \subseteq 1 .. maxSessionId - 1
    BY <1>6, <1>8 DEF DeviceTyped
  <2>5. \A k \in Keys' : offloadSessionTable'[k] \in Session'
    BY <1>8, <2>1, <2>2
  <2>6. lastSessionId' \in 1 .. maxSessionId /\ inserted' \in Nat
    BY <1>1, <1>6, <1>11
  <2> QED
    BY <2>3, <2>4, <2>5, <2>6 DEF DeviceTyped
<1>13. FirewallTyped'
  <2>1. received \subseteq 1 .. inserted + 1
    BY <1>11 DEF FirewallTyped
  <2> QED
    BY <1>1, <1>3, <2>1 DEF FirewallTyped
<1>14. CallInStep'
  BY <1>1, <1>2, <1>4, <1>10 DEF CallInStep
<1>15. IdsApart'
  <2>1. /\ IdsOf(call.requests) \cap (Clients \cup IdsOf(call.errors)) = {}
        /\ IdsOf(call.errors) \cap Clients = {} /\ TablesAgree /\ ClientsDiffer
    BY <1>1 DEF IdsApart
  <2>2. TablesAgree'
    BY <1>1, <1>2, <1>3, <1>4, <1>5, <1>9, <1>10, <2>1 DEF TablesAgree
  <2>3. ClientsDiffer'
    <3>1. \A k \in Keys : offloadSessionTable[k].client # request.id
      BY <1>4, <2>1 DEF Clients
    <3> QED
      BY <1>7, <1>8, <2>1, <3>1 DEF ClientsDiffer
  <2>4. reply' = << >> /\ IdsOf(<< >>) = {}
    BY <1>1, <1>2, NoField DEF IdsOf
  <2> QED
    BY <1>2, <1>3, <1>4, <1>5, <1>9, <2>1, <2>2, <2>3, <2>4 DEF IdsApart
<1>16. StampsApart'
  <2>1. \A k, l \in Keys' : offloadSessionTable'[k].stamp = offloadSessionTable'[l].stamp
                                => k = l
    <3>1. \A k \in Keys : offloadSessionTable[k].stamp # inserted + 1
      BY <1>11
    <3> QED
      BY <1>7, <1>8, <3>1 DEF StampsApart
  <2>2. Stamps \cup received = 1 .. inserted /\ received \cap Stamps = {}
    BY <1>10 DEF StampsApart
  <2>3. 1 .. inserted + 1 = (1 .. inserted) \cup {inserted + 1}
        /\ inserted + 1 \notin 1 .. inserted
    BY <1>11
  <2>4. Stamps' \cup OnTheWay' \cup received' = 1 .. inserted'
    BY <1>1, <1>3, <1>9, <1>10, <2>2, <2>3
  <2>5. received' \cap (Stamps' \cup OnTheWay') = {} /\ Stamps' \cap OnTheWay' = {}
    BY <1>3, <1>9, <1>10, <2>2, <2>3
  <2> QED
    BY <1>2, <1>3, <2>1, <2>4, <2>5 DEF StampsApart
<1> QED
  BY <1>12, <1>13, <1>14, <1>15, <1>16

\* The operations that leave the dictionary alone: the parts of the invariant that are
\* about it and about the firewall's table.
LEMMA DictionaryUntouched ==
    ASSUME FwInv, UNCHANGED <<offloadSessionTable, lastSessionId, inserted, traffic>>
    PROVE  /\ DeviceTyped' /\ Keys' = Keys /\ Clients' = Clients /\ Stamps' = Stamps
           /\ Session' = Session /\ Report' = Report
           /\ ClientsDiffer'
BY DEF FwInv, DeviceTyped, Keys, Clients, Stamps, Session, Report, IdsApart, ClientsDiffer

\* The answer of an add call carries the refusals and ends the call.
LEMMA AddReturnPreserves ==
    ASSUME FwInv, addSessionReturns, UNCHANGED client
    PROVE  FwInv'
<1> USE DEF FwInv
<1>1. /\ call.op = "addSession" /\ reply' = call.errors /\ call' = [op |-> "returned"]
      /\ call.requests = << >>
      /\ UNCHANGED <<offloadSessionTable, lastSessionId, inserted, traffic>>
  BY DEF addSessionReturns, Return
<1>2. Adding /\ reply = << >> /\ call.errors \in Seq(Refusal) /\ step # "closed"
  BY <1>1, AddCall DEF Adding
<1>3. UNCHANGED <<sessionTable, lastId, step, received>>
  BY DEF client
<1>4. /\ DeviceTyped' /\ Keys' = Keys /\ Clients' = Clients /\ Stamps' = Stamps
      /\ ClientsDiffer'
  BY <1>1, DictionaryUntouched
<1>5. /\ Offloaded' = Offloaded /\ Adding' /\ OnTheWay = {} /\ OnTheWay' = {}
  BY <1>2, <1>3 DEF Offloaded, Adding, OnTheWay
<1>6. FirewallTyped'
  BY <1>1, <1>3 DEF FirewallTyped
<1>7. CallInStep'
  BY <1>1, <1>2, <1>5 DEF CallInStep
<1>8. IdsApart'
  <2>1. IdsOf(call.errors) \cap Clients = {} /\ TablesAgree
    BY <1>1 DEF IdsApart
  <2>2. IdsOf(<< >>) = {}
    BY NoField DEF IdsOf
  <2>3. TablesAgree'
    BY <1>1, <1>2, <1>3, <1>4, <1>5, <2>1, <2>2 DEF TablesAgree
  <2> QED
    BY <1>1, <1>2, <1>3, <1>4, <2>1, <2>3 DEF IdsApart
<1>9. StampsApart'
  BY <1>1, <1>2, <1>3, <1>4, <1>5 DEF StampsApart, Keys
<1> QED
  BY <1>4, <1>6, <1>7, <1>8, <1>9

\* A fetch finds its session: it is of an offloaded one.
LEMMA GetPreserves ==
    ASSUME FwInv, getSession, UNCHANGED client
    PROVE  FwInv'
<1> USE DEF FwInv
<1>1. /\ call.op = "getSession" /\ call' = [op |-> "returned"]
      /\ UNCHANGED <<offloadSessionTable, lastSessionId, inserted, traffic>>
  BY DEF getSession, Return
<1>2. Fetching /\ reply = << >> /\ call.id \in Offloaded
  BY <1>1 DEF CallInStep, idle
<1>3. ~ Adding /\ step # "closed"
  BY <1>2 DEF Fetching, Adding
<1>4. UNCHANGED <<sessionTable, lastId, step, received>>
  BY DEF client
<1>5. /\ DeviceTyped' /\ Keys' = Keys /\ Clients' = Clients /\ Stamps' = Stamps
      /\ ClientsDiffer'
  BY <1>1, DictionaryUntouched
<1>6. /\ Offloaded' = Offloaded /\ Fetching' /\ ~ Adding' /\ OnTheWay = {} /\ OnTheWay' = {}
  BY <1>2, <1>3, <1>4 DEF Offloaded, Fetching, Adding, OnTheWay
<1>7. Offloaded = Clients
  BY <1>1, <1>3 DEF IdsApart, TablesAgree
<1>8. Head(reply').state # "UNKNOWN"
  <2> DEFINE found == WithClientId(call.id)
             k == Earliest(found)
  <2>1. found # {} /\ found \subseteq Keys
    BY <1>2, <1>7 DEF Clients, WithClientId
  <2>2. k \in Keys
    BY <2>1, EarliestIsFirst
  <2>3. reply' = <<[id |-> call.id, state |-> offloadSessionTable[k].state]>>
    BY <2>1 DEF getSession
  <2>4. offloadSessionTable[k].state \in {"_ESTABLISHED", "_CLOSED"}
    BY <2>2 DEF DeviceTyped, Session
  <2> HIDE DEF k
  <2> QED
    BY <2>3, <2>4
<1>9. FirewallTyped'
  BY <1>1, <1>4 DEF FirewallTyped
<1>10. CallInStep'
  BY <1>1, <1>6, <1>8 DEF CallInStep
<1>11. IdsApart'
  <2>1. TablesAgree'
    BY <1>1, <1>3, <1>4, <1>5, <1>6, <1>7 DEF TablesAgree
  <2> QED
    BY <1>1, <1>3, <1>4, <1>5, <1>6, <2>1 DEF IdsApart
<1>12. StampsApart'
  BY <1>1, <1>3, <1>4, <1>5, <1>6 DEF StampsApart, Keys
<1> QED
  BY <1>5, <1>9, <1>10, <1>11, <1>12

\* A listing changes no table.
LEMMA ListPreserves ==
    ASSUME FwInv, getAllSessions, UNCHANGED client
    PROVE  FwInv'
<1> USE DEF FwInv
<1>1. /\ call.op = "getAllSessions" /\ call' = [op |-> "returned"]
      /\ UNCHANGED <<offloadSessionTable, lastSessionId, inserted, traffic>>
  BY DEF getAllSessions, Return
<1>2. Listing /\ reply = << >>
  BY <1>1 DEF CallInStep, idle
<1>3. ~ Adding /\ step # "closed"
  BY <1>2 DEF Listing, Adding
<1>4. UNCHANGED <<sessionTable, lastId, step, received>>
  BY DEF client
<1>5. /\ DeviceTyped' /\ Keys' = Keys /\ Clients' = Clients /\ Stamps' = Stamps
      /\ ClientsDiffer'
  BY <1>1, DictionaryUntouched
<1>6. /\ Offloaded' = Offloaded /\ Listing' /\ ~ Adding' /\ OnTheWay = {} /\ OnTheWay' = {}
  BY <1>2, <1>3, <1>4 DEF Offloaded, Listing, Adding, OnTheWay
<1>7. FirewallTyped'
  BY <1>1, <1>4 DEF FirewallTyped
<1>8. CallInStep'
  BY <1>1, <1>6 DEF CallInStep
<1>9. IdsApart'
  <2>1. TablesAgree'
    BY <1>1, <1>3, <1>4, <1>5, <1>6 DEF IdsApart, TablesAgree
  <2> QED
    BY <1>1, <1>3, <1>4, <1>5, <1>6, <2>1 DEF IdsApart
<1>10. StampsApart'
  BY <1>1, <1>3, <1>4, <1>5, <1>6 DEF StampsApart, Keys
<1> QED
  BY <1>5, <1>7, <1>8, <1>9, <1>10

\* In a collection the call's keys are in the dictionary, and each is there once.
LEMMA ClosedCall ==
    ASSUME FwInv, call.op = "getClosedSessions"
    PROVE  /\ step = "closed" /\ reply \in Seq(Report)
           /\ call \in [op : {"getClosedSessions"}, begun : BOOLEAN, keys : Seq(Keys)]
           /\ \A i, j \in 1 .. Len(call.keys) : call.keys[i] = call.keys[j] => i = j
BY DEF FwInv, CallInStep, idle

\* The walk of getClosedSessions takes its snapshot of the keys.
LEMMA ClosedBeginsPreserves ==
    ASSUME FwInv, getClosedSessionsBegins, UNCHANGED client
    PROVE  FwInv'
<1> USE DEF FwInv
<1>1. /\ call.op = "getClosedSessions"
      /\ call' = [call EXCEPT !.begun = TRUE, !.keys = InOrder]
      /\ UNCHANGED <<offloadSessionTable, lastSessionId, inserted, traffic, reply>>
  BY DEF getClosedSessionsBegins
<1>2. /\ step = "closed" /\ reply \in Seq(Report)
      /\ call \in [op : {"getClosedSessions"}, begun : BOOLEAN, keys : Seq(Keys)]
  BY <1>1, ClosedCall
<1>3. UNCHANGED <<sessionTable, lastId, step, received>>
  BY DEF client
<1>4. /\ DeviceTyped' /\ Keys' = Keys /\ Clients' = Clients /\ Stamps' = Stamps
      /\ ClientsDiffer' /\ Report' = Report
  BY <1>1, DictionaryUntouched
<1>5. /\ Offloaded' = Offloaded /\ Adding' = Adding /\ OnTheWay' = OnTheWay
  BY <1>1, <1>3 DEF Offloaded, Adding, OnTheWay
<1>6. /\ InOrder \in Seq(Keys)
      /\ \A i, j \in 1 .. Len(InOrder) : InOrder[i] = InOrder[j] => i = j
  BY InOrderSorts
<1>7. /\ call' \in [op : {"getClosedSessions"}, begun : BOOLEAN, keys : Seq(Keys)]
      /\ call'.op = "getClosedSessions" /\ call'.keys = InOrder
  BY <1>1, <1>2, <1>6
<1>8. FirewallTyped'
  BY <1>1, <1>3 DEF FirewallTyped
<1>9. CallInStep'
  BY <1>1, <1>2, <1>3, <1>4, <1>6, <1>7 DEF CallInStep
<1>10. IdsApart'
  <2>1. TablesAgree'
    BY <1>1, <1>3, <1>4, <1>5, <1>7 DEF IdsApart, TablesAgree
  <2> QED
    BY <1>1, <1>3, <1>4, <1>5, <1>7, <2>1 DEF IdsApart
<1>11. StampsApart'
  BY <1>1, <1>3, <1>4, <1>5 DEF StampsApart, Keys
<1> QED
  BY <1>4, <1>8, <1>9, <1>10, <1>11

\* The walk of getClosedSessions ends the call when no key is left.
LEMMA ClosedReturnPreserves ==
    ASSUME FwInv, getClosedSessionsReturns, UNCHANGED client
    PROVE  FwInv'
<1> USE DEF FwInv
<1>1. /\ call.op = "getClosedSessions" /\ call' = [op |-> "returned"]
      /\ UNCHANGED <<offloadSessionTable, lastSessionId, inserted, traffic, reply>>
  BY DEF getClosedSessionsReturns, Return
<1>2. step = "closed" /\ reply \in Seq(Report)
  BY <1>1, ClosedCall
<1>3. UNCHANGED <<sessionTable, lastId, step, received>>
  BY DEF client
<1>4. /\ DeviceTyped' /\ Keys' = Keys /\ Clients' = Clients /\ Stamps' = Stamps
      /\ ClientsDiffer' /\ Report' = Report
  BY <1>1, DictionaryUntouched
<1>5. /\ Offloaded' = Offloaded /\ Adding' = Adding /\ OnTheWay' = OnTheWay
  BY <1>1, <1>3 DEF Offloaded, Adding, OnTheWay
<1>6. FirewallTyped'
  BY <1>1, <1>3 DEF FirewallTyped
<1>7. CallInStep'
  BY <1>1, <1>2, <1>3, <1>4 DEF CallInStep
<1>8. IdsApart'
  <2>1. TablesAgree'
    BY <1>1, <1>3, <1>4, <1>5 DEF IdsApart, TablesAgree
  <2> QED
    BY <1>1, <1>3, <1>4, <1>5, <2>1 DEF IdsApart
<1>9. StampsApart'
  BY <1>1, <1>3, <1>4, <1>5 DEF StampsApart, Keys
<1> QED
  BY <1>4, <1>6, <1>7, <1>8, <1>9

\* One round of the collection: a closed session leaves the dictionary, and its id and
\* its stamp are on their way.
LEMMA CollectPreserves ==
    ASSUME FwInv, getClosedSessions, UNCHANGED client
    PROVE  FwInv'
<1> DEFINE key == Head(call.keys)
           session == offloadSessionTable[key]
           message == [id |-> session.client, stamp |-> session.stamp]
<1> USE DEF FwInv
<1>1. /\ call.op = "getClosedSessions" /\ call.keys # << >>
      /\ call' = [call EXCEPT !.keys = Tail(@)]
      /\ UNCHANGED <<lastSessionId, inserted, traffic>>
  BY DEF getClosedSessions
<1>2. UNCHANGED <<sessionTable, lastId, step, received>>
  BY DEF client
<1>3. /\ step = "closed" /\ reply \in Seq(Report)
      /\ call \in [op : {"getClosedSessions"}, begun : BOOLEAN, keys : Seq(Keys)]
      /\ \A i, j \in 1 .. Len(call.keys) : call.keys[i] = call.keys[j] => i = j
  BY <1>1, ClosedCall
<1>4. ~ Adding /\ ~ Adding' /\ Offloaded' = Offloaded /\ step' = "closed"
  BY <1>2, <1>3 DEF Adding, Offloaded
<1>5. /\ key \in Keys /\ Tail(call.keys) \in Seq(Keys)
      /\ Len(Tail(call.keys)) = Len(call.keys) - 1 /\ Len(call.keys) \in Nat \ {0}
      /\ key = call.keys[1]
      /\ \A i \in 1 .. Len(call.keys) - 1 : Tail(call.keys)[i] = call.keys[i + 1]
  BY <1>1, <1>3
<1>6. /\ \A i \in 1 .. Len(call.keys) - 1 : i + 1 \in 1 .. Len(call.keys) /\ i + 1 # 1
      /\ 1 \in 1 .. Len(call.keys)
  BY <1>5
<1>7. /\ \A i \in 1 .. Len(Tail(call.keys)) : Tail(call.keys)[i] # key
      /\ \A i, j \in 1 .. Len(Tail(call.keys)) :
            Tail(call.keys)[i] = Tail(call.keys)[j] => i = j
  <2>1. \A i \in 1 .. Len(call.keys) - 1 : call.keys[i + 1] # call.keys[1]
    BY <1>3, <1>6
  <2>2. \A i, j \in 1 .. Len(call.keys) - 1 :
            call.keys[i + 1] = call.keys[j + 1] => i = j
    <3> TAKE i, j \in 1 .. Len(call.keys) - 1
    <3>1. call.keys[i + 1] = call.keys[j + 1] => i + 1 = j + 1
      BY <1>3, <1>6
    <3>2. i \in Int /\ j \in Int
      BY <1>5
    <3> QED
      BY <3>1, <3>2
  <2> QED
    BY <1>5, <2>1, <2>2
<1>8. /\ call'.keys = Tail(call.keys) /\ call'.op = "getClosedSessions"
      /\ \A S : Tail(call.keys) \in Seq(S) =>
            call' \in [op : {"getClosedSessions"}, begun : BOOLEAN, keys : Seq(S)]
  BY <1>1, <1>3
<1>9. session \in Session
  BY <1>5 DEF DeviceTyped
<1>10. FirewallTyped'
  BY <1>1, <1>2 DEF FirewallTyped
<1>11. /\ Offloaded = Clients \cup IdsOf(reply) /\ ClientsDiffer
       /\ IdsOf(reply) \cap Clients = {} /\ Differ(reply, "id")
  BY <1>1, <1>3, <1>4 DEF IdsApart, TablesAgree
<1>12. OnTheWay = FieldOf(reply, "stamp") /\ OnTheWay' = FieldOf(reply', "stamp")
  BY <1>3, <1>4 DEF OnTheWay
<1>13. CASE session.state = "_CLOSED"
  <2>1. /\ offloadSessionTable' = Restrict(offloadSessionTable, Keys \ {key})
        /\ reply' = Append(reply, message)
    BY <1>13 DEF getClosedSessions
  <2>2. /\ Keys' = Keys \ {key}
        /\ \A k \in Keys \ {key} : offloadSessionTable'[k] = offloadSessionTable[k]
    BY <2>1 DEF Keys, Restrict
  <2>3. message \in Report /\ message["id"] = session.client
        /\ message["stamp"] = session.stamp
    BY <1>9 DEF Session, Report
  <2>4. /\ Session' = Session /\ Report' = Report
    BY <1>1 DEF Session, Report
  <2>5. session.client \in Clients /\ session.stamp \in Stamps
    BY <1>5 DEF Clients, Stamps
  <2>6. Clients' = Clients \ {session.client} /\ Stamps' = Stamps \ {session.stamp}
    <3>1. \A k \in Keys \ {key} : /\ offloadSessionTable[k].client # session.client
                                  /\ offloadSessionTable[k].stamp # session.stamp
      BY <1>5, <1>11 DEF ClientsDiffer, StampsApart
    <3>2. Clients' = {offloadSessionTable[k].client : k \in Keys \ {key}}
      BY <2>2 DEF Clients
    <3>3. Stamps' = {offloadSessionTable[k].stamp : k \in Keys \ {key}}
      BY <2>2 DEF Stamps
    <3>4. Clients' = Clients \ {session.client}
      BY <1>5, <3>1, <3>2 DEF Clients
    <3>5. Stamps' = Stamps \ {session.stamp}
      BY <1>5, <3>1, <3>3 DEF Stamps
    <3> QED
      BY <3>4, <3>5
  <2> HIDE DEF message, session, key
  <2>7. DeviceTyped'
    BY <1>1, <2>2, <2>4 DEF DeviceTyped
  <2>8. Tail(call.keys) \in Seq(Keys \ {key})
    <3> DEFINE r == Tail(call.keys)
    <3>1. r \in Seq(Keys) /\ \A i \in 1 .. Len(r) : r[i] # key
      BY <1>5, <1>7
    <3> HIDE DEF r
    <3>2. Len(r) \in Nat /\ r \in [1 .. Len(r) -> Keys \ {key}]
      BY <3>1
    <3>3. r \in Seq(Keys \ {key})
      BY <3>2
    <3> QED
      BY <3>3 DEF r
  <2>9. CallInStep'
    <3>1. reply' \in Seq(Report)
      BY <1>3, <2>1, <2>3
    <3>2. call' \in [op : {"getClosedSessions"}, begun : BOOLEAN, keys : Seq(Keys \ {key})]
      BY <1>8, <2>8
    <3> QED
      BY <1>4, <1>7, <1>8, <2>2, <2>4, <3>1, <3>2 DEF CallInStep
  <2>10. /\ FieldOf(reply', "id") = FieldOf(reply, "id") \cup {session.client}
         /\ Differ(reply, "id") /\ session.client \notin FieldOf(reply, "id")
                => Differ(reply', "id")
    <3>1. /\ FieldOf(Append(reply, message), "id") = FieldOf(reply, "id") \cup {message["id"]}
          /\ Differ(reply, "id") /\ message["id"] \notin FieldOf(reply, "id")
                => Differ(Append(reply, message), "id")
      BY <1>3, <2>3, FieldOfAppend
    <3> QED
      BY <2>1, <2>3, <3>1
  <2>11. /\ FieldOf(reply', "stamp") = FieldOf(reply, "stamp") \cup {session.stamp}
         /\ Differ(reply, "stamp") /\ session.stamp \notin FieldOf(reply, "stamp")
                => Differ(reply', "stamp")
    <3>1. /\ FieldOf(Append(reply, message), "stamp") = FieldOf(reply, "stamp") \cup {message["stamp"]}
          /\ Differ(reply, "stamp") /\ message["stamp"] \notin FieldOf(reply, "stamp")
                => Differ(Append(reply, message), "stamp")
      BY <1>3, <2>3, FieldOfAppend
    <3> QED
      BY <2>1, <2>3, <3>1
  <2>12. IdsApart'
    <3>1. TablesAgree'
      BY <1>4, <1>8, <1>11, <2>5, <2>6, <2>10 DEF TablesAgree, IdsOf
    <3>2. ClientsDiffer'
      BY <1>11, <2>2 DEF ClientsDiffer
    <3>3. IdsOf(reply') \cap Clients' = {} /\ Differ(reply', "id")
      BY <1>11, <2>5, <2>6, <2>10 DEF IdsOf
    <3> QED
      BY <1>8, <3>1, <3>2, <3>3 DEF IdsApart
  <2>13. StampsApart'
    <3>1. /\ Stamps \cup OnTheWay \cup received = 1 .. inserted
          /\ received \cap (Stamps \cup OnTheWay) = {} /\ Stamps \cap OnTheWay = {}
          /\ Differ(reply, "stamp")
      BY <1>3 DEF StampsApart
    <3>2. \A k, l \in Keys' :
            offloadSessionTable'[k].stamp = offloadSessionTable'[l].stamp => k = l
      BY <2>2 DEF StampsApart
    <3>3. OnTheWay' = OnTheWay \cup {session.stamp}
      BY <1>12, <2>11
    <3>4. Differ(reply', "stamp")
      BY <1>12, <2>5, <2>11, <3>1
    <3>5. Stamps' \cup OnTheWay' \cup received' = 1 .. inserted'
      BY <1>1, <1>2, <2>5, <2>6, <3>1, <3>3
    <3>6. received' \cap (Stamps' \cup OnTheWay') = {} /\ Stamps' \cap OnTheWay' = {}
      BY <1>2, <2>5, <2>6, <3>1, <3>3
    <3> QED
      BY <3>2, <3>4, <3>5, <3>6 DEF StampsApart
  <2> QED
    BY <1>10, <2>7, <2>9, <2>12, <2>13
<1>14. CASE session.state # "_CLOSED"
  <2>1. UNCHANGED <<offloadSessionTable, lastSessionId, inserted, traffic>> /\ reply' = reply
    BY <1>1, <1>14 DEF getClosedSessions
  <2> HIDE DEF message, session, key
  <2>2. /\ DeviceTyped' /\ Keys' = Keys /\ Clients' = Clients /\ Stamps' = Stamps
        /\ ClientsDiffer' /\ Report' = Report
    BY <2>1, DictionaryUntouched
  <2>3. CallInStep'
    <3>1. call' \in [op : {"getClosedSessions"}, begun : BOOLEAN, keys : Seq(Keys)]
      BY <1>5, <1>8
    <3> QED
      BY <1>3, <1>4, <1>7, <1>8, <2>1, <2>2, <3>1 DEF CallInStep
  <2>4. IdsApart'
    <3>1. TablesAgree'
      BY <1>4, <1>8, <1>11, <2>1, <2>2 DEF TablesAgree
    <3> QED
      BY <1>8, <1>11, <2>1, <2>2, <3>1 DEF IdsApart
  <2>5. StampsApart'
    BY <1>1, <1>2, <1>12, <2>1, <2>2 DEF StampsApart, Keys
  <2> QED
    BY <1>10, <2>2, <2>3, <2>4, <2>5
<1> QED
  BY <1>13, <1>14

\* Every step of the handler preserves the invariant.
LEMMA HandlerPreserves ==
    ASSUME FwInv, Handler, UNCHANGED client
    PROVE  FwInv'
BY AddPreserves, RefusalPreserves, AddReturnPreserves, GetPreserves, ListPreserves,
   ClosedBeginsPreserves, CollectPreserves, ClosedReturnPreserves DEF Handler

\* run() has a next step after each.
LEMMA AfterIsAStep == \A s \in DOMAIN After : After[s] \in DOMAIN After
BY DEF After

\* Between two calls the firewall has as offloaded what the device has.
LEMMA AtRest ==
    ASSUME FwInv, ServerKeeps, call' = idle, reply' = << >>, UNCHANGED <<lastId, received>>,
           sessionTable' \in [DOMAIN sessionTable -> BOOLEAN], step' \in DOMAIN After,
           Offloaded' = Clients, OnTheWay = {}
    PROVE  FwInv'
<1> USE DEF FwInv
<1>1. UNCHANGED <<offloadSessionTable, lastSessionId, inserted, traffic>>
  BY DEF ServerKeeps
<1>2. /\ DeviceTyped' /\ Keys' = Keys /\ Clients' = Clients /\ Stamps' = Stamps
      /\ ClientsDiffer'
  BY <1>1, DictionaryUntouched
<1>3. FirewallTyped'
  <2>1. DOMAIN sessionTable' = DOMAIN sessionTable
    OBVIOUS
  <2> QED
    BY <1>1, <2>1 DEF FirewallTyped
<1>4. CallInStep'
  BY DEF CallInStep
<1>5. call'.op = "idle" /\ IdsOf(<< >>) = {} /\ Differ(<< >>, "id") /\ Differ(<< >>, "stamp")
      /\ FieldOf(<< >>, "stamp") = {}
  BY NoField DEF idle, IdsOf
<1>6. OnTheWay' = {}
  BY <1>5 DEF OnTheWay
<1>7. IdsApart'
  <2>1. TablesAgree'
    BY <1>2, <1>5 DEF TablesAgree
  <2> QED
    BY <1>2, <1>5, <2>1 DEF IdsApart
<1>8. StampsApart'
  BY <1>1, <1>2, <1>5, <1>6 DEF StampsApart, Keys
<1> QED
  BY <1>2, <1>3, <1>4, <1>7, <1>8

\* A call that asks, without adding.
LEMMA AskPreserves ==
    ASSUME FwInv, ServerKeeps, call = idle, reply = << >>, CallInStep', call'.op # "addSession",
           UNCHANGED <<step, reply, sessionTable, lastId, received>>
    PROVE  FwInv'
<1> USE DEF FwInv
<1>1. UNCHANGED <<offloadSessionTable, lastSessionId, inserted, traffic>>
  BY DEF ServerKeeps
<1>2. /\ DeviceTyped' /\ Keys' = Keys /\ Clients' = Clients /\ Stamps' = Stamps
      /\ ClientsDiffer'
  BY <1>1, DictionaryUntouched
<1>3. /\ Offloaded' = Offloaded /\ Adding' = Adding /\ OnTheWay' = OnTheWay
      /\ call.op = "idle"
  BY DEF Offloaded, Adding, OnTheWay, idle
<1>4. FirewallTyped'
  BY <1>1 DEF FirewallTyped
<1>5. IdsApart'
  <2>1. TablesAgree'
    BY <1>2, <1>3 DEF IdsApart, TablesAgree
  <2> QED
    BY <1>2, <1>3, <2>1 DEF IdsApart
<1>6. StampsApart'
  BY <1>1, <1>2, <1>3 DEF StampsApart, Keys
<1> QED
  BY <1>2, <1>4, <1>5, <1>6

\* What a call that has returned leaves on its way: errors, closed sessions, nothing.
LEMMA CallReturned ==
    ASSUME FwInv, call.op = "returned"
    PROVE  /\ Adding => reply \in Seq(Refusal) /\ OnTheWay = {}
           /\ step = "closed" => reply \in Seq(Report)
           /\ Fetching => Head(reply).state # "UNKNOWN" /\ OnTheWay = {}
           /\ Listing => OnTheWay = {}
<1>1. CASE call = idle
  BY <1>1 DEF idle
<1>2. CASE call # idle
  BY <1>2 DEF FwInv, CallInStep, Adding, Fetching, Listing, OnTheWay
<1> QED
  BY <1>1, <1>2

\* When no message is on its way the two tables are equal.
LEMMA EqualTables ==
    ASSUME FwInv, call.op # "addSession", step = "closed" \/ Adding => reply = << >>
    PROVE  Offloaded = Clients /\ OnTheWay = {}
<1>1. IdsOf(<< >>) = {} /\ FieldOf(<< >>, "stamp") = {}
  BY NoField DEF IdsOf
<1>2. OnTheWay = {}
  BY <1>1 DEF OnTheWay
<1> QED
  BY <1>1, <1>2 DEF FwInv, IdsApart, TablesAgree

\* A skipped add or fetch, the end of a collection and of a listing: run() goes on.
LEMMA StepOnPreserves ==
    ASSUME FwInv, SkipAdd \/ SkipGet \/ ClosedReturns \/ ListReturns
    PROVE  FwInv'
<1>1. /\ ServerKeeps /\ call' = idle /\ step' = After[step]
      /\ UNCHANGED <<sessionTable, lastId, received>>
  BY DEF SkipAdd, SkipGet, ClosedReturns, ListReturns, CallEnds
<1>2. call.op = "idle" \/ call.op = "returned"
  BY DEF SkipAdd, SkipGet, ClosedReturns, ListReturns, CallEnds, idle
<1>3. reply' = << >> /\ (step = "closed" \/ Adding => reply = << >>)
  <2>1. CASE SkipAdd \/ SkipGet
    <3>1. reply = << >> /\ reply' = reply
      BY <2>1 DEF SkipAdd, SkipGet, FwInv, CallInStep, idle
    <3> QED
      BY <3>1
  <2>2. CASE ClosedReturns
    BY <2>2 DEF ClosedReturns
  <2>3. CASE ListReturns
    BY <2>3 DEF ListReturns, Listing, Adding
  <2> QED
    BY <2>1, <2>2, <2>3
<1>4. Offloaded = Clients /\ OnTheWay = {}
  BY <1>2, <1>3, EqualTables
<1>5. step' \in DOMAIN After /\ sessionTable \in [DOMAIN sessionTable -> BOOLEAN]
  BY <1>1, AfterIsAStep DEF FwInv, FirewallTyped
<1>6. Offloaded' = Offloaded
  BY <1>1 DEF Offloaded
<1> QED
  BY <1>1, <1>3, <1>4, <1>5, <1>6, AtRest

\* A fetch that was answered: it found its session.
LEMMA GetReturnPreserves ==
    ASSUME FwInv, GetReturns
    PROVE  FwInv'
<1>1. /\ Fetching /\ call.op = "returned" /\ call' = idle /\ reply' = << >> /\ ServerKeeps
      /\ UNCHANGED <<sessionTable, lastId, received>>
  BY DEF GetReturns
<1>2. step' = After[step]
  BY <1>1, CallReturned DEF GetReturns
<1>3. step # "closed" /\ ~ Adding
  BY <1>1 DEF Fetching, Adding
<1>4. Offloaded = Clients /\ OnTheWay = {}
  BY <1>1, <1>3, EqualTables
<1>5. step' \in DOMAIN After /\ sessionTable \in [DOMAIN sessionTable -> BOOLEAN]
  BY <1>2, AfterIsAStep DEF FwInv, FirewallTyped
<1>6. Offloaded' = Offloaded
  BY <1>1 DEF Offloaded
<1> QED
  BY <1>1, <1>4, <1>5, <1>6, AtRest

\* An add call that was answered: what was refused is no longer offloaded.
LEMMA AddAnswerPreserves ==
    ASSUME FwInv, AddReturns
    PROVE  FwInv'
<1>1. /\ Adding /\ call.op = "returned" /\ call' = idle /\ reply' = << >> /\ ServerKeeps
      /\ step' = After[step] /\ UNCHANGED <<lastId, received>>
      /\ sessionTable' = [id \in DOMAIN sessionTable |->
                            sessionTable[id] /\ \A e \in Range(reply) : e.id # id]
  BY DEF AddReturns, CallEnds
<1>2. reply \in Seq(Refusal) /\ OnTheWay = {}
  BY <1>1, CallReturned
<1>3. \A id : (\A e \in Range(reply) : e.id # id) <=> id \notin IdsOf(reply)
  BY DEF IdsOf, FieldOf
<1>4. /\ DOMAIN sessionTable' = DOMAIN sessionTable
      /\ \A id \in DOMAIN sessionTable :
            sessionTable'[id] <=> sessionTable[id] /\ id \notin IdsOf(reply)
  <2>1. ASSUME NEW id \in DOMAIN sessionTable
        PROVE  sessionTable'[id] <=> sessionTable[id] /\ id \notin IdsOf(reply)
    <3>1. sessionTable'[id] = (sessionTable[id] /\ \A e \in Range(reply) : e.id # id)
      BY <1>1
    <3> QED
      BY <1>3, <3>1, Zenon
  <2> QED
    BY <1>1, <2>1
<1>5. Offloaded' = Offloaded \ IdsOf(reply)
  BY <1>4 DEF Offloaded
<1>6. Offloaded = Clients \cup IdsOf(reply) /\ IdsOf(reply) \cap Clients = {}
  BY <1>1 DEF FwInv, IdsApart, TablesAgree
<1>7. sessionTable' \in [DOMAIN sessionTable -> BOOLEAN]
  <2>1. \A id \in DOMAIN sessionTable :
            (sessionTable[id] /\ \A e \in Range(reply) : e.id # id) \in BOOLEAN
    OBVIOUS
  <2> QED
    BY <1>1, <2>1, Zenon
<1>8. step' \in DOMAIN After
  BY <1>1, AfterIsAStep DEF FwInv, FirewallTyped
<1> QED
  BY <1>1, <1>2, <1>5, <1>6, <1>7, <1>8, AtRest

\* The calls that ask.
LEMMA CallPreserves ==
    ASSUME FwInv, CallClosed \/ CallGet \/ CallList
    PROVE  FwInv'
<1>1. /\ ServerKeeps /\ call = idle /\ reply = << >>
      /\ UNCHANGED <<step, reply, sessionTable, lastId, received>>
  BY DEF CallClosed, CallGet, CallList, Calls
<1>2. CASE CallClosed
  <2>1. step' = "closed" /\ reply' \in Seq(Report')
    BY <1>1, <1>2 DEF CallClosed
  <2>2. /\ call' = [op |-> "getClosedSessions", begun |-> FALSE, keys |-> << >>]
        /\ call'.op = "getClosedSessions" /\ call'.keys = << >>
    BY <1>2 DEF CallClosed, Calls
  <2>3. call' \in [op : {"getClosedSessions"}, begun : BOOLEAN, keys : Seq(Keys')]
    <3>1. << >> \in Seq(Keys')
      OBVIOUS
    <3> QED
      BY <2>2, <3>1
  <2>4. CallInStep'
    BY <2>1, <2>2, <2>3 DEF CallInStep
  <2> QED
    BY <1>1, <2>2, <2>4, AskPreserves
<1>3. CASE CallGet
  <2>1. PICK id \in Offloaded : call' = [op |-> "getSession", id |-> id]
    BY <1>3 DEF CallGet, Calls
  <2>2. Fetching' /\ Offloaded' = Offloaded
    BY <1>1, <1>3 DEF CallGet, Fetching, Offloaded
  <2>3. CallInStep' /\ call'.op = "getSession"
    BY <1>1, <2>1, <2>2 DEF CallInStep
  <2> QED
    BY <1>1, <2>3, AskPreserves
<1>4. CASE CallList
  <2>1. call' = [op |-> "getAllSessions"] /\ Listing'
    BY <1>1, <1>4 DEF CallList, Calls, Listing
  <2>2. CallInStep' /\ call'.op = "getAllSessions"
    BY <1>1, <2>1 DEF CallInStep
  <2> QED
    BY <1>1, <2>2, AskPreserves
<1> QED
  BY <1>2, <1>3, <1>4

\* A closed session that arrives leaves the firewall's table, and its stamp is received.
LEMMA ReceivePreserves ==
    ASSUME FwInv, ReceiveClosed
    PROVE  FwInv'
<1> USE DEF FwInv
<1> DEFINE message == Head(reply)
<1>1. /\ step = "closed" /\ reply # << >> /\ reply' = Tail(reply) /\ ServerKeeps
      /\ sessionTable' = Restrict(sessionTable, DOMAIN sessionTable \ {message.id})
      /\ received' = received \cup {message.stamp}
      /\ UNCHANGED <<call, step, lastId>>
  BY DEF ReceiveClosed
<1>2. UNCHANGED <<offloadSessionTable, lastSessionId, inserted, traffic>>
  BY <1>1 DEF ServerKeeps
<1>3. /\ DeviceTyped' /\ Keys' = Keys /\ Clients' = Clients /\ Stamps' = Stamps
      /\ ClientsDiffer' /\ Report' = Report
  BY <1>2, DictionaryUntouched
<1>4. call.op # "addSession" /\ ~ Adding /\ ~ Adding'
  BY <1>1, AddCall DEF Adding
<1>5. reply \in Seq(Report)
  BY <1>1, <1>4 DEF CallInStep, Fetching, Listing
<1>6. message \in Report /\ Tail(reply) \in Seq(Report)
  BY <1>1, <1>5
<1>7. /\ FieldOf(reply, "id") = {message["id"]} \cup FieldOf(Tail(reply), "id")
      /\ Differ(reply, "id") =>
            message["id"] \notin FieldOf(Tail(reply), "id") /\ Differ(Tail(reply), "id")
  BY <1>1, <1>5, FieldOfTail
<1>8. /\ FieldOf(reply, "stamp") = {message["stamp"]} \cup FieldOf(Tail(reply), "stamp")
      /\ Differ(reply, "stamp") =>
            message["stamp"] \notin FieldOf(Tail(reply), "stamp")
            /\ Differ(Tail(reply), "stamp")
  BY <1>1, <1>5, FieldOfTail
<1>9. /\ DOMAIN sessionTable' = DOMAIN sessionTable \ {message.id}
      /\ \A id \in DOMAIN sessionTable \ {message.id} : sessionTable'[id] = sessionTable[id]
  BY <1>1 DEF Restrict
<1>10. Offloaded' = Offloaded \ {message.id}
  BY <1>9 DEF Offloaded
<1>11. FirewallTyped'
  <2>1. sessionTable' \in [DOMAIN sessionTable' -> BOOLEAN]
    <3>1. \A id \in DOMAIN sessionTable \ {message.id} : sessionTable[id] \in BOOLEAN
      BY Zenon DEF FirewallTyped
    <3>2. sessionTable' = [id \in DOMAIN sessionTable \ {message.id} |-> sessionTable[id]]
      BY <1>1 DEF Restrict
    <3> QED
      BY <1>9, <3>1, <3>2, Zenon
  <2>2. DOMAIN sessionTable' \subseteq Nat /\ IsFiniteSet(DOMAIN sessionTable')
    BY <1>9, FS_Subset DEF FirewallTyped
  <2>3. received' \subseteq 1 .. inserted
    BY <1>1, <1>6 DEF FirewallTyped, Report
  <2> QED
    BY <1>1, <1>2, <2>1, <2>2, <2>3 DEF FirewallTyped
<1>12. CallInStep'
  <2>1. \/ call \in [op : {"getClosedSessions"}, begun : BOOLEAN, keys : Seq(Keys)]
           /\ \A i, j \in 1 .. Len(call.keys) : call.keys[i] = call.keys[j] => i = j
        \/ call = [op |-> "returned"]
    BY <1>1, <1>4 DEF CallInStep, Fetching, Listing
  <2> QED
    BY <1>1, <1>3, <1>6, <2>1 DEF CallInStep
<1> HIDE DEF message
<1>13. IdsApart'
  <2>1. /\ Offloaded = Clients \cup IdsOf(reply) /\ IdsOf(reply) \cap Clients = {}
        /\ Differ(reply, "id")
    BY <1>1, <1>4 DEF IdsApart, TablesAgree
  <2>2. IdsOf(reply) = {message.id} \cup IdsOf(reply') /\ message.id \notin IdsOf(reply')
        /\ Differ(reply', "id")
    BY <1>1, <1>7, <2>1 DEF IdsOf
  <2>3. TablesAgree'
    BY <1>1, <1>3, <1>4, <1>10, <2>1, <2>2 DEF TablesAgree
  <2> QED
    BY <1>1, <1>3, <1>4, <2>1, <2>2, <2>3 DEF IdsApart
<1>14. StampsApart'
  <2>1. /\ Stamps \cup OnTheWay \cup received = 1 .. inserted
        /\ received \cap (Stamps \cup OnTheWay) = {} /\ Stamps \cap OnTheWay = {}
        /\ Differ(reply, "stamp")
    BY <1>1 DEF StampsApart
  <2>2. OnTheWay = {message.stamp} \cup OnTheWay' /\ message.stamp \notin OnTheWay'
        /\ Differ(reply', "stamp")
    BY <1>1, <1>8, <2>1 DEF OnTheWay
  <2>3. Stamps' \cup OnTheWay' \cup received' = 1 .. inserted'
    BY <1>1, <1>2, <1>3, <2>1, <2>2
  <2>4. received' \cap (Stamps' \cup OnTheWay') = {} /\ Stamps' \cap OnTheWay' = {}
    BY <1>1, <1>3, <2>1, <2>2
  <2> QED
    BY <1>2, <1>3, <2>2, <2>3, <2>4 DEF StampsApart, Keys
<1> QED
  BY <1>3, <1>11, <1>12, <1>13, <1>14

\* The ids of a batch are new to the firewall's table, and no two are the same.
LEMMA BatchIsNew ==
    ASSUME FwInv, NEW ids \in BatchIds
    PROVE  /\ ids \in [1 .. Batch -> Nat]
           /\ \A i \in 1 .. Batch : ids[i] \notin DOMAIN sessionTable
           /\ \A i, j \in 1 .. Batch : ids[i] = ids[j] => i = j
<1> DEFINE most == lastId + Cardinality(DOMAIN sessionTable) + Batch
           before(i) == {ids[j] : j \in 1 .. i - 1}
           taken(i) == DOMAIN sessionTable \cup before(i)
<1>1. /\ DOMAIN sessionTable \subseteq Nat /\ IsFiniteSet(DOMAIN sessionTable)
      /\ lastId \in Nat
  BY DEF FwInv, FirewallTyped
<1>2. Batch \in Nat \ {0}
  BY FwAssumption DEF Batch
<1>3. most \in Nat
  BY <1>1, <1>2, FS_CardinalityType
<1>4. /\ ids \in [1 .. Batch -> startSessionId .. most]
      /\ \A i \in 1 .. Batch :
            ids[i] = NextId(taken(i), IF i = 1 THEN lastId ELSE ids[i - 1])
  BY DEF BatchIds
<1> HIDE DEF most
<1>5. startSessionId .. most \subseteq 0 .. most
  BY <1>3, FwAssumption
<1>6. ids \in [1 .. Batch -> 0 .. most] /\ 0 .. most \subseteq Nat
  BY <1>3, <1>4, <1>5
<1>7. ASSUME NEW i \in 1 .. Batch PROVE ids[i] \notin taken(i)
  <2>1. 1 .. i - 1 \subseteq 1 .. Batch
    BY <1>2
  <2>2. before(i) \subseteq 0 .. most
    BY <1>6, <2>1
  <2>3. before(i) \subseteq Nat /\ IsFiniteSet(before(i))
    <3> HIDE DEF before
    <3>1. \A x \in before(i) : x <= most /\ x \in Nat
      BY <1>3, <2>2
    <3> QED
      BY <1>3, <3>1, FS_BoundedSetOfNaturals
  <2>4. taken(i) \subseteq Nat /\ IsFiniteSet(taken(i))
    <3> HIDE DEF before
    <3> QED
      BY <1>1, <2>3, FS_Union
  <2>5. CASE i = 1
    <3>1. ids[i] = NextId(taken(i), lastId)
      BY <1>4, <2>5
    <3> HIDE DEF taken
    <3> QED
      BY <1>1, <2>4, <3>1, NextIdIsFree
  <2>6. CASE i # 1
    <3>1. ids[i] = NextId(taken(i), ids[i - 1])
      BY <1>4, <2>6
    <3>2. i - 1 \in 1 .. Batch
      BY <1>2, <2>6
    <3>3. ids[i - 1] \in Nat
      BY <1>6, <3>2
    <3> HIDE DEF taken
    <3> QED
      BY <2>4, <3>1, <3>3, NextIdIsFree
  <2> QED
    BY <2>5, <2>6
<1>8. \A i \in 1 .. Batch : ids[i] \notin DOMAIN sessionTable
  BY <1>7
<1>9. \A i, j \in 1 .. Batch : j < i => ids[i] # ids[j]
  <2> TAKE i, j \in 1 .. Batch
  <2>1. j < i => j \in 1 .. i - 1
    BY <1>2
  <2>2. ids[i] \notin before(i)
    BY <1>7
  <2> QED
    BY <2>1, <2>2
<1>10. \A i, j \in 1 .. Batch : i < j \/ j < i \/ i = j
  BY <1>2
<1> QED
  BY <1>6, <1>8, <1>9, <1>10

\* The start of an add call: the ids of the batch are offloaded and in its requests.
LEMMA CallAddPreserves ==
    ASSUME FwInv, CallAdd
    PROVE  FwInv'
<1> USE DEF FwInv
<1>1. PICK ids \in BatchIds, tuples \in [1 .. Batch -> TuplesNow] :
          /\ Calls([op |-> "addSession", errors |-> << >>,
                    requests |-> [i \in 1 .. Batch |->
                                     [id |-> ids[i], tuple |-> tuples[i]]]])
          /\ sessionTable' = [id \in DOMAIN sessionTable \cup Range(ids) |->
                                 IF id \in Range(ids) THEN TRUE ELSE sessionTable[id]]
          /\ lastId' = ids[Batch]
  BY DEF CallAdd
<1> DEFINE requests == [i \in 1 .. Batch |-> [id |-> ids[i], tuple |-> tuples[i]]]
<1>2. /\ call = idle /\ reply = << >> /\ Adding /\ call.op = "idle"
      /\ call' = [op |-> "addSession", errors |-> << >>, requests |-> requests]
      /\ UNCHANGED <<offloadSessionTable, lastSessionId, inserted, traffic>>
      /\ UNCHANGED <<step, reply, received>>
  BY <1>1 DEF CallAdd, Calls, ServerKeeps, idle
<1>3. Adding' /\ step # "closed" /\ OnTheWay = {} /\ OnTheWay' = {}
  BY <1>2 DEF Adding, OnTheWay
<1>4. /\ DeviceTyped' /\ Keys' = Keys /\ Clients' = Clients /\ Stamps' = Stamps
      /\ ClientsDiffer'
  BY <1>2, DictionaryUntouched
<1>5. /\ ids \in [1 .. Batch -> Nat]
      /\ \A i \in 1 .. Batch : ids[i] \notin DOMAIN sessionTable
      /\ \A i, j \in 1 .. Batch : ids[i] = ids[j] => i = j
  BY BatchIsNew
<1>6. Batch \in Nat \ {0} /\ Batch \in 1 .. Batch
  BY FwAssumption DEF Batch
<1>7. Range(ids) \subseteq Nat /\ Range(ids) \cap DOMAIN sessionTable = {}
      /\ IsFiniteSet(Range(ids))
  <2>1. Range(ids) \subseteq Nat /\ Range(ids) \cap DOMAIN sessionTable = {}
    BY <1>5 DEF Range
  <2>2. ids \in Surjection(1 .. Batch, Range(ids))
    BY <1>5 DEF Surjection, Range
  <2>3. IsFiniteSet(1 .. Batch)
    BY <1>6, FS_Interval
  <2> QED
    BY <2>1, <2>2, <2>3, FS_Surjection
<1>8. requests \in Seq(Request) /\ Len(requests) = Batch
      /\ \A i \in 1 .. Batch : requests[i].id = ids[i]
  <2>1. \A i \in 1 .. Batch : [id |-> ids[i], tuple |-> tuples[i]] \in Request
    BY <1>1, <1>5 DEF Request, Tuple, TuplesNow
  <2> QED
    BY <1>6, <2>1
<1>9. IdsOf(requests) = Range(ids) /\ Differ(requests, "id")
  <2>1. DOMAIN ids = 1 .. Batch
    BY <1>5
  <2>2. \A i \in 1 .. Batch : requests[i]["id"] = ids[i]
    OBVIOUS
  <2> HIDE DEF requests
  <2>3. \A x : x \in FieldOf(requests, "id") <=>
                   \E i \in 1 .. Len(requests) : x = requests[i]["id"]
    BY <1>8, FieldByIndex
  <2>4. \A x : x \in FieldOf(requests, "id") <=> \E i \in 1 .. Batch : x = ids[i]
    BY <1>8, <2>2, <2>3
  <2>5. FieldOf(requests, "id") = Range(ids)
    BY <2>1, <2>4 DEF Range
  <2>6. Differ(requests, "id")
    BY <1>5, <1>8, <2>2 DEF Differ
  <2> QED
    BY <2>5, <2>6 DEF IdsOf
<1>10. call' \in [op : {"addSession"}, requests : Seq(Request), errors : Seq(Refusal)]
       /\ call'.op = "addSession" /\ call'.requests = requests /\ call'.errors = << >>
  <2>1. << >> \in Seq(Refusal)
    OBVIOUS
  <2> HIDE DEF requests
  <2> QED
    BY <1>2, <1>8, <2>1
<1> HIDE DEF requests
<1>11. /\ DOMAIN sessionTable' = DOMAIN sessionTable \cup Range(ids)
       /\ \A id \in Range(ids) : sessionTable'[id]
       /\ \A id \in DOMAIN sessionTable : sessionTable'[id] = sessionTable[id]
  <2>1. \A id \in Range(ids) : sessionTable'[id] = TRUE
    BY <1>1
  <2>2. \A id \in DOMAIN sessionTable : sessionTable'[id] = sessionTable[id]
    BY <1>1, <1>7
  <2> QED
    BY <1>1, <2>1, <2>2
<1>12. Offloaded' = Offloaded \cup Range(ids)
  BY <1>11 DEF Offloaded
<1>13. FirewallTyped'
  <2>1. sessionTable' \in [DOMAIN sessionTable' -> BOOLEAN]
    <3>1. \A id \in DOMAIN sessionTable : sessionTable[id] \in BOOLEAN
      BY Zenon DEF FirewallTyped
    <3>2. \A id \in DOMAIN sessionTable \cup Range(ids) :
              (IF id \in Range(ids) THEN TRUE ELSE sessionTable[id]) \in BOOLEAN
      BY <3>1, Zenon
    <3> QED
      BY <1>1, <1>11, <3>2, Zenon
  <2>2. DOMAIN sessionTable' \subseteq Nat /\ IsFiniteSet(DOMAIN sessionTable')
    <3>1. DOMAIN sessionTable \subseteq Nat /\ IsFiniteSet(DOMAIN sessionTable)
      BY DEF FirewallTyped
    <3>2. IsFiniteSet(DOMAIN sessionTable \cup Range(ids))
      BY <1>7, <3>1, FS_Union
    <3> QED
      BY <1>7, <1>11, <3>1, <3>2
  <2>3. lastId' \in Nat
    BY <1>1, <1>5, <1>6
  <2> QED
    BY <1>2, <2>1, <2>2, <2>3 DEF FirewallTyped
<1>14. CallInStep'
  BY <1>2, <1>3, <1>10 DEF CallInStep
<1>15. IdsApart'
  <2>1. IdsOf(<< >>) = {}
    BY NoField DEF IdsOf
  <2>2. Offloaded = Clients
    BY <1>2, <1>3, EqualTables
  <2>3. Range(ids) \cap Clients = {}
    BY <1>7, <2>2 DEF Offloaded
  <2>4. TablesAgree'
    BY <1>2, <1>3, <1>4, <1>9, <1>10, <1>12, <2>1, <2>2 DEF TablesAgree
  <2> QED
    BY <1>2, <1>3, <1>4, <1>9, <1>10, <2>1, <2>3, <2>4 DEF IdsApart
<1>16. StampsApart'
  BY <1>2, <1>3, <1>4 DEF StampsApart, Keys
<1> QED
  BY <1>4, <1>13, <1>14, <1>15, <1>16

\* Every step of the firewall preserves the invariant.
LEMMA ClientPreserves ==
    ASSUME FwInv, Client
    PROVE  FwInv'
BY CallAddPreserves, StepOnPreserves, AddAnswerPreserves, CallPreserves, ReceivePreserves,
   GetReturnPreserves DEF Client

\* So does a step that changes nothing.
LEMMA Stutters ==
    ASSUME FwInv, UNCHANGED vars
    PROVE  FwInv'
<1>1. UNCHANGED <<offloadSessionTable, lastSessionId, inserted, call, reply, traffic,
                  sessionTable, lastId, step, received>>
  BY DEF vars, server, client
<1>2. /\ DeviceTyped' /\ Keys' = Keys /\ Clients' = Clients /\ Stamps' = Stamps
      /\ ClientsDiffer' /\ Report' = Report
  BY <1>1, DictionaryUntouched
<1>3. /\ Offloaded' = Offloaded /\ OnTheWay' = OnTheWay
      /\ Adding' = Adding /\ Fetching' = Fetching /\ Listing' = Listing
  BY <1>1 DEF Offloaded, OnTheWay, Adding, Fetching, Listing
<1>4. FirewallTyped' /\ CallInStep'
  BY <1>1, <1>2, <1>3 DEF FwInv, FirewallTyped, CallInStep
<1>5. IdsApart' /\ StampsApart'
  BY <1>1, <1>2, <1>3 DEF FwInv, IdsApart, TablesAgree, StampsApart, Keys
<1> QED
  BY <1>2, <1>4, <1>5 DEF FwInv

-----------------------------------------------------------------------------
(* The theorems. *)

\* The invariant is inductive.
THEOREM FwInvariance == Spec => []FwInv
<1>1. FwInv /\ [Next]_vars => FwInv'
  <2> SUFFICES ASSUME FwInv, [Next]_vars PROVE FwInv'
    OBVIOUS
  <2> QED
    BY ClientPreserves, HandlerPreserves, TrafficPreserves, Stutters DEF Next
<1> QED
  BY <1>1, InitEstablishes, PTL DEF Spec

\* The variables have their types; the device gives out only the keys 1 to
\* maxSessionId - 1.
THEOREM NosTypeCorrect == Spec => []NosTypeOK
<1>1. FwInv => NosTypeOK
  <2> SUFFICES ASSUME FwInv PROVE NosTypeOK
    OBVIOUS
  <2>1. call.op \in {"idle", "addSession", "getSession", "getAllSessions",
                     "getClosedSessions", "returned"}
    BY DEF FwInv, CallInStep, idle
  <2> QED
    BY <2>1 DEF FwInv, DeviceTyped, FirewallTyped, NosTypeOK, Session, Tuple
<1> QED
  BY <1>1, FwInvariance, PTL

\* The two tables agree at every moment, however the traffic's thread interleaves.
THEOREM TablesAlwaysAgree == Spec => []TablesAgree
<1>1. FwInv => TablesAgree
  BY DEF FwInv, IdsApart
<1> QED
  BY <1>1, FwInvariance, PTL

\* Every session the device ever took is in one place.
THEOREM EverySessionInOnePlace == Spec => []OneSessionOnePlace
<1>1. FwInv => OneSessionOnePlace
  <2> SUFFICES ASSUME FwInv PROVE OneSessionOnePlace
    OBVIOUS
  <2> USE DEF FwInv
  <2>1. Cardinality(Stamps) = Cardinality(Keys)
    <3> DEFINE stamp == [k \in Keys |-> offloadSessionTable[k].stamp]
    <3>1. stamp \in Bijection(Keys, Stamps)
      BY DEF StampsApart, Stamps, Bijection, Injection, Surjection, IsInjective
    <3>2. ExistsBijection(Keys, Stamps)
      BY <3>1 DEF ExistsBijection
    <3> QED
      BY <3>2, KeysAreFinite, FS_Bijection
  <2>2. ASSUME step = "closed"
        PROVE  IsInjective([i \in DOMAIN reply |-> reply[i].stamp])
    <3>1. reply \in Seq(Report)
      <4>1. << >> \in Seq(Report) /\ ~ Adding /\ ~ Fetching /\ ~ Listing
        BY <2>2 DEF Adding, Fetching, Listing
      <4> QED
        BY <4>1 DEF CallInStep
    <3>2. \A i, j \in DOMAIN reply : reply[i].stamp = reply[j].stamp => i = j
      BY <2>2, <3>1 DEF StampsApart, Differ
    <3> QED
      BY <3>2 DEF IsInjective
  <2> QED
    BY <2>1, <2>2 DEF IdsApart, StampsApart, ClientsDiffer, OneSessionOnePlace
<1> QED
  BY <1>1, FwInvariance, PTL

\* No fetch of an offloaded session fails, so run() never ends that way.
THEOREM EveryFetchFinds == Spec => []FetchFinds
<1>1. FwInv => FetchFinds
  BY DEF FwInv, FirewallTyped, After, FetchFinds
<1> QED
  BY <1>1, FwInvariance, PTL

\* A request is refused only for a tuple that is taken or a dictionary that is full.
THEOREM RefusalsHaveReasons == Spec => RefusedForAReason
<1> DEFINE Reason ==
        call.op = "addSession" /\ call'.op = "addSession" /\ call'.errors # call.errors =>
          \A e \in Range(call'.errors) \ Range(call.errors) :
             \/ e.error = "_SESSION_ALREADY_EXISTS"
                /\ findSessionByTuple(Head(call.requests).tuple) # {}
             \/ e.error = "_SESSION_TABLE_FULL" /\ Cardinality(Keys) = maxSessionId - 1
<1>1. FwInv /\ [Next]_vars => [Reason]_vars
  <2> SUFFICES ASSUME FwInv, Next, call.op = "addSession", call'.op = "addSession",
                      call'.errors # call.errors,
                      NEW e \in Range(call'.errors) \ Range(call.errors)
               PROVE  \/ e.error = "_SESSION_ALREADY_EXISTS"
                         /\ findSessionByTuple(Head(call.requests).tuple) # {}
                      \/ e.error = "_SESSION_TABLE_FULL"
                         /\ Cardinality(Keys) = maxSessionId - 1
    OBVIOUS
  <2> DEFINE request == Head(call.requests)
  <2>1. addSession
    <3>1. ~ Client
      <4>1. call # idle /\ call' # idle /\ reply = << >>
        BY AddCall DEF idle
      <4>2. ~ (CallAdd \/ CallClosed \/ CallGet \/ CallList \/ SkipAdd \/ SkipGet)
        BY <4>1 DEF CallAdd, CallClosed, CallGet, CallList, SkipAdd, SkipGet, Calls
      <4>3. ~ (AddReturns \/ ClosedReturns \/ GetReturns \/ ListReturns \/ ReceiveClosed)
        BY <4>1 DEF AddReturns, ClosedReturns, GetReturns, ListReturns, ReceiveClosed, CallEnds
      <4> QED
        BY <4>2, <4>3 DEF Client
    <3>2. ~ Traffic
      BY DEF Traffic, TrafficBegins, TrafficDies, TrafficEnds, TrafficNext, TrafficSetsCode,
             TrafficOnly
    <3>3. Handler
      BY <3>1, <3>2 DEF Next
    <3> QED
      BY <3>3 DEF Handler, addSessionReturns, getSession, getAllSessions,
                  getClosedSessionsBegins, getClosedSessions, getClosedSessionsReturns, Return
  <2>2. /\ request \in Request /\ call'.errors = call.errors \o Errors(request)
    BY <2>1, AddTakesOne
  <2>3. /\ Errors(request) \in Seq(Refusal)
        /\ \A i \in 1 .. Len(Errors(request)) :
                \/ /\ Errors(request)[i].error = "_SESSION_ALREADY_EXISTS"
                   /\ findSessionByTuple(request.tuple) # {}
                \/ /\ Errors(request)[i].error = "_SESSION_TABLE_FULL"
                   /\ nextSessionId.id = 0
    BY <2>2, ErrorsOfRequest DEF FwInv
  <2>4. nextSessionId.id = 0 => Cardinality(Keys) = maxSessionId - 1
    BY NextKey, KeysAreFinite DEF FwInv
  <2>5. call.errors \in Seq(Refusal)
    BY AddCall
  <2>6. PICK i \in 1 .. Len(Errors(request)) : e = Errors(request)[i]
    <3> DEFINE s == call.errors
               t == Errors(request)
    <3>1. s \in Seq(Refusal) /\ t \in Seq(Refusal) /\ e \in Range(s \o t) /\ e \notin Range(s)
      BY <2>2, <2>3, <2>5
    <3> HIDE DEF s, t
    <3>2. PICK i \in 1 .. Len(s) + Len(t) : e = (s \o t)[i]
      BY <3>1 DEF Range
    <3>3. i \notin 1 .. Len(s)
      BY <3>1, <3>2 DEF Range
    <3>4. i - Len(s) \in 1 .. Len(t) /\ e = t[i - Len(s)]
      BY <3>1, <3>2, <3>3
    <3> QED
      BY <3>4 DEF t
  <2> QED
    BY <2>3, <2>4, <2>6
<1> QED
  BY <1>1, FwInvariance, PTL DEF Spec, RefusedForAReason
=============================================================================
