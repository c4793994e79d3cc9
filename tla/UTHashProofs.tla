------------------------------ MODULE UTHashProofs ------------------------------
(***************************************************************************)
(* The macros of uthash.h keep their two doubly linked lists in order:     *)
(* types, HASH_FSCK, what HASH_FIND finds, the bound on the chains, and    *)
(* that they implement KeyedList, for any number of records, any hash      *)
(* values, any first array and any threshold.                              *)
(***************************************************************************)
EXTENDS UTHash, FiniteSetTheorems, SequenceTheorems, WellFoundedInduction, TLAPS

-----------------------------------------------------------------------------
(* Natural numbers. *)

\* A set of numbers that is not empty has a least element: among the intervals
\* from 0 up to one of them there is a smallest.
LEMMA LeastNumber ==
    ASSUME NEW S, S \subseteq Nat, S # {}
    PROVE  \E x \in S : \A y \in S : x <= y
<1> DEFINE Below == {T \in SUBSET Nat : \E x \in S : T = 0 .. x}
<1>1. Below \subseteq FiniteSubsetsOf(Nat) /\ Below # {}
  <2>1. \A x \in S : 0 .. x \in SUBSET Nat /\ IsFiniteSet(0 .. x)
    BY FS_Interval
  <2> QED
    BY <2>1 DEF FiniteSubsetsOf
<1>2. PICK T \in Below : \A U \in Below : ~ (<<U, T>> \in StrictSubsetOrdering(Nat))
  <2> HIDE DEF Below
  <2>1. IsWellFoundedOn(StrictSubsetOrdering(Nat), FiniteSubsetsOf(Nat))
    BY FS_StrictSubsetOrderingWellFounded
  <2> QED
    BY <1>1, <2>1, WFMin
<1>3. PICK x \in S : T = 0 .. x
  BY <1>2
<1>4. ASSUME NEW y \in S, y < x PROVE FALSE
  <2>1. 0 .. y \in Below /\ 0 .. y \in SUBSET Nat /\ T \in SUBSET Nat
    BY <1>2, <1>3
  <2>2. 0 .. y \subseteq T /\ x \in T /\ x \notin 0 .. y
    BY <1>3, <1>4
  <2>3. <<0 .. y, T>> \in StrictSubsetOrdering(Nat)
    <3> HIDE DEF Below
    <3>1. DEFINE p == <<0 .. y, T>>
    <3>2. p \in (SUBSET Nat) \X (SUBSET Nat) /\ p[1] = 0 .. y /\ p[2] = T
      BY <2>1
    <3>3. 0 .. y # T
      BY <2>2
    <3> HIDE DEF p
    <3>4. p \in StrictSubsetOrdering(Nat)
      BY <3>2, <3>3, <2>2 DEF StrictSubsetOrdering
    <3> QED
      BY <3>4 DEF p
  <2> QED
    BY <2>1, <2>3, <1>2
<1> QED
  BY <1>4

\* Induction over a set of numbers.
LEMMA NatSetInduction ==
    ASSUME NEW T, T \subseteq Nat, 0 \in T, \A n \in T : n + 1 \in T
    PROVE  T = Nat
<1>1. SUFFICES ASSUME Nat \ T # {} PROVE FALSE
  OBVIOUS
<1>2. PICK x \in Nat \ T : \A y \in Nat \ T : x <= y
  BY <1>1, LeastNumber
<1>3. x - 1 \in T
  BY <1>2
<1> QED
  BY <1>2, <1>3

\* There are 2 ^ n sets of numbers from 1 to n.
LEMMA TwoToCounts ==
    ASSUME NEW n \in Nat
    PROVE  IsFiniteSet(SUBSET (1 .. n)) /\ Cardinality(SUBSET (1 .. n)) = 2 ^ n
<1>1. IsFiniteSet(1 .. n) /\ Cardinality(1 .. n) = n
  BY FS_Interval
<1> QED
  BY <1>1, FS_SUBSET

\* Powers of two: a set of numbers from 1 to n + 1 is one of the numbers from 1 to
\* n, or one of these with n + 1 added.
LEMMA TwoTo ==
    ASSUME NEW n \in Nat
    PROVE  2 ^ n \in Nat \ {0} /\ 2 ^ (n + 1) = 2 * 2 ^ n
<1> DEFINE A == SUBSET (1 .. n)
           B == {T \cup {n + 1} : T \in A}
           f == [T \in A |-> T \cup {n + 1}]
<1>1. IsFiniteSet(A) /\ Cardinality(A) = 2 ^ n /\ Cardinality(A) \in Nat
  BY TwoToCounts, FS_CardinalityType
<1>2. \A T \in A : n + 1 \notin T
  OBVIOUS
<1>3. f \in Bijection(A, B)
  <2>1. f \in [A -> B] /\ \A U \in B : \E T \in A : f[T] = U
    OBVIOUS
  <2>2. \A T, U \in A : f[T] = f[U] => T = U
    BY <1>2
  <2> QED
    BY <2>1, <2>2 DEF Bijection, Injection, Surjection, IsInjective
<1>4. IsFiniteSet(B) /\ Cardinality(B) = Cardinality(A)
  <2> HIDE DEF A, B, f
  <2> QED
    BY <1>1, <1>3, FS_Bijection DEF ExistsBijection
<1>5. A \cap B = {}
  BY <1>2
<1>6. SUBSET (1 .. n + 1) = A \cup B
  <2>1. ASSUME NEW T \in SUBSET (1 .. n + 1) PROVE T \in A \cup B
    <3>1. CASE n + 1 \in T
      <4>1. T = (T \ {n + 1}) \cup {n + 1} /\ T \ {n + 1} \in A
        BY <3>1
      <4> QED
        BY <4>1
    <3>2. CASE n + 1 \notin T
      BY <3>2
    <3> QED
      BY <3>1, <3>2
  <2>2. \A T \in A : T \in SUBSET (1 .. n + 1) /\ T \cup {n + 1} \in SUBSET (1 .. n + 1)
    OBVIOUS
  <2>3. ASSUME NEW T \in A \cup B PROVE T \in SUBSET (1 .. n + 1)
    <3>1. CASE T \in A
      BY <2>2, <3>1
    <3>2. CASE T \in B
      BY <2>2, <3>2
    <3> QED
      BY <3>1, <3>2
  <2> HIDE DEF A, B
  <2> QED
    BY <2>1, <2>3
<1>7. Cardinality(SUBSET (1 .. n + 1)) = 2 ^ (n + 1)
  BY TwoToCounts
<1>8. Cardinality(A \cup B) = 2 ^ n + 2 ^ n - 0
  <2> HIDE DEF A, B
  <2>1. Cardinality(A \cup B) = Cardinality(A) + Cardinality(B) - Cardinality(A \cap B)
    BY <1>1, <1>4, FS_Union
  <2>2. Cardinality(A \cap B) = 0
    BY <1>5, FS_EmptySet
  <2> QED
    BY <1>1, <1>4, <2>1, <2>2
<1>9. 2 ^ n # 0
  <2>1. A # {}
    OBVIOUS
  <2> HIDE DEF A
  <2> QED
    BY <1>1, <2>1, FS_EmptySet
<1> HIDE DEF A, B
<1>10. 2 ^ (n + 1) = 2 ^ n + 2 ^ n - 0
  BY <1>6, <1>7, <1>8
<1> QED
  BY <1>1, <1>9, <1>10

-----------------------------------------------------------------------------
(* Doubly linked lists. *)

NoRepeats(s) == \A i, j \in 1 .. Len(s) : s[i] = s[j] => i = j

\* Following next from first on gives the records of s, in that order.
OneWay(s, first, next) ==
    /\ s \in Seq(Keys) /\ NoRepeats(s)
    /\ first = IF s = <<>> THEN NULL ELSE s[1]
    /\ \A i \in 1 .. Len(s) : next[s[i]] = IF i = Len(s) THEN NULL ELSE s[i + 1]

\* Every record points back at the one before it.
WayBack(s, prev) ==
    \A i \in 1 .. Len(s) : prev[s[i]] = IF i = 1 THEN NULL ELSE s[i - 1]

TwoWay(s, first, next, prev) == OneWay(s, first, next) /\ WayBack(s, prev)

\* Keys are not NULL.
LEMMA KeysAreNumbers == /\ MaxAdds \in Nat /\ NULL \notin Keys /\ NULL = 0
                        /\ Keys = 1 .. MaxAdds /\ Link = 0 .. MaxAdds
BY MaxAddsAssumption DEF Keys, NULL, Link

\* A list without repetition is no longer than there are keys.
LEMMA ListIsShort ==
    ASSUME NEW s \in Seq(Keys), NoRepeats(s)
    PROVE  Len(s) <= MaxAdds
<1>1. \A n \in Nat : IsFiniteSet(1 .. n) /\ Cardinality(1 .. n) = n
  BY FS_Interval
<1>2. /\ IsFiniteSet(1 .. Len(s)) /\ Cardinality(1 .. Len(s)) = Len(s)
      /\ IsFiniteSet(Keys) /\ Cardinality(Keys) = MaxAdds
  BY <1>1, KeysAreNumbers
<1>3. s \in Injection(1 .. Len(s), Keys)
  BY DEF Injection, IsInjective, NoRepeats
<1> QED
  BY <1>2, <1>3, FS_Injection

\* The body of the recursion of Follow: the links met from q on, n at most.
Met(from, n, successor) ==
    [q \in Link |-> IF q = NULL \/ n = 0 THEN <<>>
                    ELSE <<q>> \o from[n - 1][successor[q]]]

\* The recursion of Follow has a solution.
LEMMA FollowExists ==
    ASSUME NEW successor, NEW m \in Nat
    PROVE  \E from : from = [n \in 0 .. m |-> Met(from, n, successor)]
<1> DEFINE Solves(from, k) == from = [n \in 0 .. k |-> Met(from, n, successor)]
           T == {k \in Nat : \E from : Solves(from, k)}
<1>1. 0 \in T
  <2> DEFINE from == [n \in 0 .. 0 |-> [q \in Link |-> <<>>]]
  <2>1. \A n \in 0 .. 0 : Met(from, n, successor) = [q \in Link |-> <<>>]
    BY DEF Met
  <2>2. from = [n \in 0 .. 0 |-> Met(from, n, successor)]
    BY <2>1
  <2> QED
    BY <2>2
<1>2. ASSUME NEW k \in T PROVE k + 1 \in T
  <2>1. PICK f : Solves(f, k)
    OBVIOUS
  <2> DEFINE g == [n \in 0 .. k + 1 |-> IF n <= k THEN f[n] ELSE Met(f, n, successor)]
  <2>2. \A n \in 0 .. k : g[n] = f[n] /\ f[n] = Met(f, n, successor)
    BY <2>1
  <2>3. \A n \in 0 .. k + 1 : Met(g, n, successor) = Met(f, n, successor)
    <3> SUFFICES ASSUME NEW n \in 0 .. k + 1
                 PROVE  Met(g, n, successor) = Met(f, n, successor)
      OBVIOUS
    <3>1. CASE n = 0
      BY <3>1 DEF Met
    <3>2. CASE n # 0
      <4>1. n - 1 \in 0 .. k
        BY <3>2
      <4>2. g[n - 1] = f[n - 1]
        BY <2>2, <4>1
      <4> HIDE DEF g
      <4> QED
        BY <4>2 DEF Met
    <3> QED
      BY <3>1, <3>2
  <2>4. \A n \in 0 .. k + 1 : g[n] = Met(g, n, successor)
    <3> SUFFICES ASSUME NEW n \in 0 .. k + 1 PROVE g[n] = Met(f, n, successor)
      BY <2>3
    <3>1. CASE n <= k
      <4>1. n \in 0 .. k
        BY <3>1
      <4> HIDE DEF g
      <4> QED
        BY <2>2, <4>1
    <3>2. CASE ~(n <= k)
      BY <3>2
    <3> QED
      BY <3>1, <3>2
  <2>5. Solves(g, k + 1)
    <3>1. g = [n \in 0 .. k + 1 |-> g[n]]
      OBVIOUS
    <3> HIDE DEF g
    <3>2. [n \in 0 .. k + 1 |-> g[n]] = [n \in 0 .. k + 1 |-> Met(g, n, successor)]
      BY <2>4
    <3> QED
      BY <3>1, <3>2
  <2> HIDE DEF g, Solves
  <2> QED
    BY <2>5
<1>3. T = Nat
  <2> HIDE DEF T
  <2> SUFFICES T \subseteq Nat
    BY <1>1, <1>2, NatSetInduction
  <2> QED
    BY DEF T
<1> QED
  BY <1>3

\* What Follow computes.
LEMMA FollowEquation ==
    ASSUME NEW successor
    PROVE  \E from : /\ from = [n \in 0 .. MaxAdds + 1 |-> Met(from, n, successor)]
                     /\ \A p : Follow(p, successor) = from[MaxAdds + 1][p]
<1> DEFINE from == CHOOSE from : from = [n \in 0 .. MaxAdds + 1 |-> Met(from, n, successor)]
<1>1. from = [n \in 0 .. MaxAdds + 1 |-> Met(from, n, successor)]
  <2>1. MaxAdds + 1 \in Nat
    BY KeysAreNumbers
  <2> QED
    BY <2>1, FollowExists
<1>2. ASSUME NEW p PROVE Follow(p, successor) = from[MaxAdds + 1][p]
  BY DEF Follow, Met
<1> HIDE DEF from
<1> QED
  BY <1>1, <1>2

\* The links from the i-th record of a list on are the rest of the list, also from
\* behind its last record, where they are NULL.
LEMMA FollowsRest ==
    ASSUME NEW s, NEW first, NEW next, OneWay(s, first, next), NEW i \in 1 .. Len(s) + 1
    PROVE  Follow(IF i <= Len(s) THEN s[i] ELSE NULL, next) = SubSeq(s, i, Len(s))
<1>1. PICK from : /\ from = [n \in 0 .. MaxAdds + 1 |-> Met(from, n, next)]
                  /\ \A p : Follow(p, next) = from[MaxAdds + 1][p]
  BY FollowEquation
<1>2. s \in Seq(Keys) /\ Len(s) \in Nat /\ Len(s) <= MaxAdds
  BY ListIsShort DEF OneWay
<1> DEFINE At(j) == IF j <= Len(s) THEN s[j] ELSE NULL
           Gives(n, j) == from[n][At(j)] = SubSeq(s, j, Len(s))
           T == {n \in Nat : n <= MaxAdds + 1 =>
                    \A j \in 1 .. Len(s) + 1 : Len(s) + 1 - j <= n => Gives(n, j)}
<1>3. \A n \in 0 .. MaxAdds + 1 : from[n] = Met(from, n, next)
  BY <1>1
<1>4. \A j \in 1 .. Len(s) + 1 : At(j) \in Link /\ (At(j) = NULL) = (j = Len(s) + 1)
  BY <1>2, KeysAreNumbers
<1>5. SubSeq(s, Len(s) + 1, Len(s)) = <<>>
  BY <1>2
<1>6. ASSUME NEW n \in 0 .. MaxAdds + 1 PROVE from[n][NULL] = <<>>
  <2>1. from[n] = Met(from, n, next) /\ NULL \in Link
    BY <1>3, KeysAreNumbers
  <2> QED
    BY <2>1 DEF Met
<1>7. 0 \in T
  <2>1. ASSUME NEW j \in 1 .. Len(s) + 1, Len(s) + 1 - j <= 0
        PROVE  Gives(0, j)
    <3>1. j = Len(s) + 1 /\ 0 \in 0 .. MaxAdds + 1
      BY <1>2, <2>1, KeysAreNumbers
    <3>2. At(j) = NULL
      BY <1>4, <3>1
    <3> HIDE DEF At
    <3> QED
      BY <1>5, <1>6, <3>1, <3>2
  <2> HIDE DEF Gives
  <2> QED
    BY <2>1
<1>8. ASSUME NEW n \in T PROVE n + 1 \in T
  <2> HIDE DEF Gives
  <2> SUFFICES ASSUME n + 1 <= MaxAdds + 1,
                      NEW j \in 1 .. Len(s) + 1, Len(s) + 1 - j <= n + 1
               PROVE  Gives(n + 1, j)
    OBVIOUS
  <2>0. n \in Nat /\ n + 1 \in 0 .. MaxAdds + 1 /\ n \in 0 .. MaxAdds + 1
    BY KeysAreNumbers
  <2>1. CASE j = Len(s) + 1
    <3>1. At(j) = NULL
      BY <1>4, <2>1
    <3> HIDE DEF At
    <3> QED
      BY <1>5, <1>6, <2>0, <2>1, <3>1 DEF Gives
  <2>2. CASE j # Len(s) + 1
    <3>1. j \in 1 .. Len(s) /\ j + 1 \in 1 .. Len(s) + 1 /\ Len(s) + 1 - (j + 1) <= n
      BY <1>2, <2>2, <2>0
    <3>2. At(j) = s[j] /\ At(j) # NULL /\ At(j) \in Link
      BY <1>4, <2>2, <3>1
    <3>3. next[s[j]] = At(j + 1)
      BY <1>2, <3>1 DEF OneWay
    <3>4. from[n + 1][At(j)] = <<At(j)>> \o from[n][next[At(j)]]
      <4>1. from[n + 1][At(j)] = <<At(j)>> \o from[n + 1 - 1][next[At(j)]]
        <5>1. from[n + 1] = Met(from, n + 1, next) /\ n + 1 # 0
          BY <1>3, <2>0
        <5> HIDE DEF At
        <5> QED
          BY <5>1, <3>2 DEF Met
      <4>2. n + 1 - 1 = n
        BY <2>0
      <4> QED
        BY <4>1, <4>2
    <3>5. from[n][At(j + 1)] = SubSeq(s, j + 1, Len(s))
      <4> HIDE DEF At
      <4>1. Gives(n, j + 1)
        BY <2>0, <3>1
      <4> QED
        BY <4>1 DEF Gives
    <3>6. SubSeq(s, j, Len(s)) = <<s[j]>> \o SubSeq(s, j + 1, Len(s))
      <4>1. Len(s) \in j .. Len(s)
        BY <1>2, <3>1
      <4> QED
        BY <1>2, <3>1, <4>1, SubSeqRecursiveFirst
    <3> HIDE DEF At
    <3> QED
      BY <3>2, <3>3, <3>4, <3>5, <3>6 DEF Gives
  <2> QED
    BY <2>1, <2>2
<1>9. T = Nat
  <2> HIDE DEF T
  <2> SUFFICES T \subseteq Nat
    BY <1>7, <1>8, NatSetInduction
  <2> QED
    BY DEF T
<1>10. from[MaxAdds + 1][At(i)] = SubSeq(s, i, Len(s))
  <2>1. MaxAdds + 1 \in T /\ Len(s) + 1 - i <= MaxAdds + 1 /\ MaxAdds + 1 <= MaxAdds + 1
    <3> HIDE DEF T
    <3> QED
      BY <1>2, <1>9, KeysAreNumbers
  <2>2. Gives(MaxAdds + 1, i)
    <3> HIDE DEF Gives
    <3> QED
      BY <2>1
  <2> QED
    BY <2>2
<1>11. Follow(At(i), next) = from[MaxAdds + 1][At(i)]
  <2> HIDE DEF At
  <2> QED
    BY <1>1
<1>12. Follow(At(i), next) = SubSeq(s, i, Len(s))
  <2> HIDE DEF At
  <2> QED
    BY <1>10, <1>11
<1> QED
  BY <1>12

\* Follow finds a list that is linked.
LEMMA FollowsList ==
    ASSUME NEW s, NEW first, NEW next, OneWay(s, first, next)
    PROVE  Follow(first, next) = s
<1>1. s \in Seq(Keys) /\ Len(s) \in Nat /\ 1 \in 1 .. Len(s) + 1
  BY DEF OneWay
<1>2. first = IF 1 <= Len(s) THEN s[1] ELSE NULL
  BY <1>1 DEF OneWay
<1>3. SubSeq(s, 1, Len(s)) = s
  BY <1>1, SubSeqFull
<1> QED
  BY <1>1, <1>2, <1>3, FollowsRest

\* A list whose links are left alone is still there.
LEMMA ListKept ==
    ASSUME NEW s, NEW first, NEW next, NEW prev, TwoWay(s, first, next, prev),
           NEW next2, NEW prev2,
           \A i \in 1 .. Len(s) : next2[s[i]] = next[s[i]] /\ prev2[s[i]] = prev[s[i]]
    PROVE  TwoWay(s, first, next2, prev2)
BY DEF TwoWay, OneWay, WayBack

\* A list of one record.
LEMMA ListOfOne ==
    ASSUME NEW k \in Keys, NEW next, NEW prev, next[k] = NULL, prev[k] = NULL
    PROVE  TwoWay(<<k>>, k, next, prev) /\ Range(<<k>>) = {k} /\ Len(<<k>>) = 1
<1>1. <<k>> \in Seq(Keys) /\ Len(<<k>>) = 1 /\ <<k>>[1] = k /\ <<k>> # <<>>
  OBVIOUS
<1>2. DOMAIN <<k>> = 1 .. 1
  BY <1>1
<1>3. Range(<<k>>) = {k}
  BY <1>1, <1>2 DEF Range
<1> QED
  BY <1>1, <1>3 DEF TwoWay, OneWay, WayBack, NoRepeats

\* A record is put in front of a list: HASH_ADD_TO_BKT.
LEMMA ListPush ==
    ASSUME NEW s, NEW first, NEW next, NEW prev, TwoWay(s, first, next, prev),
           NEW k \in Keys, k \notin Range(s), NEW next2, NEW prev2,
           next2[k] = first, prev2[k] = NULL,
           \A j \in Keys \ {k} : next2[j] = next[j],
           \A j \in Keys \ {k} : prev2[j] = IF j = first THEN k ELSE prev[j]
    PROVE  /\ TwoWay(<<k>> \o s, k, next2, prev2)
           /\ Range(<<k>> \o s) = Range(s) \cup {k}
           /\ Len(<<k>> \o s) = Len(s) + 1
<1> DEFINE t == <<k>> \o s
<1>1. /\ s \in Seq(Keys) /\ Len(s) \in Nat /\ DOMAIN s = 1 .. Len(s)
      /\ <<k>> \in Seq(Keys) /\ Len(<<k>>) = 1 /\ <<k>>[1] = k
  BY DEF TwoWay, OneWay
<1>2. /\ t \in Seq(Keys) /\ Len(t) = Len(s) + 1 /\ DOMAIN t = 1 .. Len(s) + 1
      /\ t[1] = k /\ \A i \in 2 .. Len(s) + 1 : t[i] = s[i - 1]
  BY <1>1, ConcatProperties
<1>3. \A i \in 1 .. Len(s) : s[i] \in Keys /\ s[i] # k
  BY <1>1 DEF Range
<1> HIDE DEF t
<1>4. NoRepeats(t)
  <2> SUFFICES ASSUME NEW i \in 1 .. Len(s) + 1, NEW j \in 1 .. Len(s) + 1, t[i] = t[j]
               PROVE  i = j
    BY <1>2 DEF NoRepeats
  <2>1. i = 1 \/ i - 1 \in 1 .. Len(s)
    BY <1>1
  <2>2. j = 1 \/ j - 1 \in 1 .. Len(s)
    BY <1>1
  <2>3. i # 1 => t[i] = s[i - 1] /\ t[i] # k
    BY <1>1, <1>2, <1>3, <2>1
  <2>4. j # 1 => t[j] = s[j - 1] /\ t[j] # k
    BY <1>1, <1>2, <1>3, <2>2
  <2>5. i # 1 /\ j # 1 => i - 1 = j - 1
    BY <2>1, <2>2, <2>3, <2>4 DEF TwoWay, OneWay, NoRepeats
  <2> QED
    BY <1>2, <2>3, <2>4, <2>5
<1>5. \A i \in 1 .. Len(t) : next2[t[i]] = IF i = Len(t) THEN NULL ELSE t[i + 1]
  <2> SUFFICES ASSUME NEW i \in 1 .. Len(s) + 1
               PROVE  next2[t[i]] = IF i = Len(s) + 1 THEN NULL ELSE t[i + 1]
    BY <1>2
  <2>1. CASE i = 1
    <3>1. s = <<>> <=> Len(s) = 0
      BY <1>1
    <3>2. Len(s) # 0 => t[2] = s[1]
      <4>1. Len(s) # 0 => 2 \in 2 .. Len(s) + 1 /\ 2 - 1 = 1
        BY <1>1
      <4> QED
        BY <1>2, <4>1
    <3>3. first = IF Len(s) = 0 THEN NULL ELSE s[1]
      BY <3>1 DEF TwoWay, OneWay
    <3>4. next2[t[i]] = first /\ (i = Len(s) + 1 <=> Len(s) = 0) /\ i + 1 = 2
      BY <1>1, <1>2, <2>1
    <3> QED
      BY <3>2, <3>3, <3>4
  <2>2. CASE i # 1
    <3>1. i - 1 \in 1 .. Len(s) /\ t[i] = s[i - 1] /\ (i - 1) + 1 = i
      BY <1>1, <1>2, <2>2
    <3>2. next2[t[i]] = next[s[i - 1]]
      BY <1>3, <3>1
    <3>3. next[s[i - 1]] = IF i - 1 = Len(s) THEN NULL ELSE s[i]
      BY <3>1 DEF TwoWay, OneWay
    <3>4. i # Len(s) + 1 => t[i + 1] = s[i]
      BY <1>1, <1>2
    <3> QED
      BY <1>1, <3>1, <3>2, <3>3, <3>4
  <2> QED
    BY <2>1, <2>2
<1>6. \A i \in 1 .. Len(t) : prev2[t[i]] = IF i = 1 THEN NULL ELSE t[i - 1]
  <2> SUFFICES ASSUME NEW i \in 1 .. Len(s) + 1
               PROVE  prev2[t[i]] = IF i = 1 THEN NULL ELSE t[i - 1]
    BY <1>2
  <2>1. CASE i = 1
    BY <1>2, <2>1
  <2>2. CASE i # 1
    <3>1. i - 1 \in 1 .. Len(s) /\ t[i] = s[i - 1]
      BY <1>1, <1>2, <2>2
    <3>2. prev2[t[i]] = IF s[i - 1] = first THEN k ELSE prev[s[i - 1]]
      BY <1>3, <3>1
    <3>3. first = s[1] /\ 1 \in 1 .. Len(s)
      <4>1. Len(s) # 0 /\ s # <<>> /\ 1 \in 1 .. Len(s)
        BY <1>1, <3>1
      <4> QED
        BY <4>1 DEF TwoWay, OneWay
    <3>4. s[i - 1] = first <=> i - 1 = 1
      <4>1. \A a, b \in 1 .. Len(s) : s[a] = s[b] => a = b
        BY DEF TwoWay, OneWay, NoRepeats
      <4> QED
        BY <3>1, <3>3, <4>1
    <3>5. prev[s[i - 1]] = IF i - 1 = 1 THEN NULL ELSE s[i - 1 - 1]
      BY <3>1 DEF TwoWay, WayBack
    <3>6. i # 2 => t[i - 1] = s[i - 1 - 1]
      BY <1>1, <1>2, <2>2
    <3> QED
      BY <1>2, <2>2, <3>2, <3>4, <3>5, <3>6
  <2> QED
    BY <2>1, <2>2
<1>7. k = IF t = <<>> THEN NULL ELSE t[1]
  BY <1>1, <1>2
<1>8. Range(t) = Range(s) \cup {k}
  <2>1. ASSUME NEW x \in Range(t) PROVE x \in Range(s) \cup {k}
    <3>1. PICK i \in 1 .. Len(s) + 1 : t[i] = x
      BY <1>2, <2>1 DEF Range
    <3>2. i = 1 \/ (i \in 2 .. Len(s) + 1 /\ i - 1 \in 1 .. Len(s))
      BY <1>1
    <3> QED
      BY <1>1, <1>2, <3>1, <3>2 DEF Range
  <2>2. k \in Range(t)
    <3>1. 1 \in DOMAIN t
      BY <1>1, <1>2
    <3> QED
      BY <1>2, <3>1 DEF Range
  <2>3. ASSUME NEW x \in Range(s) PROVE x \in Range(t)
    <3>1. PICK i \in 1 .. Len(s) : s[i] = x
      BY <1>1, <2>3 DEF Range
    <3>2. i + 1 \in 2 .. Len(s) + 1 /\ i + 1 - 1 = i /\ i + 1 \in DOMAIN t
      BY <1>1, <1>2
    <3>3. t[i + 1] = x
      BY <1>2, <3>1, <3>2
    <3> QED
      BY <3>2, <3>3 DEF Range
  <2> QED
    BY <2>1, <2>2, <2>3
<1> QED
  BY <1>2, <1>4, <1>5, <1>6, <1>7, <1>8 DEF TwoWay, OneWay, WayBack, t

\* A record is put behind a list: HASH_APPEND_LIST.
LEMMA ListAppend ==
    ASSUME NEW s, NEW first, NEW next, NEW prev, TwoWay(s, first, next, prev), s # <<>>,
           NEW k \in Keys, k \notin Range(s), NEW next2, NEW prev2,
           next2[k] = NULL, prev2[k] = s[Len(s)],
           \A j \in Keys \ {k} : next2[j] = IF j = s[Len(s)] THEN k ELSE next[j],
           \A j \in Keys \ {k} : prev2[j] = prev[j]
    PROVE  /\ TwoWay(Append(s, k), first, next2, prev2)
           /\ Range(Append(s, k)) = Range(s) \cup {k}
<1> DEFINE t == Append(s, k)
<1>1. s \in Seq(Keys) /\ Len(s) \in Nat /\ DOMAIN s = 1 .. Len(s) /\ Len(s) # 0
  BY DEF TwoWay, OneWay
<1>2. /\ t \in Seq(Keys) /\ Len(t) = Len(s) + 1 /\ DOMAIN t = 1 .. Len(s) + 1
      /\ t[Len(s) + 1] = k /\ \A i \in 1 .. Len(s) : t[i] = s[i]
  BY <1>1
<1>3. \A i \in 1 .. Len(s) : s[i] \in Keys \ {k}
  BY <1>1 DEF Range
<1>4. \A i, j \in 1 .. Len(s) : s[i] = s[j] => i = j
  BY DEF TwoWay, OneWay, NoRepeats
<1> HIDE DEF t
<1>5. NoRepeats(t)
  <2> SUFFICES ASSUME NEW i \in 1 .. Len(s) + 1, NEW j \in 1 .. Len(s) + 1, t[i] = t[j]
               PROVE  i = j
    BY <1>2 DEF NoRepeats
  <2>1. i = Len(s) + 1 \/ i \in 1 .. Len(s)
    BY <1>1
  <2>2. j = Len(s) + 1 \/ j \in 1 .. Len(s)
    BY <1>1
  <2> QED
    BY <1>2, <1>3, <1>4, <2>1, <2>2
<1>6. \A i \in 1 .. Len(t) : next2[t[i]] = IF i = Len(t) THEN NULL ELSE t[i + 1]
  <2> SUFFICES ASSUME NEW i \in 1 .. Len(s) + 1
               PROVE  next2[t[i]] = IF i = Len(s) + 1 THEN NULL ELSE t[i + 1]
    BY <1>2
  <2>1. CASE i = Len(s) + 1
    BY <1>2, <2>1
  <2>2. CASE i # Len(s) + 1
    <3>1. i \in 1 .. Len(s) /\ t[i] = s[i] /\ Len(s) \in 1 .. Len(s)
      BY <1>1, <1>2, <2>2
    <3>2. next2[s[i]] = IF s[i] = s[Len(s)] THEN k ELSE next[s[i]]
      BY <1>3, <3>1
    <3>3. s[i] = s[Len(s)] <=> i = Len(s)
      BY <1>4, <3>1
    <3>4. next[s[i]] = IF i = Len(s) THEN NULL ELSE s[i + 1]
      BY <3>1 DEF TwoWay, OneWay
    <3>5. i # Len(s) => t[i + 1] = s[i + 1]
      <4>1. Len(s) \in Nat /\ i \in Nat /\ i >= 1 /\ i <= Len(s)
        BY <1>1, <3>1
      <4>2. i # Len(s) => i + 1 \in 1 .. Len(s)
        BY <4>1
      <4> QED
        BY <1>2, <4>2
    <3> QED
      BY <1>2, <2>2, <3>1, <3>2, <3>3, <3>4, <3>5
  <2> QED
    BY <2>1, <2>2
<1>7. \A i \in 1 .. Len(t) : prev2[t[i]] = IF i = 1 THEN NULL ELSE t[i - 1]
  <2> SUFFICES ASSUME NEW i \in 1 .. Len(s) + 1
               PROVE  prev2[t[i]] = IF i = 1 THEN NULL ELSE t[i - 1]
    BY <1>2
  <2>1. CASE i = Len(s) + 1
    <3>1. i # 1 /\ i - 1 = Len(s) /\ Len(s) \in 1 .. Len(s)
      BY <1>1, <2>1
    <3> QED
      BY <1>2, <2>1, <3>1
  <2>2. CASE i # Len(s) + 1
    <3>1. i \in 1 .. Len(s) /\ t[i] = s[i]
      BY <1>1, <1>2, <2>2
    <3>2. prev2[s[i]] = prev[s[i]]
      BY <1>3, <3>1
    <3>3. prev[s[i]] = IF i = 1 THEN NULL ELSE s[i - 1]
      BY <3>1 DEF TwoWay, WayBack
    <3>4. i # 1 => t[i - 1] = s[i - 1]
      BY <1>1, <1>2, <3>1
    <3> QED
      BY <3>1, <3>2, <3>3, <3>4
  <2> QED
    BY <2>1, <2>2
<1>8. first = IF t = <<>> THEN NULL ELSE t[1]
  <2>1. t # <<>> /\ 1 \in 1 .. Len(s)
    BY <1>1, <1>2
  <2> QED
    BY <1>2, <2>1 DEF TwoWay, OneWay
<1>9. Range(t) = Range(s) \cup {k}
  <2>1. ASSUME NEW x \in Range(t) PROVE x \in Range(s) \cup {k}
    <3>1. PICK i \in 1 .. Len(s) + 1 : t[i] = x
      BY <1>2, <2>1 DEF Range
    <3>2. i = Len(s) + 1 \/ i \in 1 .. Len(s)
      BY <1>1
    <3> QED
      BY <1>1, <1>2, <3>1, <3>2 DEF Range
  <2>2. k \in Range(t)
    <3>1. Len(s) + 1 \in DOMAIN t
      BY <1>1, <1>2
    <3> QED
      BY <1>2, <3>1 DEF Range
  <2>3. ASSUME NEW x \in Range(s) PROVE x \in Range(t)
    <3>1. PICK i \in 1 .. Len(s) : s[i] = x
      BY <1>1, <2>3 DEF Range
    <3>2. i \in DOMAIN t
      BY <1>1, <1>2
    <3> QED
      BY <1>2, <3>1, <3>2 DEF Range
  <2> QED
    BY <2>1, <2>2, <2>3
<1> QED
  BY <1>2, <1>5, <1>6, <1>7, <1>8, <1>9 DEF TwoWay, OneWay, WayBack, t

\* RemoveAt drops one element and keeps the order of the others.
LEMMA RemoveAtElements ==
    ASSUME NEW S, NEW s \in Seq(S), NEW i \in 1 .. Len(s)
    PROVE  /\ RemoveAt(s, i) \in Seq(S)
           /\ Len(RemoveAt(s, i)) = Len(s) - 1
           /\ \A j \in 1 .. Len(s) - 1 :
                RemoveAt(s, i)[j] = IF j < i THEN s[j] ELSE s[j + 1]
<1> DEFINE a == SubSeq(s, 1, i - 1)
           b == SubSeq(s, i + 1, Len(s))
<1>1. a \in Seq(S) /\ Len(a) = i - 1 /\ \A j \in 1 .. i - 1 : a[j] = s[j]
  OBVIOUS
<1>2. /\ b \in Seq(S) /\ Len(b) = Len(s) - i
      /\ \A j \in 1 .. Len(s) - i : b[j] = s[i + j]
  OBVIOUS
<1>3. RemoveAt(s, i) = a \o b
  BY DEF RemoveAt
<1> HIDE DEF a, b
<1>4. /\ a \o b \in Seq(S) /\ Len(a \o b) = Len(s) - 1
      /\ \A j \in 1 .. Len(s) - 1 :
           (a \o b)[j] = IF j < i THEN a[j] ELSE b[j - (i - 1)]
  <2>1. Len(a) + Len(b) = Len(s) - 1 /\ Len(a) = i - 1 /\ Len(s) \in Nat
    BY <1>1, <1>2
  <2>2. a \in Seq(S) /\ b \in Seq(S)
    BY <1>1, <1>2
  <2>3. /\ a \o b \in Seq(S) /\ Len(a \o b) = Len(a) + Len(b)
        /\ \A j \in 1 .. Len(a) + Len(b) :
             (a \o b)[j] = IF j <= Len(a) THEN a[j] ELSE b[j - Len(a)]
    BY <2>2, ConcatProperties
  <2> QED
    BY <2>1, <2>3
<1>5. \A j \in 1 .. Len(s) - 1 : ~(j < i) => b[j - (i - 1)] = s[j + 1]
  BY <1>2
<1> QED
  BY <1>1, <1>3, <1>4, <1>5

\* The links of the other records after those of k's neighbours are patched.
Unlinks(k, first, next, prev, first2, next2, prev2) ==
    /\ \A j \in Keys \ {k} : next2[j] = IF j = prev[k] THEN next[k] ELSE next[j]
    /\ \A j \in Keys \ {k} : prev2[j] = IF j = next[k] THEN prev[k] ELSE prev[j]
    /\ first2 = IF first = k THEN next[k] ELSE first

\* A record is taken out of a list: HASH_DEL_IN_BKT, HASH_DELETE_HH.
LEMMA ListDrop ==
    ASSUME NEW s, NEW first, NEW next, NEW prev, TwoWay(s, first, next, prev),
           NEW i \in 1 .. Len(s), NEW first2, NEW next2, NEW prev2,
           Unlinks(s[i], first, next, prev, first2, next2, prev2)
    PROVE  /\ TwoWay(RemoveAt(s, i), first2, next2, prev2)
           /\ Range(RemoveAt(s, i)) = Range(s) \ {s[i]}
           /\ Len(RemoveAt(s, i)) = Len(s) - 1
<1> DEFINE t == RemoveAt(s, i)
           from(j) == IF j < i THEN j ELSE j + 1
<1>1. /\ s \in Seq(Keys) /\ Len(s) \in Nat /\ DOMAIN s = 1 .. Len(s) /\ Len(s) # 0
      /\ i \in Nat /\ i >= 1 /\ i <= Len(s)
  BY DEF TwoWay, OneWay
<1>13. /\ \A j \in Keys \ {s[i]} :
             next2[j] = IF j = prev[s[i]] THEN next[s[i]] ELSE next[j]
       /\ \A j \in Keys \ {s[i]} :
             prev2[j] = IF j = next[s[i]] THEN prev[s[i]] ELSE prev[j]
       /\ first2 = IF first = s[i] THEN next[s[i]] ELSE first
  BY DEF Unlinks
<1>0. Len(s) \in Nat /\ Len(s) >= 1 /\ i \in Nat /\ i >= 1 /\ i <= Len(s)
  BY <1>1
<1>2. /\ t \in Seq(Keys) /\ Len(t) = Len(s) - 1 /\ DOMAIN t = 1 .. Len(s) - 1
      /\ \A j \in 1 .. Len(s) - 1 : t[j] = s[from(j)]
  <2>1. /\ t \in Seq(Keys) /\ Len(t) = Len(s) - 1
        /\ \A j \in 1 .. Len(s) - 1 : t[j] = IF j < i THEN s[j] ELSE s[j + 1]
    BY <1>1, RemoveAtElements
  <2> HIDE DEF t
  <2> QED
    BY <2>1
<1>3. \A j \in 1 .. Len(s) : s[j] \in Keys
  BY <1>1
<1>4. \A a, b \in 1 .. Len(s) : s[a] = s[b] => a = b
  BY DEF TwoWay, OneWay, NoRepeats
<1>5. \A j \in 1 .. Len(s) : next[s[j]] = IF j = Len(s) THEN NULL ELSE s[j + 1]
  BY DEF TwoWay, OneWay
<1>6. \A j \in 1 .. Len(s) : prev[s[j]] = IF j = 1 THEN NULL ELSE s[j - 1]
  BY DEF TwoWay, WayBack
<1>7. \A j \in 1 .. Len(s) - 1 : /\ from(j) \in 1 .. Len(s) /\ from(j) # i
                                 /\ s[from(j)] \in Keys \ {s[i]}
  <2>1. \A j \in 1 .. Len(s) - 1 : from(j) \in 1 .. Len(s) /\ from(j) # i
    BY <1>1
  <2> HIDE DEF from
  <2> QED
    BY <2>1, <1>3, <1>4
<1> HIDE DEF t
<1>8. NoRepeats(t)
  <2>1. \A a, b \in 1 .. Len(s) - 1 : from(a) = from(b) => a = b
    BY <1>1
  <2> HIDE DEF from
  <2> QED
    BY <1>2, <1>4, <1>7, <2>1 DEF NoRepeats
<1>9. \A j \in 1 .. Len(t) : next2[t[j]] = IF j = Len(t) THEN NULL ELSE t[j + 1]
  <2> SUFFICES ASSUME NEW j \in 1 .. Len(s) - 1
               PROVE  next2[s[from(j)]] = IF j = Len(s) - 1 THEN NULL ELSE s[from(j + 1)]
    <3>1. \A a \in 1 .. Len(s) - 1 : a # Len(s) - 1 => a + 1 \in 1 .. Len(s) - 1
      BY <1>0
    <3> HIDE DEF from
    <3> QED
      BY <1>2, <3>1
  <2>1. next2[s[from(j)]] = IF s[from(j)] = prev[s[i]] THEN next[s[i]] ELSE next[s[from(j)]]
    <3> HIDE DEF from
    <3> QED
      BY <1>13, <1>7
  <2>2. s[from(j)] = prev[s[i]] <=> j = i - 1
    <3>1. CASE i = 1
      <4>1. prev[s[i]] = NULL /\ j # i - 1
        BY <1>1, <1>6, <3>1
      <4>2. s[from(j)] \in Keys
        <5> HIDE DEF from
        <5> QED
          BY <1>7
      <4> QED
        BY <4>1, <4>2, KeysAreNumbers
    <3>2. CASE i # 1
      <4>1. prev[s[i]] = s[i - 1] /\ i - 1 \in 1 .. Len(s)
        <5>1. i - 1 \in 1 .. Len(s)
          BY <1>0, <3>2
        <5> QED
          BY <1>6, <3>2, <5>1
      <4>2. from(j) = i - 1 <=> j = i - 1
        BY <1>1
      <4>3. s[from(j)] = s[i - 1] <=> from(j) = i - 1
        <5> HIDE DEF from
        <5> QED
          BY <1>4, <1>7, <4>1
      <4> QED
        BY <4>1, <4>2, <4>3
    <3> QED
      BY <3>1, <3>2
  <2>3. CASE j = i - 1
    <3>1. next[s[i]] = IF i = Len(s) THEN NULL ELSE s[i + 1]
      BY <1>5
    <3>2. i = Len(s) <=> j = Len(s) - 1
      BY <1>1, <2>3
    <3>3. from(j + 1) = i + 1
      BY <1>1, <2>3
    <3> QED
      BY <2>1, <2>2, <2>3, <3>1, <3>2, <3>3
  <2>4. CASE j # i - 1
    <3>1. next[s[from(j)]] = IF from(j) = Len(s) THEN NULL ELSE s[from(j) + 1]
      <4> HIDE DEF from
      <4> QED
        BY <1>5, <1>7
    <3>2. from(j) = Len(s) <=> j = Len(s) - 1
      BY <1>0, <2>4
    <3>3. from(j + 1) = from(j) + 1
      BY <1>1, <2>4
    <3> HIDE DEF from
    <3> QED
      BY <2>1, <2>2, <2>4, <3>1, <3>2, <3>3
  <2> QED
    BY <2>3, <2>4
<1>10. \A j \in 1 .. Len(t) : prev2[t[j]] = IF j = 1 THEN NULL ELSE t[j - 1]
  <2> SUFFICES ASSUME NEW j \in 1 .. Len(s) - 1
               PROVE  prev2[s[from(j)]] = IF j = 1 THEN NULL ELSE s[from(j - 1)]
    <3>1. \A a \in 1 .. Len(s) - 1 : a # 1 => a - 1 \in 1 .. Len(s) - 1
      BY <1>0
    <3>2. \A a \in 1 .. Len(s) - 1 : a # 1 => t[a - 1] = s[from(a - 1)]
      <4> HIDE DEF from
      <4> QED
        BY <1>2, <3>1
    <3>3. \A a \in 1 .. Len(s) - 1 : t[a] = s[from(a)]
      BY <1>2
    <3> HIDE DEF from
    <3> QED
      BY <1>2, <3>2, <3>3
  <2>1. prev2[s[from(j)]] = IF s[from(j)] = next[s[i]] THEN prev[s[i]] ELSE prev[s[from(j)]]
    <3> HIDE DEF from
    <3> QED
      BY <1>13, <1>7
  <2>2. s[from(j)] = next[s[i]] <=> j = i
    <3>1. CASE i = Len(s)
      <4>1. next[s[i]] = NULL /\ j # i
        <5>1. j # i
          BY <1>0, <3>1
        <5> QED
          BY <1>5, <3>1, <5>1
      <4>2. s[from(j)] \in Keys
        <5> HIDE DEF from
        <5> QED
          BY <1>7
      <4> QED
        BY <4>1, <4>2, KeysAreNumbers
    <3>2. CASE i # Len(s)
      <4>1. next[s[i]] = s[i + 1] /\ i + 1 \in 1 .. Len(s)
        <5>1. i + 1 \in 1 .. Len(s)
          BY <1>0, <3>2
        <5> QED
          BY <1>5, <3>2, <5>1
      <4>2. from(j) = i + 1 <=> j = i
        BY <1>1
      <4>3. s[from(j)] = s[i + 1] <=> from(j) = i + 1
        <5> HIDE DEF from
        <5> QED
          BY <1>4, <1>7, <4>1
      <4> QED
        BY <4>1, <4>2, <4>3
    <3> QED
      BY <3>1, <3>2
  <2>3. CASE j = i
    <3>1. prev[s[i]] = IF i = 1 THEN NULL ELSE s[i - 1]
      BY <1>6
    <3>2. i # 1 => from(j - 1) = i - 1
      BY <1>1, <2>3
    <3> QED
      BY <2>1, <2>2, <2>3, <3>1, <3>2
  <2>4. CASE j # i
    <3>1. prev[s[from(j)]] = IF from(j) = 1 THEN NULL ELSE s[from(j) - 1]
      <4> HIDE DEF from
      <4> QED
        BY <1>6, <1>7
    <3>2. from(j) = 1 <=> j = 1
      BY <1>1, <2>4
    <3>3. j # 1 => from(j - 1) = from(j) - 1
      BY <1>1, <2>4
    <3> HIDE DEF from
    <3> QED
      BY <2>1, <2>2, <2>4, <3>1, <3>2, <3>3
  <2> QED
    BY <2>3, <2>4
<1>11. first2 = IF t = <<>> THEN NULL ELSE t[1]
  <2>1. first = s[1] /\ 1 \in 1 .. Len(s)
    <3>1. s # <<>> /\ 1 \in 1 .. Len(s)
      BY <1>1
    <3> QED
      BY <3>1 DEF TwoWay, OneWay
  <2>2. first = s[i] <=> i = 1
    BY <1>4, <2>1
  <2>3. t = <<>> <=> Len(s) = 1
    BY <1>1, <1>2
  <2>4. Len(s) # 1 => t[1] = IF i = 1 THEN s[2] ELSE s[1]
    <3>1. Len(s) # 1 => 1 \in 1 .. Len(s) - 1
      BY <1>1
    <3>2. from(1) = IF i = 1 THEN 2 ELSE 1
      BY <1>1
    <3> HIDE DEF from
    <3> QED
      BY <1>2, <3>1, <3>2
  <2>5. i = 1 => next[s[i]] = IF Len(s) = 1 THEN NULL ELSE s[2]
    <3>1. next[s[i]] = IF i = Len(s) THEN NULL ELSE s[i + 1]
      BY <1>5
    <3> QED
      BY <1>0, <3>1
  <2>6. Len(s) = 1 => i = 1
    BY <1>1
  <2> QED
    BY <1>13, <2>1, <2>2, <2>3, <2>4, <2>5, <2>6
<1>12. Range(t) = Range(s) \ {s[i]}
  <2>1. ASSUME NEW x \in Range(t) PROVE x \in Range(s) \ {s[i]}
    <3>1. PICK j \in 1 .. Len(s) - 1 : t[j] = x
      BY <1>2, <2>1 DEF Range
    <3> HIDE DEF from
    <3>2. x = s[from(j)] /\ from(j) \in DOMAIN s /\ x # s[i]
      BY <1>1, <1>2, <1>7, <3>1
    <3> QED
      BY <3>2 DEF Range
  <2>2. ASSUME NEW x \in Range(s) \ {s[i]} PROVE x \in Range(t)
    <3>1. PICK j \in 1 .. Len(s) : s[j] = x /\ j # i
      BY <1>1, <2>2 DEF Range
    <3> DEFINE a == IF j < i THEN j ELSE j - 1
    <3>2. a \in 1 .. Len(s) - 1 /\ from(a) = j
      BY <1>1, <3>1
    <3> HIDE DEF from, a
    <3>3. a \in DOMAIN t /\ t[a] = x
      BY <1>2, <3>1, <3>2
    <3> QED
      BY <3>3 DEF Range
  <2> QED
    BY <2>1, <2>2
<1> HIDE DEF from
<1> QED
  BY <1>2, <1>8, <1>9, <1>10, <1>11, <1>12 DEF TwoWay, OneWay, WayBack, t

-----------------------------------------------------------------------------
(* The table. *)

Bucket == [hh_head : Link, count : Nat, expand_mult : Nat]

BucketArray == UNION {[0 .. n - 1 -> Bucket] : n \in Nat}

Table == [buckets : BucketArray, num_buckets : Nat, log2_num_buckets : Nat,
          num_items : Nat, tail : Link, ideal_chain_maxlen : Nat,
          nonideal_items : Nat, ineff_expands : Nat, noexpand : BOOLEAN]

\* A table with its array, and the handles.
Typed(s) ==
    /\ s \in [table : Table, handles : [Keys -> Handle]]
    /\ s.table.num_buckets \in Nat \ {0}
    /\ s.table.buckets \in [0 .. s.table.num_buckets - 1 -> Bucket]

BucketNumbers(s) == 0 .. s.table.num_buckets - 1

NextOf(h) == [k \in Keys |-> h[k].next]
PrevOf(h) == [k \in Keys |-> h[k].prev]
HhNextOf(h) == [k \in Keys |-> h[k].hh_next]
HhPrevOf(h) == [k \in Keys |-> h[k].hh_prev]

\* Each chain c[b] is linked both ways from the head of bucket b on, and counted;
\* its records hash to b, and the chains hold the records of M.
Chained(s, c, M) ==
    /\ Typed(s)
    /\ \A b \in BucketNumbers(s) :
         /\ TwoWay(c[b], s.table.buckets[b].hh_head, HhNextOf(s.handles), HhPrevOf(s.handles))
         /\ s.table.buckets[b].count = Len(c[b])
         /\ \A k \in Range(c[b]) : BktOf(s, k) = b
    /\ M \subseteq Keys
    /\ \A k \in Keys : k \in M <=> k \in Range(c[BktOf(s, k)])

\* What relinking leaves alone: the application order, the hash values, and all of
\* the table but its buckets and the count of nonideal items.
Frame(s, m) ==
    /\ \A k \in Keys : /\ m.handles[k].hashv = s.handles[k].hashv
                       /\ m.handles[k].prev = s.handles[k].prev
                       /\ m.handles[k].next = s.handles[k].next
    /\ m.table.num_buckets = s.table.num_buckets
    /\ m.table.log2_num_buckets = s.table.log2_num_buckets
    /\ m.table.num_items = s.table.num_items
    /\ m.table.tail = s.table.tail
    /\ m.table.ideal_chain_maxlen = s.table.ideal_chain_maxlen
    /\ m.table.ineff_expands = s.table.ineff_expands
    /\ m.table.noexpand = s.table.noexpand

\* An array of buckets.
LEMMA IsBucketArray ==
    ASSUME NEW n \in Nat, NEW f \in [0 .. n - 1 -> Bucket]
    PROVE  f \in BucketArray
BY DEF BucketArray

\* The bucket of a record is one of the table's.
LEMMA BktIsBucket ==
    ASSUME NEW s, Typed(s), NEW k \in Keys
    PROVE  BktOf(s, k) \in BucketNumbers(s)
<1>1. s.handles[k] \in Handle
  BY DEF Typed
<1>2. s.handles[k].hashv \in Nat
  <2>1. s.handles[k].hashv \in HashValues \cup {0}
    BY <1>1 DEF Handle
  <2>2. HashValues \cup {0} \subseteq Nat
    BY HashAssumption
  <2> QED
    BY <2>1, <2>2
<1>3. s.table.num_buckets \in Nat \ {0}
  BY DEF Typed
<1>4. \A a \in Nat, n \in Nat \ {0} : a % n \in 0 .. n - 1
  OBVIOUS
<1>5. s.handles[k].hashv % s.table.num_buckets \in 0 .. s.table.num_buckets - 1
  BY <1>2, <1>3, <1>4
<1> QED
  BY <1>5 DEF BktOf, ToBkt, BucketNumbers

\* What HASH_ADD_TO_BKT changes first: the bucket and two links.
LEMMA PushFields ==
    ASSUME NEW s, Typed(s), NEW k \in Keys, s.table.buckets[BktOf(s, k)].hh_head # k
    PROVE  LET m == PushOnChain(s, k)
               b == BktOf(s, k)
               first == s.table.buckets[b].hh_head
           IN /\ Typed(m) /\ Frame(s, m)
              /\ m.table.nonideal_items = s.table.nonideal_items
              /\ m.table.buckets[b].hh_head = k
              /\ m.table.buckets[b].count = s.table.buckets[b].count + 1
              /\ m.table.buckets[b].expand_mult = s.table.buckets[b].expand_mult
              /\ \A a \in BucketNumbers(s) \ {b} : m.table.buckets[a] = s.table.buckets[a]
              /\ m.handles[k].hh_next = first /\ m.handles[k].hh_prev = NULL
              /\ \A j \in Keys \ {k} :
                   /\ m.handles[j].hh_next = s.handles[j].hh_next
                   /\ m.handles[j].hh_prev = IF j = first THEN k ELSE s.handles[j].hh_prev
<1> DEFINE b == BktOf(s, k)
           t == s.table
           n == t.num_buckets
           bkt == [t.buckets[b] EXCEPT !.count = @ + 1, !.hh_head = k]
           array == [t.buckets EXCEPT ![b] = bkt]
           first == t.buckets[b].hh_head
           h == [j \in Keys |->
                   CASE j = k -> [s.handles[j] EXCEPT !.hh_next = first, !.hh_prev = NULL]
                     [] j = first -> [s.handles[j] EXCEPT !.hh_prev = k]
                     [] OTHER -> s.handles[j]]
<1>1. /\ t \in Table /\ n \in Nat \ {0} /\ t.buckets \in [0 .. n - 1 -> Bucket]
      /\ s.handles \in [Keys -> Handle]
  BY DEF Typed
<1>2. b \in 0 .. n - 1
  BY BktIsBucket DEF BucketNumbers
<1>3. t.buckets[b] \in Bucket /\ k \in Link /\ first # k
  BY <1>1, <1>2 DEF Link
<1> HIDE DEF b, t, n
<1>4. /\ bkt \in Bucket /\ bkt.hh_head = k /\ bkt.count = t.buckets[b].count + 1
      /\ bkt.expand_mult = t.buckets[b].expand_mult
  <2> DEFINE u == t.buckets[b]
             v == [u EXCEPT !.count = @ + 1]
  <2>1. u \in [hh_head : Link, count : Nat, expand_mult : Nat]
    BY <1>3 DEF Bucket
  <2> HIDE DEF u
  <2>2. v \in [hh_head : Link, count : Nat, expand_mult : Nat]
    BY <2>1
  <2>3. v.count = u.count + 1 /\ v.expand_mult = u.expand_mult
    BY <2>1
  <2>4. bkt = [v EXCEPT !.hh_head = k]
    BY DEF u
  <2> HIDE DEF v, bkt
  <2>5. /\ bkt \in [hh_head : Link, count : Nat, expand_mult : Nat]
        /\ bkt.hh_head = k /\ bkt.count = v.count /\ bkt.expand_mult = v.expand_mult
    BY <1>3, <2>2, <2>4
  <2> QED
    BY <2>3, <2>5 DEF Bucket, u
<1>5. first \in Link
  BY <1>3 DEF Bucket
<1> HIDE DEF bkt, first
<1>6. /\ array \in [0 .. n - 1 -> Bucket] /\ array[b] = bkt
      /\ \A a \in 0 .. n - 1 : a # b => array[a] = t.buckets[a]
  BY <1>1, <1>2, <1>4
<1>7. array \in BucketArray
  BY <1>1, <1>6, IsBucketArray
<1>8. PushOnChain(s, k).table = [t EXCEPT !.buckets = array]
  <2>1. PushOnChain(s, k).table =
          [s.table EXCEPT !.buckets[BktOf(s, k)].count = @ + 1,
                          !.buckets[BktOf(s, k)].hh_head = k]
    BY DEF PushOnChain
  <2>2. t \in [buckets : BucketArray, num_buckets : Nat, log2_num_buckets : Nat,
                num_items : Nat, tail : Link, ideal_chain_maxlen : Nat,
                nonideal_items : Nat, ineff_expands : Nat, noexpand : BOOLEAN]
    BY <1>1 DEF Table
  <2>3. \A a : [t EXCEPT !.buckets = a].buckets = a
    BY <2>2
  <2>4. PushOnChain(s, k).table =
          [[t EXCEPT !.buckets = [t.buckets EXCEPT ![b] = [t.buckets[b] EXCEPT !.count = @ + 1]]]
             EXCEPT !.buckets[b].hh_head = k]
    BY <2>1 DEF t, b
  <2> QED
    BY <2>4, <2>2, <1>1, <1>2 DEF bkt
<1>9. PushOnChain(s, k).handles = h
  BY DEF PushOnChain, h, b, t, first
<1> DEFINE m == PushOnChain(s, k)
<1>10. /\ m.table \in Table /\ m.table.buckets = array
       /\ m.table.num_buckets = n /\ m.table.log2_num_buckets = t.log2_num_buckets
       /\ m.table.num_items = t.num_items /\ m.table.tail = t.tail
       /\ m.table.ideal_chain_maxlen = t.ideal_chain_maxlen
       /\ m.table.nonideal_items = t.nonideal_items
       /\ m.table.ineff_expands = t.ineff_expands /\ m.table.noexpand = t.noexpand
  <2> HIDE DEF array, m
  <2> DEFINE u == [t EXCEPT !.buckets = array]
  <2>1. /\ u \in Table /\ u.buckets = array
        /\ u.num_buckets = t.num_buckets /\ u.log2_num_buckets = t.log2_num_buckets
        /\ u.num_items = t.num_items /\ u.tail = t.tail
        /\ u.ideal_chain_maxlen = t.ideal_chain_maxlen
        /\ u.nonideal_items = t.nonideal_items
        /\ u.ineff_expands = t.ineff_expands /\ u.noexpand = t.noexpand
    BY <1>1, <1>7 DEF Table
  <2>2. m.table = u
    BY <1>8 DEF m
  <2> HIDE DEF u
  <2> QED
    BY <2>1, <2>2 DEF n
<1>11. ASSUME NEW j \in Keys
       PROVE  /\ h[j] \in Handle
              /\ h[j].hashv = s.handles[j].hashv
              /\ h[j].prev = s.handles[j].prev /\ h[j].next = s.handles[j].next
              /\ h[j].hh_next = IF j = k THEN first ELSE s.handles[j].hh_next
              /\ h[j].hh_prev = IF j = k THEN NULL
                                ELSE IF j = first THEN k ELSE s.handles[j].hh_prev
  <2> DEFINE x == s.handles[j]
  <2>1. x \in [hashv : HashValues \cup {0}, prev : Link, next : Link,
                hh_prev : Link, hh_next : Link]
    BY <1>1 DEF Handle
  <2>2. k \in Link /\ first \in Link /\ NULL \in Link
    BY <1>3, <1>5, KeysAreNumbers
  <2> DEFINE y == [x EXCEPT !.hh_next = first]
             z == [x EXCEPT !.hh_next = first, !.hh_prev = NULL]
             w == [x EXCEPT !.hh_prev = k]
  <2>0. h[j] = CASE j = k -> z [] j = first -> w [] OTHER -> x
    OBVIOUS
  <2> HIDE DEF x, h
  <2>3. CASE j = k
    <3>1. z = [y EXCEPT !.hh_prev = NULL]
      BY <2>1, <2>2 DEF Handle
    <3> HIDE DEF z
    <3>2. h[j] = z
      <4> HIDE DEF w, y
      <4> QED
        BY <1>3, <2>0, <2>3
    <3>3. /\ y \in [hashv : HashValues \cup {0}, prev : Link, next : Link,
                     hh_prev : Link, hh_next : Link]
          /\ y.hashv = x.hashv /\ y.prev = x.prev /\ y.next = x.next /\ y.hh_next = first
      BY <2>1, <2>2
    <3> HIDE DEF y
    <3>4. /\ z \in Handle /\ z.hashv = y.hashv /\ z.prev = y.prev /\ z.next = y.next
          /\ z.hh_next = y.hh_next /\ z.hh_prev = NULL
      BY <2>2, <3>1, <3>3 DEF Handle
    <3> QED
      BY <2>3, <3>2, <3>3, <3>4 DEF x
  <2>4. CASE j # k /\ j = first
    <3>1. h[j] = w
      <4> HIDE DEF w, z
      <4> QED
        BY <2>0, <2>4
    <3> QED
      BY <2>1, <2>2, <2>4, <3>1 DEF x, Handle
  <2>5. CASE j # k /\ j # first
    <3>1. h[j] = x
      <4> HIDE DEF w, z
      <4> QED
        BY <2>0, <2>5
    <3> QED
      BY <2>1, <2>2, <2>5, <3>1 DEF x, Handle
  <2> QED
    BY <2>3, <2>4, <2>5
<1>12. h \in [Keys -> Handle]
  BY <1>11
<1>13. m \in [table : Table, handles : [Keys -> Handle]]
  <2>1. m = [table |-> m.table, handles |-> m.handles]
    BY DEF PushOnChain
  <2> HIDE DEF m
  <2> QED
    BY <1>9, <1>10, <1>12, <2>1 DEF m
<1> HIDE DEF m, h, array
<1>14. m.handles = h
  BY <1>9 DEF m
<1>15. Typed(m)
  BY <1>1, <1>6, <1>10, <1>13 DEF Typed
<1>16. Frame(s, m)
  BY <1>10, <1>11, <1>14 DEF Frame, n, t
<1> QED
  BY <1>2, <1>4, <1>6, <1>10, <1>11, <1>14, <1>15, <1>16 DEF m, b, first, n, t, BucketNumbers

\* The first record of a chain is in it, so a new record is not.
LEMMA HeadIsInChain ==
    ASSUME NEW s, NEW c, NEW M, Chained(s, c, M), NEW k \in Keys, k \notin M
    PROVE  /\ k \notin Range(c[BktOf(s, k)])
           /\ s.table.buckets[BktOf(s, k)].hh_head # k
<1> DEFINE b == BktOf(s, k)
           first == s.table.buckets[b].hh_head
<1>1. b \in BucketNumbers(s)
  BY BktIsBucket DEF Chained
<1>2. OneWay(c[b], first, HhNextOf(s.handles))
  BY <1>1 DEF Chained, TwoWay
<1>3. k \notin Range(c[b])
  BY DEF Chained
<1> HIDE DEF b, first
<1>4. first # k
  <2>1. CASE c[b] = <<>>
    BY <1>2, <2>1, KeysAreNumbers DEF OneWay
  <2>2. CASE c[b] # <<>>
    <3>1. first = c[b][1] /\ c[b] \in Seq(Keys)
      BY <1>2, <2>2 DEF OneWay
    <3>2. 1 \in DOMAIN c[b]
      BY <2>2, <3>1
    <3> QED
      BY <1>3, <3>1, <3>2 DEF Range
  <2> QED
    BY <2>1, <2>2
<1> QED
  BY <1>3, <1>4 DEF b, first

\* The records of a list are keys.
LEMMA RangeOfList ==
    ASSUME NEW s \in Seq(Keys)
    PROVE  /\ Range(s) \subseteq Keys /\ DOMAIN s = 1 .. Len(s)
           /\ \A i \in 1 .. Len(s) : s[i] \in Range(s)
           /\ \A k \in Range(s) : \E i \in 1 .. Len(s) : s[i] = k
BY DEF Range

\* Pushing a record on its bucket's chain keeps the chains and adds the record.
LEMMA PushKeepsChains ==
    ASSUME NEW s, NEW c, NEW M, Chained(s, c, M), NEW k \in Keys, k \notin M
    PROVE  Chained(PushOnChain(s, k),
                   [a \in BucketNumbers(s) |->
                      IF a = BktOf(s, k) THEN <<k>> \o c[a] ELSE c[a]],
                   M \cup {k})
<1> DEFINE m == PushOnChain(s, k)
           b == BktOf(s, k)
           d == [a \in BucketNumbers(s) |-> IF a = b THEN <<k>> \o c[a] ELSE c[a]]
           first == s.table.buckets[b].hh_head
<1>1. /\ Typed(s) /\ M \subseteq Keys
      /\ \A a \in BucketNumbers(s) :
           /\ TwoWay(c[a], s.table.buckets[a].hh_head, HhNextOf(s.handles), HhPrevOf(s.handles))
           /\ s.table.buckets[a].count = Len(c[a])
           /\ \A j \in Range(c[a]) : BktOf(s, j) = a
      /\ \A j \in Keys : j \in M <=> j \in Range(c[BktOf(s, j)])
  BY DEF Chained
<1>2. k \notin Range(c[b]) /\ first # k /\ b \in BucketNumbers(s)
  BY <1>1, HeadIsInChain, BktIsBucket
<1>3. /\ Typed(m) /\ Frame(s, m)
      /\ m.table.buckets[b].hh_head = k
      /\ m.table.buckets[b].count = s.table.buckets[b].count + 1
      /\ \A a \in BucketNumbers(s) \ {b} : m.table.buckets[a] = s.table.buckets[a]
      /\ m.handles[k].hh_next = first /\ m.handles[k].hh_prev = NULL
      /\ \A j \in Keys \ {k} :
           /\ m.handles[j].hh_next = s.handles[j].hh_next
           /\ m.handles[j].hh_prev = IF j = first THEN k ELSE s.handles[j].hh_prev
  BY <1>1, <1>2, PushFields
<1> HIDE DEF m
<1>4. BucketNumbers(m) = BucketNumbers(s)
  BY <1>3 DEF Frame, BucketNumbers
<1>5. \A j \in Keys : BktOf(m, j) = BktOf(s, j)
  BY <1>3 DEF Frame, BktOf
<1> DEFINE next2 == HhNextOf(m.handles)
           prev2 == HhPrevOf(m.handles)
           next == HhNextOf(s.handles)
           prev == HhPrevOf(s.handles)
<1>6. /\ next2[k] = first /\ prev2[k] = NULL
      /\ \A j \in Keys \ {k} : next2[j] = next[j]
      /\ \A j \in Keys \ {k} : prev2[j] = IF j = first THEN k ELSE prev[j]
  BY <1>3 DEF HhNextOf, HhPrevOf
<1> HIDE DEF b, first, next, prev, next2, prev2
<1>7. /\ d[b] = <<k>> \o c[b] /\ \A a \in BucketNumbers(s) : a # b => d[a] = c[a]
  BY <1>2
<1> HIDE DEF d
<1>8. ASSUME NEW a \in BucketNumbers(s)
      PROVE  /\ TwoWay(d[a], m.table.buckets[a].hh_head, next2, prev2)
             /\ m.table.buckets[a].count = Len(d[a])
             /\ Range(d[a]) = IF a = b THEN Range(c[b]) \cup {k} ELSE Range(c[a])
  <2>1. CASE a = b
    <3>1. TwoWay(c[b], first, next, prev) /\ s.table.buckets[b].count = Len(c[b])
      BY <1>1, <1>2 DEF first, next, prev
    <3>2. /\ TwoWay(d[b], k, next2, prev2)
          /\ Range(d[b]) = Range(c[b]) \cup {k} /\ Len(d[b]) = Len(c[b]) + 1
      BY <1>2, <1>6, <1>7, <3>1, ListPush
    <3> QED
      BY <1>3, <2>1, <3>1, <3>2
  <2>2. CASE a # b
    <3>1. TwoWay(c[a], m.table.buckets[a].hh_head, next, prev)
      BY <1>1, <1>3, <2>2 DEF next, prev
    <3>2. c[a] \in Seq(Keys)
      BY <3>1 DEF TwoWay, OneWay
    <3>3. first \notin Range(c[a]) /\ k \notin Range(c[a])
      <4>1. k \notin Range(c[a])
        BY <1>1, <2>2 DEF b
      <4>2. CASE first = NULL
        BY <3>2, <4>1, <4>2, RangeOfList, KeysAreNumbers
      <4>3. CASE first # NULL
        <5>1. OneWay(c[b], first, next)
          BY <1>1, <1>2 DEF first, next, TwoWay
        <5>2. c[b] # <<>> /\ first = c[b][1] /\ c[b] \in Seq(Keys)
          BY <4>3, <5>1 DEF OneWay
        <5>3. 1 \in 1 .. Len(c[b])
          BY <5>2
        <5>4. first \in Range(c[b])
          BY <5>2, <5>3, RangeOfList
        <5> QED
          BY <1>1, <1>2, <2>2, <4>1, <5>4
      <4> QED
        BY <4>2, <4>3
    <3>4. \A i \in 1 .. Len(c[a]) : next2[c[a][i]] = next[c[a][i]] /\ prev2[c[a][i]] = prev[c[a][i]]
      <4>1. \A i \in 1 .. Len(c[a]) : c[a][i] \in Range(c[a]) /\ c[a][i] \in Keys
        BY <3>2, RangeOfList
      <4> QED
        BY <1>6, <3>3, <4>1
    <3>5. TwoWay(c[a], m.table.buckets[a].hh_head, next2, prev2)
      BY <3>1, <3>4, ListKept
    <3> QED
      BY <1>1, <1>3, <1>7, <2>2, <3>5
  <2> QED
    BY <2>1, <2>2
<1>9. ASSUME NEW a \in BucketNumbers(s), NEW j \in Range(d[a]) PROVE BktOf(m, j) = a
  <2>1. d[a] \in Seq(Keys)
    BY <1>8 DEF TwoWay, OneWay
  <2>2. j \in Keys
    BY <2>1, RangeOfList
  <2> QED
    BY <1>1, <1>5, <1>8, <2>2 DEF b
<1>10. ASSUME NEW j \in Keys PROVE j \in M \cup {k} <=> j \in Range(d[BktOf(m, j)])
  <2>1. BktOf(m, j) = BktOf(s, j) /\ BktOf(s, j) \in BucketNumbers(s)
    BY <1>1, <1>5, BktIsBucket
  <2>2. j \in M <=> j \in Range(c[BktOf(s, j)])
    BY <1>1
  <2>3. j = k => BktOf(s, j) = b
    BY DEF b
  <2> QED
    BY <1>8, <2>1, <2>2, <2>3
<1>11. Chained(m, d, M \cup {k})
  BY <1>1, <1>3, <1>4, <1>8, <1>9, <1>10 DEF Chained, next2, prev2
<1> QED
  BY <1>11 DEF m, d, b

\* The records of a chain are the linked ones that hash to its bucket.
LEMMA RecordsOfChain ==
    ASSUME NEW s, NEW c, NEW M, Chained(s, c, M), NEW b \in BucketNumbers(s)
    PROVE  /\ c[b] \in Seq(Keys) /\ NoRepeats(c[b])
           /\ Range(c[b]) = {k \in M : BktOf(s, k) = b}
<1>1. c[b] \in Seq(Keys) /\ NoRepeats(c[b])
  BY DEF Chained, TwoWay, OneWay
<1>2. Range(c[b]) \subseteq Keys
  BY <1>1, RangeOfList
<1>3. /\ \A k \in Range(c[b]) : BktOf(s, k) = b
      /\ M \subseteq Keys
      /\ \A k \in Keys : k \in M <=> k \in Range(c[BktOf(s, k)])
  BY DEF Chained
<1> QED
  BY <1>1, <1>2, <1>3

\* Chains stay where the links, the heads, the counts and the hash values do.
LEMMA ChainsStay ==
    ASSUME NEW m, NEW c, NEW M, Chained(m, c, M), NEW r, Typed(r),
           r.table.num_buckets = m.table.num_buckets,
           \A k \in M : /\ r.handles[k].hashv = m.handles[k].hashv
                        /\ r.handles[k].hh_next = m.handles[k].hh_next
                        /\ r.handles[k].hh_prev = m.handles[k].hh_prev,
           \A a \in BucketNumbers(m) :
             /\ r.table.buckets[a].hh_head = m.table.buckets[a].hh_head
             /\ r.table.buckets[a].count = m.table.buckets[a].count
    PROVE  Chained(r, c, M)
<1> DEFINE next == HhNextOf(m.handles)
           prev == HhPrevOf(m.handles)
           next2 == HhNextOf(r.handles)
           prev2 == HhPrevOf(r.handles)
<1>1. BucketNumbers(r) = BucketNumbers(m) /\ M \subseteq Keys /\ Typed(m)
  BY DEF BucketNumbers, Chained
<1>2. \A k \in M : BktOf(r, k) = BktOf(m, k)
  BY DEF BktOf
<1>3. \A k \in M : next2[k] = next[k] /\ prev2[k] = prev[k]
  BY <1>1 DEF HhNextOf, HhPrevOf
<1> HIDE DEF next, prev, next2, prev2
<1>4. ASSUME NEW a \in BucketNumbers(m)
      PROVE  /\ TwoWay(c[a], r.table.buckets[a].hh_head, next2, prev2)
             /\ \A k \in Range(c[a]) : k \in M /\ BktOf(r, k) = a
  <2>1. c[a] \in Seq(Keys) /\ Range(c[a]) = {k \in M : BktOf(m, k) = a}
    BY RecordsOfChain
  <2>2. TwoWay(c[a], r.table.buckets[a].hh_head, next, prev)
    BY DEF Chained, next, prev
  <2>3. \A i \in 1 .. Len(c[a]) : c[a][i] \in M
    BY <2>1, RangeOfList
  <2>4. \A i \in 1 .. Len(c[a]) : next2[c[a][i]] = next[c[a][i]] /\ prev2[c[a][i]] = prev[c[a][i]]
    BY <1>3, <2>3
  <2>5. TwoWay(c[a], r.table.buckets[a].hh_head, next2, prev2)
    BY <2>2, <2>4, ListKept
  <2> QED
    BY <1>2, <2>1, <2>5
<1>5. ASSUME NEW k \in Keys PROVE k \in M <=> k \in Range(c[BktOf(r, k)])
  <2>1. BktOf(r, k) \in BucketNumbers(m)
    BY <1>1, BktIsBucket
  <2>2. k \in M => k \in Range(c[BktOf(m, k)])
    BY DEF Chained
  <2> QED
    BY <1>2, <1>4, <2>1, <2>2
<1> QED
  BY <1>1, <1>4, <1>5 DEF Chained, next2, prev2

\* One more record is over the ideal length, in bucket b whose multiple becomes e.
Counted(m, b, e) ==
    [m EXCEPT !.table.nonideal_items = @ + 1, !.table.buckets[b].expand_mult = e]

\* The counters of a bucket that holds more than its share of records.
LEMMA CountNonideal ==
    ASSUME NEW m, Typed(m), NEW b \in BucketNumbers(m), NEW e \in Nat,
           NEW r, r = Counted(m, b, e)
    PROVE  /\ Typed(r) /\ Frame(m, r) /\ r.handles = m.handles
           /\ r.table.buckets[b].expand_mult = e
           /\ \A a \in BucketNumbers(m) :
                /\ r.table.buckets[a].hh_head = m.table.buckets[a].hh_head
                /\ r.table.buckets[a].count = m.table.buckets[a].count
                /\ a # b => r.table.buckets[a].expand_mult = m.table.buckets[a].expand_mult
<1> DEFINE t == m.table
           u == [t EXCEPT !.nonideal_items = @ + 1]
           bkt == [t.buckets[b] EXCEPT !.expand_mult = e]
           array == [t.buckets EXCEPT ![b] = bkt]
           v == [u EXCEPT !.buckets = array]
<1>1. /\ m \in [table : Table, handles : [Keys -> Handle]]
      /\ t \in [buckets : BucketArray, num_buckets : Nat, log2_num_buckets : Nat,
                num_items : Nat, tail : Link, ideal_chain_maxlen : Nat,
                nonideal_items : Nat, ineff_expands : Nat, noexpand : BOOLEAN]
      /\ t.num_buckets \in Nat \ {0} /\ t.buckets \in [0 .. t.num_buckets - 1 -> Bucket]
      /\ b \in 0 .. t.num_buckets - 1
  BY DEF Typed, Table, BucketNumbers
<1> HIDE DEF t
<1>2. /\ bkt \in Bucket /\ bkt.hh_head = t.buckets[b].hh_head
      /\ bkt.count = t.buckets[b].count /\ bkt.expand_mult = e
  <2> DEFINE w == t.buckets[b]
  <2>1. w \in [hh_head : Link, count : Nat, expand_mult : Nat]
    BY <1>1 DEF Bucket
  <2> HIDE DEF w
  <2>2. LET x == [w EXCEPT !.expand_mult = e]
        IN /\ x \in [hh_head : Link, count : Nat, expand_mult : Nat]
           /\ x.hh_head = w.hh_head /\ x.count = w.count /\ x.expand_mult = e
    BY <2>1
  <2> QED
    BY <2>2 DEF w, Bucket
<1>3. /\ u \in [buckets : BucketArray, num_buckets : Nat, log2_num_buckets : Nat,
                num_items : Nat, tail : Link, ideal_chain_maxlen : Nat,
                nonideal_items : Nat, ineff_expands : Nat, noexpand : BOOLEAN]
      /\ u.buckets = t.buckets
      /\ u.num_buckets = t.num_buckets /\ u.log2_num_buckets = t.log2_num_buckets
      /\ u.num_items = t.num_items /\ u.tail = t.tail
      /\ u.ideal_chain_maxlen = t.ideal_chain_maxlen
      /\ u.ineff_expands = t.ineff_expands /\ u.noexpand = t.noexpand
  BY <1>1
<1>4. r = [m EXCEPT !.table = v]
  <2>1. r = [m EXCEPT !.table = [u EXCEPT !.buckets =
               [u.buckets EXCEPT ![b] = [u.buckets[b] EXCEPT !.expand_mult = e]]]]
    <3> HIDE DEF bkt, array, v
    <3>1. r = [[m EXCEPT !.table = u] EXCEPT !.table.buckets[b].expand_mult = e]
      BY DEF t, Counted
    <3> HIDE DEF u
    <3>2. [m EXCEPT !.table = u].table = u
      BY <1>1
    <3> QED
      BY <1>1, <3>1, <3>2
  <2> HIDE DEF u
  <2> QED
    BY <1>3, <2>1
<1> HIDE DEF u, bkt
<1>5. /\ array \in [0 .. t.num_buckets - 1 -> Bucket] /\ array[b] = bkt
      /\ \A a \in 0 .. t.num_buckets - 1 : a # b => array[a] = t.buckets[a]
  BY <1>1, <1>2
<1>6. array \in BucketArray
  BY <1>1, <1>5, IsBucketArray
<1> HIDE DEF array
<1>7. /\ v \in Table /\ v.buckets = array
      /\ v.num_buckets = t.num_buckets /\ v.log2_num_buckets = t.log2_num_buckets
      /\ v.num_items = t.num_items /\ v.tail = t.tail
      /\ v.ideal_chain_maxlen = t.ideal_chain_maxlen
      /\ v.ineff_expands = t.ineff_expands /\ v.noexpand = t.noexpand
  BY <1>3, <1>6 DEF Table
<1> HIDE DEF v
<1>8. /\ r \in [table : Table, handles : [Keys -> Handle]]
      /\ r.table = v /\ r.handles = m.handles
  BY <1>1, <1>4, <1>7
<1>9. Typed(r)
  BY <1>1, <1>5, <1>7, <1>8 DEF Typed
<1>10. Frame(m, r)
  BY <1>7, <1>8 DEF Frame, t
<1> QED
  BY <1>2, <1>5, <1>7, <1>8, <1>9, <1>10 DEF t, BucketNumbers

\* Each chain is no longer than the doubling that relinks it allows.
Tight(s) ==
    \A b \in BucketNumbers(s) :
      LET bkt == s.table.buckets[b]
          ideal == s.table.ideal_chain_maxlen
      IN bkt.count <= ideal \/ bkt.count <= bkt.expand_mult * ideal + 1

\* The records of M are relinked, and nothing but chains has changed since s0.
Relinked(s0, s, M) ==
    /\ Frame(s0, s)
    /\ s.table.ideal_chain_maxlen >= 1
    /\ Tight(s)
    /\ \E c : Chained(s, c, M)

\* What two steps of relinking leave alone.
LEMMA FrameTransitive ==
    ASSUME NEW s, NEW m, NEW r, Frame(s, m), Frame(m, r)
    PROVE  Frame(s, r)
BY DEF Frame

\* The counter of a bucket goes up with its first record over a multiple of the
\* ideal length, so a chain gets one longer than that multiple at most.
LEMMA MultipleGrows ==
    ASSUME NEW count \in Nat, NEW e \in Nat, NEW ideal \in Nat, ideal >= 1,
           count <= ideal \/ count <= e * ideal + 1,
           NEW e2, e2 = IF count + 1 > e * ideal THEN e + 1 ELSE e
    PROVE  count + 1 <= e2 * ideal + 1
<1>1. e * ideal \in Nat /\ (e + 1) * ideal = e * ideal + ideal
  OBVIOUS
<1> DEFINE p == e * ideal
<1>2. CASE count + 1 > p
  <2>1. e2 * ideal = p + ideal
    BY <1>1, <1>2
  <2> HIDE DEF p
  <2>2. p \in Nat /\ (count <= ideal \/ count <= p + 1)
    BY <1>1 DEF p
  <2> QED
    BY <2>1, <2>2
<1>3. CASE ~(count + 1 > p)
  <2>1. e2 * ideal = p
    BY <1>3
  <2> HIDE DEF p
  <2>2. p \in Nat
    BY <1>1 DEF p
  <2> QED
    BY <1>3, <2>1, <2>2
<1> QED
  BY <1>2, <1>3

\* One step of the loop over the records of a bucket that is relinked.
LEMMA MoveKeepsRelinked ==
    ASSUME NEW s0, NEW s, NEW M, Relinked(s0, s, M), NEW k \in Keys, k \notin M
    PROVE  Relinked(s0, MoveToNewBucket(s, k), M \cup {k})
<1> DEFINE m == PushOnChain(s, k)
           b == BktOf(s, k)
           count == m.table.buckets[b].count
           ideal == m.table.ideal_chain_maxlen
           old == m.table.buckets[b].expand_mult
           e == IF count > old * ideal THEN old + 1 ELSE old
           r == MoveToNewBucket(s, k)
<1>1. PICK c : Chained(s, c, M)
  BY DEF Relinked
<1>2. /\ Frame(s0, s) /\ s.table.ideal_chain_maxlen >= 1 /\ Tight(s) /\ Typed(s)
  BY <1>1 DEF Relinked, Chained
<1>3. /\ k \notin Range(c[b]) /\ s.table.buckets[b].hh_head # k /\ b \in BucketNumbers(s)
  BY <1>1, <1>2, HeadIsInChain, BktIsBucket
<1>4. /\ Typed(m) /\ Frame(s, m)
      /\ count = s.table.buckets[b].count + 1
      /\ old = s.table.buckets[b].expand_mult
      /\ \A a \in BucketNumbers(s) \ {b} : m.table.buckets[a] = s.table.buckets[a]
  BY <1>2, <1>3, PushFields
<1>5. PICK d : Chained(m, d, M \cup {k})
  BY <1>1, PushKeepsChains
<1>6. BucketNumbers(m) = BucketNumbers(s) /\ ideal = s.table.ideal_chain_maxlen
  BY <1>4 DEF Frame, BucketNumbers
<1>7. /\ s.table.buckets[b].count \in Nat /\ old \in Nat /\ ideal \in Nat
  <2>1. s.table.buckets[b] \in Bucket /\ s.table \in Table
    BY <1>2, <1>3 DEF Typed, BucketNumbers
  <2>2. s.table.buckets[b].count \in Nat /\ s.table.buckets[b].expand_mult \in Nat
    BY <2>1 DEF Bucket
  <2>3. s.table.ideal_chain_maxlen \in Nat
    BY <2>1 DEF Table
  <2> QED
    BY <1>4, <1>6, <2>2, <2>3
<1>8. r = IF count <= ideal THEN m
          ELSE [m EXCEPT !.table.nonideal_items = @ + 1,
                         !.table.buckets[b].expand_mult =
                             IF count > @ * ideal THEN @ + 1 ELSE @]
  BY DEF MoveToNewBucket
<1> HIDE DEF m, b, count, old, r
<1>9. CASE count <= ideal
  <2>1. r = m
    BY <1>8, <1>9
  <2>2. Tight(m)
    <3> SUFFICES ASSUME NEW a \in BucketNumbers(s)
                 PROVE  \/ m.table.buckets[a].count <= ideal
                        \/ m.table.buckets[a].count
                             <= m.table.buckets[a].expand_mult * ideal + 1
      BY <1>6 DEF Tight
    <3>1. CASE a = b
      BY <1>9, <3>1 DEF count
    <3>2. CASE a # b
      BY <1>2, <1>4, <1>6, <3>2 DEF Tight
    <3> QED
      BY <3>1, <3>2
  <2>3. Frame(s0, m)
    BY <1>2, <1>4, FrameTransitive
  <2> QED
    BY <1>2, <1>5, <1>6, <2>1, <2>2, <2>3 DEF Relinked, r
<1>10. CASE ~(count <= ideal)
  <2>1. e \in Nat
    BY <1>7
  <2>2. r = Counted(m, b, e)
    <3>1. m \in [table : Table, handles : [Keys -> Handle]]
          /\ m.table \in [buckets : BucketArray, num_buckets : Nat, log2_num_buckets : Nat,
                          num_items : Nat, tail : Link, ideal_chain_maxlen : Nat,
                          nonideal_items : Nat, ineff_expands : Nat, noexpand : BOOLEAN]
      BY <1>4 DEF Typed, Table
    <3>2. [m EXCEPT !.table.nonideal_items = @ + 1].table.buckets[b].expand_mult = old
      BY <3>1 DEF old
    <3> QED
      BY <1>8, <1>10, <3>2 DEF Counted
  <2> HIDE DEF e
  <2>3. /\ Typed(r) /\ Frame(m, r) /\ r.handles = m.handles
        /\ r.table.buckets[b].expand_mult = e
        /\ \A a \in BucketNumbers(m) :
             /\ r.table.buckets[a].hh_head = m.table.buckets[a].hh_head
             /\ r.table.buckets[a].count = m.table.buckets[a].count
             /\ a # b => r.table.buckets[a].expand_mult = m.table.buckets[a].expand_mult
    BY <1>3, <1>4, <1>6, <2>1, <2>2, CountNonideal
  <2>4. Chained(r, d, M \cup {k})
    <3>1. M \cup {k} \subseteq Keys
      BY <1>5 DEF Chained
    <3>2. /\ r.table.num_buckets = m.table.num_buckets
          /\ \A j \in Keys : r.handles[j].hashv = m.handles[j].hashv
      BY <2>3 DEF Frame
    <3> QED
      BY <1>5, <2>3, <3>1, <3>2, ChainsStay
  <2>5. BucketNumbers(r) = BucketNumbers(s) /\ r.table.ideal_chain_maxlen = ideal
    BY <1>6, <2>3 DEF Frame, BucketNumbers
  <2>6. Tight(r)
    <3> HIDE DEF ideal
    <3> SUFFICES ASSUME NEW a \in BucketNumbers(s)
                 PROVE  \/ r.table.buckets[a].count <= ideal
                        \/ r.table.buckets[a].count
                             <= r.table.buckets[a].expand_mult * ideal + 1
      BY <2>5 DEF Tight
    <3>1. CASE a = b
      <4> DEFINE n == s.table.buckets[b].count
      <4>1. n <= ideal \/ n <= old * ideal + 1
        BY <1>2, <1>3, <1>4, <1>6 DEF Tight
      <4>2. e = IF n + 1 > old * ideal THEN old + 1 ELSE old
        BY <1>4 DEF e, ideal
      <4>3. n \in Nat /\ old \in Nat /\ ideal \in Nat /\ ideal >= 1
        BY <1>2, <1>6, <1>7
      <4> HIDE DEF n
      <4>4. n + 1 <= e * ideal + 1
        BY <4>1, <4>2, <4>3, MultipleGrows
      <4>5. r.table.buckets[a].count = n + 1
        BY <1>3, <1>4, <1>6, <2>3, <3>1 DEF n, count
      <4> QED
        BY <2>3, <3>1, <4>4, <4>5
    <3>2. CASE a # b
      <4>1. /\ r.table.buckets[a].count = s.table.buckets[a].count
            /\ r.table.buckets[a].expand_mult = s.table.buckets[a].expand_mult
        BY <1>4, <1>6, <2>3, <3>2
      <4> QED
        BY <1>2, <1>6, <4>1 DEF Tight
    <3> QED
      BY <3>1, <3>2
  <2>7. Frame(s0, r)
    BY <1>2, <1>4, <2>3, FrameTransitive
  <2> QED
    BY <1>2, <1>6, <2>4, <2>5, <2>6, <2>7 DEF Relinked, r
<1> QED
  BY <1>9, <1>10

\* The body of the recursion of MoveChain: the state once n records are moved.
ChainMoved(moved, s, chain, n) ==
    IF n = 0 THEN s ELSE MoveToNewBucket(moved[n - 1], chain[n])

\* The recursion of MoveChain has a solution.
LEMMA MoveChainExists ==
    ASSUME NEW s, NEW chain, NEW m \in Nat
    PROVE  \E f : f = [n \in 0 .. m |-> ChainMoved(f, s, chain, n)]
<1> DEFINE Solves(f, k) == f = [n \in 0 .. k |-> ChainMoved(f, s, chain, n)]
           T == {k \in Nat : \E f : Solves(f, k)}
<1>1. 0 \in T
  <2> DEFINE f == [n \in 0 .. 0 |-> s]
  <2>1. \A n \in 0 .. 0 : ChainMoved(f, s, chain, n) = s
    BY DEF ChainMoved
  <2>2. f = [n \in 0 .. 0 |-> ChainMoved(f, s, chain, n)]
    BY <2>1
  <2> QED
    BY <2>2
<1>2. ASSUME NEW k \in T PROVE k + 1 \in T
  <2>1. PICK f : Solves(f, k)
    OBVIOUS
  <2> DEFINE g == [n \in 0 .. k + 1 |-> IF n <= k THEN f[n] ELSE ChainMoved(f, s, chain, n)]
  <2>2. \A n \in 0 .. k : g[n] = f[n] /\ f[n] = ChainMoved(f, s, chain, n)
    BY <2>1
  <2>3. \A n \in 0 .. k + 1 : ChainMoved(g, s, chain, n) = ChainMoved(f, s, chain, n)
    <3> SUFFICES ASSUME NEW n \in 0 .. k + 1
                 PROVE  ChainMoved(g, s, chain, n) = ChainMoved(f, s, chain, n)
      OBVIOUS
    <3>1. CASE n = 0
      BY <3>1 DEF ChainMoved
    <3>2. CASE n # 0
      <4>1. n - 1 \in 0 .. k
        BY <3>2
      <4>2. g[n - 1] = f[n - 1]
        BY <2>2, <4>1
      <4> HIDE DEF g
      <4> QED
        BY <4>2 DEF ChainMoved
    <3> QED
      BY <3>1, <3>2
  <2>4. \A n \in 0 .. k + 1 : g[n] = ChainMoved(g, s, chain, n)
    <3> SUFFICES ASSUME NEW n \in 0 .. k + 1 PROVE g[n] = ChainMoved(f, s, chain, n)
      BY <2>3
    <3>1. CASE n <= k
      <4>1. n \in 0 .. k
        BY <3>1
      <4> HIDE DEF g
      <4> QED
        BY <2>2, <4>1
    <3>2. CASE ~(n <= k)
      BY <3>2
    <3> QED
      BY <3>1, <3>2
  <2>5. Solves(g, k + 1)
    <3>1. g = [n \in 0 .. k + 1 |-> g[n]]
      OBVIOUS
    <3> HIDE DEF g
    <3>2. [n \in 0 .. k + 1 |-> g[n]] = [n \in 0 .. k + 1 |-> ChainMoved(g, s, chain, n)]
      BY <2>4
    <3> QED
      BY <3>1, <3>2
  <2> HIDE DEF g, Solves
  <2> QED
    BY <2>5
<1>3. T = Nat
  <2> HIDE DEF T
  <2> SUFFICES T \subseteq Nat
    BY <1>1, <1>2, NatSetInduction
  <2> QED
    BY DEF T
<1> QED
  BY <1>3

\* Relinking the records of an old chain, none of which is relinked yet.
LEMMA MoveChainRelinks ==
    ASSUME NEW s0, NEW s, NEW M, Relinked(s0, s, M),
           NEW chain \in Seq(Keys), NoRepeats(chain), Range(chain) \cap M = {}
    PROVE  Relinked(s0, MoveChain(s, chain), M \cup Range(chain))
<1> DEFINE moved == CHOOSE f : f = [n \in 0 .. Len(chain) |-> ChainMoved(f, s, chain, n)]
           First(n) == {chain[i] : i \in 1 .. n}
           T == {n \in Nat : n <= Len(chain) => Relinked(s0, moved[n], M \cup First(n))}
<1>1. moved = [n \in 0 .. Len(chain) |-> ChainMoved(moved, s, chain, n)]
  <2>1. Len(chain) \in Nat
    OBVIOUS
  <2> QED
    BY <2>1, MoveChainExists
<1>2. MoveChain(s, chain) = moved[Len(chain)]
  BY DEF MoveChain, ChainMoved
<1> HIDE DEF moved
<1>3. \A n \in 0 .. Len(chain) : moved[n] = ChainMoved(moved, s, chain, n)
  BY <1>1
<1>4. 0 \in T
  <2>1. 0 \in 0 .. Len(chain)
    OBVIOUS
  <2>2. moved[0] = s
    BY <1>3, <2>1 DEF ChainMoved
  <2>3. M \cup First(0) = M
    OBVIOUS
  <2> HIDE DEF First
  <2> QED
    BY <2>2, <2>3
<1>5. ASSUME NEW n \in T PROVE n + 1 \in T
  <2> HIDE DEF First
  <2> SUFFICES ASSUME n + 1 <= Len(chain)
               PROVE  Relinked(s0, moved[n + 1], M \cup First(n + 1))
    OBVIOUS
  <2>1. n \in Nat /\ n + 1 \in 0 .. Len(chain) /\ n + 1 \in 1 .. Len(chain) /\ n + 1 # 0
    OBVIOUS
  <2>2. Relinked(s0, moved[n], M \cup First(n))
    BY <2>1
  <2>3. moved[n + 1] = MoveToNewBucket(moved[n + 1 - 1], chain[n + 1])
    BY <1>3, <2>1 DEF ChainMoved
  <2>4. moved[n + 1] = MoveToNewBucket(moved[n], chain[n + 1])
    <3>1. n + 1 - 1 = n
      BY <2>1
    <3> QED
      BY <2>3, <3>1
  <2>5. chain[n + 1] \in Keys /\ chain[n + 1] \in Range(chain)
    BY <2>1, RangeOfList
  <2>6. chain[n + 1] \notin M \cup First(n)
    <3>1. chain[n + 1] \notin M
      BY <2>5
    <3>2. ASSUME NEW i \in 1 .. n PROVE chain[i] # chain[n + 1]
      <4>1. i \in 1 .. Len(chain) /\ i # n + 1
        BY <2>1
      <4> QED
        BY <2>1, <4>1 DEF NoRepeats
    <3> QED
      BY <3>1, <3>2 DEF First
  <2>7. Relinked(s0, moved[n + 1], (M \cup First(n)) \cup {chain[n + 1]})
    BY <2>2, <2>4, <2>5, <2>6, MoveKeepsRelinked
  <2>8. (M \cup First(n)) \cup {chain[n + 1]} = M \cup First(n + 1)
    <3>1. \A i : i \in 1 .. n + 1 <=> i \in 1 .. n \/ i = n + 1
      BY <2>1
    <3> QED
      BY <3>1 DEF First
  <2> QED
    BY <2>7, <2>8
<1>6. T = Nat
  <2> HIDE DEF T
  <2> SUFFICES T \subseteq Nat
    BY <1>4, <1>5, NatSetInduction
  <2> QED
    BY DEF T
<1>7. Relinked(s0, moved[Len(chain)], M \cup First(Len(chain)))
  <2> HIDE DEF First
  <2>1. Len(chain) \in T /\ Len(chain) <= Len(chain)
    <3> HIDE DEF T
    <3> QED
      BY <1>6
  <2> QED
    BY <2>1
<1>8. First(Len(chain)) = Range(chain)
  BY DEF Range
<1> HIDE DEF First
<1> QED
  BY <1>2, <1>7, <1>8

\* The body of the recursion of MoveAll: the state once n buckets are emptied.
BucketsEmptied(emptied, s, old, n) ==
    IF n = 0 THEN s
    ELSE MoveChain(emptied[n - 1], Chain(old.table, old.handles, n - 1))

\* The recursion of MoveAll has a solution.
LEMMA MoveAllExists ==
    ASSUME NEW s, NEW old, NEW m \in Nat
    PROVE  \E f : f = [n \in 0 .. m |-> BucketsEmptied(f, s, old, n)]
<1> DEFINE Solves(f, k) == f = [n \in 0 .. k |-> BucketsEmptied(f, s, old, n)]
           T == {k \in Nat : \E f : Solves(f, k)}
<1>1. 0 \in T
  <2> DEFINE f == [n \in 0 .. 0 |-> s]
  <2>1. \A n \in 0 .. 0 : BucketsEmptied(f, s, old, n) = s
    BY DEF BucketsEmptied
  <2>2. f = [n \in 0 .. 0 |-> BucketsEmptied(f, s, old, n)]
    BY <2>1
  <2> QED
    BY <2>2
<1>2. ASSUME NEW k \in T PROVE k + 1 \in T
  <2>1. PICK f : Solves(f, k)
    OBVIOUS
  <2> DEFINE g == [n \in 0 .. k + 1 |-> IF n <= k THEN f[n] ELSE BucketsEmptied(f, s, old, n)]
  <2>2. \A n \in 0 .. k : g[n] = f[n] /\ f[n] = BucketsEmptied(f, s, old, n)
    BY <2>1
  <2>3. \A n \in 0 .. k + 1 : BucketsEmptied(g, s, old, n) = BucketsEmptied(f, s, old, n)
    <3> SUFFICES ASSUME NEW n \in 0 .. k + 1
                 PROVE  BucketsEmptied(g, s, old, n) = BucketsEmptied(f, s, old, n)
      OBVIOUS
    <3>1. CASE n = 0
      BY <3>1 DEF BucketsEmptied
    <3>2. CASE n # 0
      <4>1. n - 1 \in 0 .. k
        BY <3>2
      <4>2. g[n - 1] = f[n - 1]
        BY <2>2, <4>1
      <4> HIDE DEF g
      <4> QED
        BY <4>2 DEF BucketsEmptied
    <3> QED
      BY <3>1, <3>2
  <2>4. \A n \in 0 .. k + 1 : g[n] = BucketsEmptied(g, s, old, n)
    <3> SUFFICES ASSUME NEW n \in 0 .. k + 1 PROVE g[n] = BucketsEmptied(f, s, old, n)
      BY <2>3
    <3>1. CASE n <= k
      <4>1. n \in 0 .. k
        BY <3>1
      <4> HIDE DEF g
      <4> QED
        BY <2>2, <4>1
    <3>2. CASE ~(n <= k)
      BY <3>2
    <3> QED
      BY <3>1, <3>2
  <2>5. Solves(g, k + 1)
    <3>1. g = [n \in 0 .. k + 1 |-> g[n]]
      OBVIOUS
    <3> HIDE DEF g
    <3>2. [n \in 0 .. k + 1 |-> g[n]] = [n \in 0 .. k + 1 |-> BucketsEmptied(g, s, old, n)]
      BY <2>4
    <3> QED
      BY <3>1, <3>2
  <2> HIDE DEF g, Solves
  <2> QED
    BY <2>5
<1>3. T = Nat
  <2> HIDE DEF T
  <2> SUFFICES T \subseteq Nat
    BY <1>1, <1>2, NatSetInduction
  <2> QED
    BY DEF T
<1> QED
  BY <1>3

\* Chain finds the chain of a bucket.
LEMMA ChainFound ==
    ASSUME NEW s, NEW c, NEW M, Chained(s, c, M), NEW b \in BucketNumbers(s)
    PROVE  Chain(s.table, s.handles, b) = c[b]
<1>1. OneWay(c[b], s.table.buckets[b].hh_head, HhNextOf(s.handles))
  BY DEF Chained, TwoWay
<1>2. Follow(s.table.buckets[b].hh_head, HhNextOf(s.handles)) = c[b]
  BY <1>1, FollowsList
<1> QED
  BY <1>2 DEF Chain, HhNextOf

\* The loops of HASH_EXPAND_BUCKETS relink every record of the old buckets.
LEMMA MoveAllRelinks ==
    ASSUME NEW s0, NEW s, Relinked(s0, s, {}), NEW old, NEW c, NEW M, Chained(old, c, M)
    PROVE  Relinked(s0, MoveAll(s, old), M)
<1> DEFINE n0 == old.table.num_buckets
           emptied == CHOOSE f : f = [n \in 0 .. n0 |-> BucketsEmptied(f, s, old, n)]
           Done(n) == {k \in M : BktOf(old, k) < n}
           T == {n \in Nat : n <= n0 => Relinked(s0, emptied[n], Done(n))}
<1>0. Typed(old) /\ n0 \in Nat \ {0} /\ BucketNumbers(old) = 0 .. n0 - 1 /\ M \subseteq Keys
  BY DEF Chained, Typed, BucketNumbers
<1>1. emptied = [n \in 0 .. n0 |-> BucketsEmptied(emptied, s, old, n)]
  BY <1>0, MoveAllExists
<1>2. MoveAll(s, old) = emptied[n0]
  BY DEF MoveAll, BucketsEmptied
<1>3. \A k \in M : BktOf(old, k) \in 0 .. n0 - 1
  BY <1>0, BktIsBucket
<1> HIDE DEF emptied, n0
<1>4. \A n \in 0 .. n0 : emptied[n] = BucketsEmptied(emptied, s, old, n)
  BY <1>1
<1>5. 0 \in T
  <2>1. 0 \in 0 .. n0
    BY <1>0
  <2>2. emptied[0] = s
    BY <1>4, <2>1 DEF BucketsEmptied
  <2>3. Done(0) = {}
    BY <1>3
  <2> HIDE DEF Done
  <2> QED
    BY <2>2, <2>3
<1>6. ASSUME NEW n \in T PROVE n + 1 \in T
  <2> HIDE DEF Done
  <2> SUFFICES ASSUME n + 1 <= n0
               PROVE  Relinked(s0, emptied[n + 1], Done(n + 1))
    OBVIOUS
  <2>1. n \in Nat /\ n <= n0 /\ n + 1 \in 0 .. n0 /\ n \in 0 .. n0 - 1 /\ n + 1 # 0 /\ n + 1 - 1 = n
    BY <1>0
  <2>2. Relinked(s0, emptied[n], Done(n))
    BY <2>1
  <2>3. emptied[n + 1] = MoveChain(emptied[n], Chain(old.table, old.handles, n))
    <3>1. emptied[n + 1] = BucketsEmptied(emptied, s, old, n + 1)
      BY <1>4, <2>1
    <3> QED
      BY <3>1, <2>1 DEF BucketsEmptied
  <2>4. emptied[n + 1] = MoveChain(emptied[n], c[n])
    BY <1>0, <2>1, <2>3, ChainFound
  <2>5. /\ c[n] \in Seq(Keys) /\ NoRepeats(c[n])
        /\ Range(c[n]) = {k \in M : BktOf(old, k) = n}
    BY <1>0, <2>1, RecordsOfChain
  <2>6. Range(c[n]) \cap Done(n) = {}
    BY <2>1, <2>5 DEF Done
  <2>7. Done(n) \cup Range(c[n]) = Done(n + 1)
    <3>1. \A k \in M : BktOf(old, k) < n + 1 <=> BktOf(old, k) < n \/ BktOf(old, k) = n
      BY <1>0, <1>3, <2>1
    <3> QED
      BY <2>5, <3>1 DEF Done
  <2>8. Relinked(s0, emptied[n + 1], Done(n) \cup Range(c[n]))
    BY <2>2, <2>4, <2>5, <2>6, MoveChainRelinks
  <2> QED
    BY <2>7, <2>8
<1>7. T = Nat
  <2> HIDE DEF T
  <2> SUFFICES T \subseteq Nat
    BY <1>5, <1>6, NatSetInduction
  <2> QED
    BY DEF T
<1>8. Relinked(s0, emptied[n0], Done(n0))
  <2> HIDE DEF Done
  <2>1. n0 \in T /\ n0 <= n0
    <3> HIDE DEF T
    <3> QED
      BY <1>0, <1>7
  <2> QED
    BY <2>1
<1>9. Done(n0) = M
  BY <1>0, <1>3
<1> HIDE DEF Done
<1> QED
  BY <1>2, <1>8, <1>9

\* What a doubling leaves alone: the application order and the hash values.
SameOrder(s, m) ==
    /\ \A k \in Keys : /\ m.handles[k].hashv = s.handles[k].hashv
                       /\ m.handles[k].prev = s.handles[k].prev
                       /\ m.handles[k].next = s.handles[k].next
    /\ m.table.num_items = s.table.num_items
    /\ m.table.tail = s.table.tail

PowerOfTwo(s) == s.table.num_buckets = 2 ^ s.table.log2_num_buckets

\* ChainsAreBounded of a table.
Bounded(s) ==
    ~s.table.noexpand =>
      \A b \in BucketNumbers(s) :
        LET bkt == s.table.buckets[b]
            ideal == s.table.ideal_chain_maxlen
        IN \/ bkt.count < (bkt.expand_mult + 1) * HASH_BKT_CAPACITY_THRESH
           \/ bkt.count <= ideal
           \/ bkt.count <= bkt.expand_mult * ideal + 1

\* Where there are records, the ideal length of a chain is not zero.
LEMMA IdealIsPositive ==
    ASSUME NEW a \in Nat, a >= 1, NEW n \in Nat \ {0}
    PROVE  /\ a \div n \in Nat
           /\ a \div n + (IF a % n # 0 THEN 1 ELSE 0) \in Nat
           /\ a \div n + (IF a % n # 0 THEN 1 ELSE 0) >= 1
<1>1. a \div n \in Nat /\ a % n \in Nat /\ a = n * (a \div n) + (a % n)
  OBVIOUS
<1>2. CASE a % n # 0
  BY <1>1, <1>2
<1>3. CASE a % n = 0
  <2>1. a \div n # 0
    <3> SUFFICES ASSUME a \div n = 0 PROVE FALSE
      OBVIOUS
    <3>1. n * (a \div n) = 0
      OBVIOUS
    <3> QED
      BY <1>1, <1>3, <3>1
  <2> QED
    BY <1>1, <1>3, <2>1
<1> QED
  BY <1>2, <1>3

\* The new array of HASH_EXPAND_BUCKETS before its records are relinked.
LEMMA DoubledFields ==
    ASSUME NEW t \in Table, t.num_buckets = 2 ^ t.log2_num_buckets, t.num_items >= 1
    PROVE  LET d == Doubled(t)
               n == 2 * t.num_buckets
           IN /\ d \in Table /\ n \in Nat \ {0}
              /\ d.num_buckets = n /\ d.buckets = NoBuckets(n)
              /\ NoBuckets(n) \in [0 .. n - 1 -> Bucket]
              /\ d.log2_num_buckets = t.log2_num_buckets + 1
              /\ d.num_buckets = 2 ^ d.log2_num_buckets
              /\ d.ideal_chain_maxlen >= 1
              /\ d.num_items = t.num_items /\ d.tail = t.tail
              /\ d.ineff_expands = t.ineff_expands /\ d.noexpand = t.noexpand
<1> DEFINE n == 2 * t.num_buckets
           ideal == t.num_items \div 2 ^ (t.log2_num_buckets + 1)
                      + IF t.num_items % n # 0 THEN 1 ELSE 0
           a == NoBuckets(n)
           l == t.log2_num_buckets + 1
<1>1. /\ t \in [buckets : BucketArray, num_buckets : Nat, log2_num_buckets : Nat,
                num_items : Nat, tail : Link, ideal_chain_maxlen : Nat,
                nonideal_items : Nat, ineff_expands : Nat, noexpand : BOOLEAN]
      /\ t.log2_num_buckets \in Nat /\ t.num_items \in Nat
  BY DEF Table
<1>2. n \in Nat \ {0} /\ 2 ^ (t.log2_num_buckets + 1) = n /\ l \in Nat
  <2>1. /\ 2 ^ t.log2_num_buckets \in Nat \ {0}
        /\ 2 ^ (t.log2_num_buckets + 1) = 2 * 2 ^ t.log2_num_buckets
    BY <1>1, TwoTo
  <2> QED
    BY <1>1, <2>1
<1>3. ideal \in Nat /\ ideal >= 1
  <2>1. ideal = t.num_items \div n + IF t.num_items % n # 0 THEN 1 ELSE 0
    BY <1>2
  <2> HIDE DEF n, ideal
  <2>2. /\ t.num_items \div n + (IF t.num_items % n # 0 THEN 1 ELSE 0) \in Nat
        /\ t.num_items \div n + (IF t.num_items % n # 0 THEN 1 ELSE 0) >= 1
    BY <1>1, <1>2, IdealIsPositive
  <2> QED
    BY <2>1, <2>2
<1>4. a \in [0 .. n - 1 -> Bucket]
  <2>1. EmptyBucket \in Bucket
    BY KeysAreNumbers DEF EmptyBucket, Bucket
  <2> QED
    BY <2>1 DEF NoBuckets
<1>5. Doubled(t) = [t EXCEPT !.buckets = a, !.num_buckets = n,
                             !.log2_num_buckets = @ + 1, !.nonideal_items = 0,
                             !.ideal_chain_maxlen = ideal]
  BY DEF Doubled
<1> HIDE DEF n, ideal, a
<1>6. a \in BucketArray
  BY <1>2, <1>4, IsBucketArray
<1> DEFINE t1 == [t EXCEPT !.buckets = a]
           t2 == [t1 EXCEPT !.num_buckets = n]
           t3 == [t2 EXCEPT !.log2_num_buckets = l]
           t4 == [t3 EXCEPT !.nonideal_items = 0]
           t5 == [t4 EXCEPT !.ideal_chain_maxlen = ideal]
<1>7. /\ t1 \in Table /\ t1.buckets = a
      /\ t1.log2_num_buckets = t.log2_num_buckets
      /\ t1.num_items = t.num_items /\ t1.tail = t.tail
      /\ t1.ineff_expands = t.ineff_expands /\ t1.noexpand = t.noexpand
  BY <1>1, <1>6 DEF Table
<1>8. /\ t2 \in Table /\ t2.buckets = a /\ t2.num_buckets = n
      /\ t2.log2_num_buckets = t.log2_num_buckets
      /\ t2.num_items = t.num_items /\ t2.tail = t.tail
      /\ t2.ineff_expands = t.ineff_expands /\ t2.noexpand = t.noexpand
  <2> HIDE DEF t1
  <2> QED
    BY <1>2, <1>7 DEF Table
<1>9. /\ t3 \in Table /\ t3.buckets = a /\ t3.num_buckets = n
      /\ t3.log2_num_buckets = l
      /\ t3.num_items = t.num_items /\ t3.tail = t.tail
      /\ t3.ineff_expands = t.ineff_expands /\ t3.noexpand = t.noexpand
  <2> HIDE DEF t2, l
  <2> QED
    BY <1>2, <1>8 DEF Table
<1>10. /\ t4 \in Table /\ t4.buckets = a /\ t4.num_buckets = n
       /\ t4.log2_num_buckets = l
       /\ t4.num_items = t.num_items /\ t4.tail = t.tail
       /\ t4.ineff_expands = t.ineff_expands /\ t4.noexpand = t.noexpand
  <2> HIDE DEF t3, l
  <2> QED
    BY <1>9 DEF Table
<1>11. /\ t5 \in Table /\ t5.buckets = a /\ t5.num_buckets = n
       /\ t5.log2_num_buckets = l /\ t5.ideal_chain_maxlen = ideal
       /\ t5.num_items = t.num_items /\ t5.tail = t.tail
       /\ t5.ineff_expands = t.ineff_expands /\ t5.noexpand = t.noexpand
  <2> HIDE DEF t4, l
  <2> QED
    BY <1>3, <1>10 DEF Table
<1>12. Doubled(t) = t5
  <2>1. t2.log2_num_buckets + 1 = l
    BY <1>8
  <2> QED
    BY <1>5, <2>1
<1> HIDE DEF t5
<1> QED
  BY <1>2, <1>3, <1>4, <1>11, <1>12 DEF a, n

\* An array without records has its chains, all empty.
LEMMA NoBucketsChained ==
    ASSUME NEW s, Typed(s), s.table.buckets = NoBuckets(s.table.num_buckets)
    PROVE  /\ Chained(s, [b \in BucketNumbers(s) |-> <<>>], {})
           /\ Tight(s)
<1> DEFINE c == [b \in BucketNumbers(s) |-> <<>>]
<1>1. \A b \in BucketNumbers(s) : s.table.buckets[b] = EmptyBucket
  BY DEF NoBuckets, BucketNumbers
<1>2. ASSUME NEW first, first = NULL, NEW next, NEW prev
      PROVE  TwoWay(<<>>, first, next, prev)
  BY <1>2 DEF TwoWay, OneWay, WayBack, NoRepeats
<1>3. Len(<<>>) = 0 /\ Range(<<>>) = {}
  BY DEF Range
<1>4. EmptyBucket.hh_head = NULL /\ EmptyBucket.count = 0 /\ EmptyBucket.expand_mult = 0
  BY DEF EmptyBucket
<1>5. \A b \in BucketNumbers(s) :
        /\ TwoWay(c[b], s.table.buckets[b].hh_head, HhNextOf(s.handles), HhPrevOf(s.handles))
        /\ s.table.buckets[b].count = Len(c[b])
        /\ \A k \in Range(c[b]) : BktOf(s, k) = b
  BY <1>1, <1>2, <1>3, <1>4
<1>6. \A k \in Keys : k \notin Range(c[BktOf(s, k)])
  BY <1>3, BktIsBucket
<1>7. Chained(s, c, {})
  BY <1>5, <1>6 DEF Chained
<1>8. s.table.ideal_chain_maxlen \in Nat
  BY DEF Typed, Table
<1>9. Tight(s)
  BY <1>1, <1>4, <1>8 DEF Tight
<1> QED
  BY <1>7, <1>9

\* HASH_EXPAND_BUCKETS: the same records are in the new chains, no chain is longer
\* than the doubling allows, and the application order is what it was.
LEMMA ExpandKeeps ==
    ASSUME NEW s, NEW c, NEW M, Chained(s, c, M), PowerOfTwo(s), s.table.num_items >= 1
    PROVE  /\ \E d : Chained(Expand(s), d, M)
           /\ SameOrder(s, Expand(s)) /\ PowerOfTwo(Expand(s)) /\ Bounded(Expand(s))
<1> DEFINE s0 == [table |-> Doubled(s.table), handles |-> s.handles]
           m == MoveAll(s0, s)
           ineff == IF m.table.nonideal_items > s.table.num_items \div 2
                    THEN s.table.ineff_expands + 1 ELSE 0
           u == [m.table EXCEPT !.ineff_expands = ineff]
           flag == m.table.noexpand \/ ineff > 1
           v == [u EXCEPT !.noexpand = flag]
           r == [m EXCEPT !.table = v]
           t == s.table
           n == 2 * t.num_buckets
<1>1. /\ Typed(s) /\ t \in Table /\ s.handles \in [Keys -> Handle]
      /\ t.ineff_expands \in Nat
  BY DEF Chained, Typed, Table
<1>2. /\ Doubled(t) \in Table /\ n \in Nat \ {0}
      /\ Doubled(t).num_buckets = n /\ Doubled(t).buckets = NoBuckets(n)
      /\ NoBuckets(n) \in [0 .. n - 1 -> Bucket]
      /\ Doubled(t).num_buckets = 2 ^ Doubled(t).log2_num_buckets
      /\ Doubled(t).ideal_chain_maxlen >= 1
      /\ Doubled(t).num_items = t.num_items /\ Doubled(t).tail = t.tail
  BY <1>1, DoubledFields DEF PowerOfTwo
<1>3. s0.table = Doubled(t) /\ s0.handles = s.handles
  OBVIOUS
<1>4. s0 \in [table : Table, handles : [Keys -> Handle]]
  BY <1>1, <1>2
<1> HIDE DEF s0, n
<1>5. Typed(s0) /\ s0.table.buckets = NoBuckets(s0.table.num_buckets)
  BY <1>2, <1>3, <1>4 DEF Typed
<1>6. Relinked(s0, s0, {})
  <2>1. Frame(s0, s0)
    BY DEF Frame
  <2>2. s0.table.ideal_chain_maxlen >= 1
    BY <1>2, <1>3
  <2> QED
    BY <1>5, <2>1, <2>2, NoBucketsChained DEF Relinked
<1>7. Relinked(s0, m, M)
  BY <1>6, MoveAllRelinks
<1>8. PICK d : Chained(m, d, M)
  BY <1>7 DEF Relinked
<1>9. Expand(s) = r
  <2>1. m \in [table : Table, handles : [Keys -> Handle]] /\ m.table \in Table
    BY <1>8 DEF Chained, Typed
  <2>2. Expand(s) = [m EXCEPT !.table.ineff_expands = ineff,
                              !.table.noexpand = @ \/ ineff > 1]
    BY DEF Expand, s0
  <2> HIDE DEF m, ineff
  <2>3. [m EXCEPT !.table.ineff_expands = ineff].table.noexpand = m.table.noexpand
    BY <2>1 DEF Table
  <2>4. Expand(s) = [m EXCEPT !.table.ineff_expands = ineff, !.table.noexpand = flag]
    BY <2>2, <2>3
  <2> HIDE DEF flag
  <2> DEFINE x == [m EXCEPT !.table = u]
  <2>5. Expand(s) = [x EXCEPT !.table.noexpand = flag]
    BY <2>4
  <2>6. x.table = u
    BY <2>1
  <2> HIDE DEF u
  <2>7. [x EXCEPT !.table.noexpand = flag] = [x EXCEPT !.table = v]
    BY <2>6
  <2>8. [x EXCEPT !.table = v] = r
    BY <2>1
  <2> QED
    BY <2>5, <2>7, <2>8
<1>10. ineff \in Nat /\ flag \in BOOLEAN
  <2>1. m.table.noexpand \in BOOLEAN
    BY <1>8 DEF Chained, Typed, Table
  <2> QED
    BY <1>1, <2>1
<1> HIDE DEF m, ineff, flag
<1>11. /\ m \in [table : Table, handles : [Keys -> Handle]]
       /\ m.table \in [buckets : BucketArray, num_buckets : Nat, log2_num_buckets : Nat,
                       num_items : Nat, tail : Link, ideal_chain_maxlen : Nat,
                       nonideal_items : Nat, ineff_expands : Nat, noexpand : BOOLEAN]
  BY <1>8 DEF Chained, Typed, Table
<1>12. /\ u \in [buckets : BucketArray, num_buckets : Nat, log2_num_buckets : Nat,
                 num_items : Nat, tail : Link, ideal_chain_maxlen : Nat,
                 nonideal_items : Nat, ineff_expands : Nat, noexpand : BOOLEAN]
       /\ u.buckets = m.table.buckets /\ u.num_buckets = m.table.num_buckets
       /\ u.log2_num_buckets = m.table.log2_num_buckets
       /\ u.num_items = m.table.num_items /\ u.tail = m.table.tail
       /\ u.ideal_chain_maxlen = m.table.ideal_chain_maxlen
  BY <1>10, <1>11
<1> HIDE DEF u
<1>13. /\ v \in Table
       /\ v.buckets = u.buckets /\ v.num_buckets = u.num_buckets
       /\ v.log2_num_buckets = u.log2_num_buckets
       /\ v.num_items = u.num_items /\ v.tail = u.tail
       /\ v.ideal_chain_maxlen = u.ideal_chain_maxlen
  BY <1>10, <1>12 DEF Table
<1> HIDE DEF v
<1>14. /\ r \in [table : Table, handles : [Keys -> Handle]]
       /\ r.table = v /\ r.handles = m.handles
  BY <1>11, <1>13
<1> HIDE DEF r
<1>15. Typed(r)
  BY <1>8, <1>12, <1>13, <1>14 DEF Chained, Typed
<1>16. BucketNumbers(r) = BucketNumbers(m) /\ \A k \in Keys : BktOf(r, k) = BktOf(m, k)
  BY <1>12, <1>13, <1>14 DEF BucketNumbers, BktOf
<1>17. Chained(r, d, M)
  <2>1. \A b \in BucketNumbers(m) : \A k \in Range(d[b]) : k \in Keys
    BY <1>8, RecordsOfChain, RangeOfList
  <2> QED
    BY <1>8, <1>12, <1>13, <1>14, <1>15, <1>16, <2>1 DEF Chained
<1>18. Frame(s0, m) /\ Tight(m)
  BY <1>7 DEF Relinked
<1>19. SameOrder(s, r)
  BY <1>2, <1>3, <1>12, <1>13, <1>14, <1>18 DEF SameOrder, Frame
<1>20. PowerOfTwo(r)
  BY <1>2, <1>3, <1>12, <1>13, <1>14, <1>18 DEF PowerOfTwo, Frame
<1>21. Bounded(r)
  BY <1>12, <1>13, <1>14, <1>16, <1>18 DEF Bounded, Tight
<1> QED
  BY <1>9, <1>17, <1>19, <1>20, <1>21

\* HASH_ADD_TO_BKT, with the doubling it may end with: the record is in the chain of
\* its bucket, and every other is still in its own.
LEMMA AddToBktKeeps ==
    ASSUME NEW s, NEW c, NEW M, Chained(s, c, M), NEW k \in Keys, k \notin M,
           PowerOfTwo(s), Bounded(s), s.table.num_items >= 1
    PROVE  /\ \E d : Chained(AddToBkt(s, k), d, M \cup {k})
           /\ SameOrder(s, AddToBkt(s, k))
           /\ PowerOfTwo(AddToBkt(s, k)) /\ Bounded(AddToBkt(s, k))
<1> DEFINE m == PushOnChain(s, k)
           b == BktOf(s, k)
           bkt == m.table.buckets[b]
<1>1. Typed(s) /\ b \in BucketNumbers(s) /\ s.table.buckets[b].hh_head # k
  BY HeadIsInChain, BktIsBucket DEF Chained
<1>2. /\ Typed(m) /\ Frame(s, m)
      /\ \A a \in BucketNumbers(s) \ {b} : m.table.buckets[a] = s.table.buckets[a]
  BY <1>1, PushFields
<1>3. PICK d : Chained(m, d, M \cup {k})
  BY PushKeepsChains
<1>4. SameOrder(s, m) /\ PowerOfTwo(m) /\ m.table.num_items >= 1
  BY <1>2 DEF SameOrder, Frame, PowerOfTwo
<1>5. CASE bkt.count >= (bkt.expand_mult + 1) * HASH_BKT_CAPACITY_THRESH /\ ~m.table.noexpand
  <2>1. AddToBkt(s, k) = Expand(m)
    BY <1>5 DEF AddToBkt
  <2>2. /\ \E e : Chained(Expand(m), e, M \cup {k})
        /\ SameOrder(m, Expand(m)) /\ PowerOfTwo(Expand(m)) /\ Bounded(Expand(m))
    BY <1>3, <1>4, ExpandKeeps
  <2>3. SameOrder(s, Expand(m))
    BY <1>4, <2>2 DEF SameOrder
  <2> QED
    BY <2>1, <2>2, <2>3
<1>6. CASE ~(bkt.count >= (bkt.expand_mult + 1) * HASH_BKT_CAPACITY_THRESH /\ ~m.table.noexpand)
  <2>1. AddToBkt(s, k) = m
    BY <1>6 DEF AddToBkt
  <2>2. Bounded(m)
    <3>1. BucketNumbers(m) = BucketNumbers(s)
      BY <1>2 DEF Frame, BucketNumbers
    <3>2. /\ m.table.noexpand = s.table.noexpand
          /\ m.table.ideal_chain_maxlen = s.table.ideal_chain_maxlen
      BY <1>2 DEF Frame
    <3>3. bkt \in Bucket
      BY <1>1, <1>2, <3>1 DEF Typed, BucketNumbers
    <3>4. /\ bkt.count \in Nat
          /\ (bkt.expand_mult + 1) * HASH_BKT_CAPACITY_THRESH \in Nat
      BY <3>3, TableAssumption DEF Bucket
    <3>5. ~m.table.noexpand => bkt.count < (bkt.expand_mult + 1) * HASH_BKT_CAPACITY_THRESH
      <4> HIDE DEF m, bkt
      <4> DEFINE p == (bkt.expand_mult + 1) * HASH_BKT_CAPACITY_THRESH
      <4>1. p \in Nat /\ (~m.table.noexpand => ~(bkt.count >= p))
        BY <1>6, <3>4
      <4> HIDE DEF p
      <4>2. ~m.table.noexpand => bkt.count < p
        BY <3>4, <4>1
      <4> QED
        BY <4>2 DEF p
    <3> SUFFICES ASSUME ~m.table.noexpand, NEW a \in BucketNumbers(s)
                 PROVE  \/ m.table.buckets[a].count
                             < (m.table.buckets[a].expand_mult + 1) * HASH_BKT_CAPACITY_THRESH
                        \/ m.table.buckets[a].count <= m.table.ideal_chain_maxlen
                        \/ m.table.buckets[a].count
                             <= m.table.buckets[a].expand_mult * m.table.ideal_chain_maxlen + 1
      <4> HIDE DEF m
      <4> QED
        BY <3>1 DEF Bounded
    <3>6. CASE a = b
      BY <3>5, <3>6
    <3>7. CASE a # b
      <4>1. m.table.buckets[a] = s.table.buckets[a]
        BY <1>2, <3>7
      <4> HIDE DEF m
      <4> QED
        BY <3>2, <4>1 DEF Bounded
    <3> QED
      BY <3>6, <3>7
  <2> QED
    BY <1>3, <1>4, <2>1, <2>2
<1> QED
  BY <1>5, <1>6

\* What HASH_DEL_IN_BKT changes, and the free that follows it.
Deleted(s, k) ==
    [table |-> DelInBkt(s, k).table,
     handles |-> [DelInBkt(s, k).handles EXCEPT ![k] = Unlinked]]

\* The fields of the handles and of the bucket after HASH_DEL_IN_BKT.
LEMMA DelFields ==
    ASSUME NEW s, Typed(s), NEW k \in Keys,
           s.table.buckets[BktOf(s, k)].count >= 1,
           s.handles[k].hh_prev \in Keys => s.handles[k].hh_prev # s.handles[k].hh_next
    PROVE  LET r == Deleted(s, k)
               b == BktOf(s, k)
               before == s.handles[k].hh_prev
               after == s.handles[k].hh_next
               first == s.table.buckets[b].hh_head
           IN /\ Typed(r)
              /\ r.table.num_buckets = s.table.num_buckets
              /\ r.table.log2_num_buckets = s.table.log2_num_buckets
              /\ r.table.num_items = s.table.num_items
              /\ r.table.tail = s.table.tail
              /\ r.table.ideal_chain_maxlen = s.table.ideal_chain_maxlen
              /\ r.table.noexpand = s.table.noexpand
              /\ r.table.buckets[b].hh_head = IF first = k THEN after ELSE first
              /\ r.table.buckets[b].count = s.table.buckets[b].count - 1
              /\ r.table.buckets[b].expand_mult = s.table.buckets[b].expand_mult
              /\ \A a \in BucketNumbers(s) \ {b} : r.table.buckets[a] = s.table.buckets[a]
              /\ r.handles[k] = Unlinked
              /\ \A j \in Keys \ {k} :
                   /\ r.handles[j].hashv = s.handles[j].hashv
                   /\ r.handles[j].prev = s.handles[j].prev
                   /\ r.handles[j].next = s.handles[j].next
                   /\ r.handles[j].hh_next = IF j = before THEN after ELSE s.handles[j].hh_next
                   /\ r.handles[j].hh_prev = IF j = after THEN before ELSE s.handles[j].hh_prev
<1> DEFINE b == BktOf(s, k)
           t == s.table
           n == t.num_buckets
           first == t.buckets[b].hh_head
           before == s.handles[k].hh_prev
           after == s.handles[k].hh_next
           head2 == IF first = k THEN after ELSE first
           bkt1 == [t.buckets[b] EXCEPT !.count = @ - 1]
           bkt == [bkt1 EXCEPT !.hh_head = head2]
           array == [t.buckets EXCEPT ![b] = bkt]
           u == [t EXCEPT !.buckets = array]
           h == [j \in Keys |->
                   CASE j = before -> [s.handles[j] EXCEPT !.hh_next = after]
                     [] j = after -> [s.handles[j] EXCEPT !.hh_prev = before]
                     [] OTHER -> s.handles[j]]
           r == Deleted(s, k)
<1>1. /\ t \in [buckets : BucketArray, num_buckets : Nat, log2_num_buckets : Nat,
                num_items : Nat, tail : Link, ideal_chain_maxlen : Nat,
                nonideal_items : Nat, ineff_expands : Nat, noexpand : BOOLEAN]
      /\ n \in Nat \ {0} /\ t.buckets \in [0 .. n - 1 -> Bucket]
      /\ s.handles \in [Keys -> Handle]
  BY DEF Typed, Table
<1>2. b \in 0 .. n - 1
  BY BktIsBucket DEF BucketNumbers
<1>3. t.buckets[b] \in [hh_head : Link, count : Nat, expand_mult : Nat]
  BY <1>1, <1>2 DEF Bucket
<1>4. first \in Link /\ t.buckets[b].count \in Nat /\ t.buckets[b].count >= 1
  BY <1>3
<1>5. before \in Link /\ after \in Link /\ (before \in Keys => before # after)
  <2>1. s.handles[k] \in [hashv : HashValues \cup {0}, prev : Link, next : Link,
                          hh_prev : Link, hh_next : Link]
    BY <1>1 DEF Handle
  <2>2. s.handles[k].hh_prev \in Link /\ s.handles[k].hh_next \in Link
    BY <2>1
  <2> QED
    BY <2>2
<1>6. head2 \in Link
  BY <1>4, <1>5
<1>7. DelInBkt(s, k).table = u
  <2> DEFINE w == [t EXCEPT !.buckets = [t.buckets EXCEPT ![b] = bkt1]]
             x == w.buckets[b].hh_head
  <2>1. DelInBkt(s, k).table = [w EXCEPT !.buckets[b].hh_head = IF x = k THEN after ELSE x]
    BY DEF DelInBkt
  <2>2. w.buckets = [t.buckets EXCEPT ![b] = bkt1]
    BY <1>1
  <2>3. w.buckets[b] = bkt1
    <3> HIDE DEF w
    <3> QED
      BY <1>1, <1>2, <2>2
  <2>4. w.buckets[b].hh_head = first
    <3>1. bkt1.hh_head = first
      BY <1>3
    <3> HIDE DEF w, bkt1, first
    <3> QED
      BY <2>3, <3>1
  <2>5. DelInBkt(s, k).table = [w EXCEPT !.buckets[b].hh_head = head2]
    <3> HIDE DEF bkt1, first, after, w, b
    <3> QED
      BY <2>1, <2>4
  <2>6. [w EXCEPT !.buckets[b].hh_head = head2] = [w EXCEPT !.buckets = array]
    <3> HIDE DEF bkt1, head2
    <3>1. [w.buckets EXCEPT ![b] = [w.buckets[b] EXCEPT !.hh_head = head2]] = array
      <4> HIDE DEF w
      <4> QED
        BY <1>1, <1>2, <2>2, <2>3
    <3> HIDE DEF w, array
    <3> QED
      BY <3>1
  <2>7. [w EXCEPT !.buckets = array] = u
    <3> HIDE DEF array, bkt1
    <3> QED
      BY <1>1
  <2> QED
    BY <2>5, <2>6, <2>7
<1>8. DelInBkt(s, k).handles = h
  BY DEF DelInBkt
<1>9. r = [table |-> u, handles |-> [h EXCEPT ![k] = Unlinked]]
  <2> HIDE DEF u, h
  <2> QED
    BY <1>7, <1>8 DEF Deleted
<1> HIDE DEF b, t, n, first, before, after, r, head2
<1>10. /\ bkt1 \in [hh_head : Link, count : Nat, expand_mult : Nat]
       /\ bkt1.count = t.buckets[b].count - 1
       /\ bkt1.expand_mult = t.buckets[b].expand_mult
  <2> DEFINE w == t.buckets[b]
  <2>1. w \in [hh_head : Link, count : Nat, expand_mult : Nat] /\ w.count - 1 \in Nat
    BY <1>3, <1>4
  <2> HIDE DEF w
  <2>2. LET x == [w EXCEPT !.count = @ - 1]
        IN /\ x \in [hh_head : Link, count : Nat, expand_mult : Nat]
           /\ x.count = w.count - 1 /\ x.expand_mult = w.expand_mult
    BY <2>1
  <2> QED
    BY <2>2 DEF w
<1> HIDE DEF bkt1
<1>11. /\ bkt \in Bucket /\ bkt.hh_head = head2 /\ bkt.count = bkt1.count
       /\ bkt.expand_mult = bkt1.expand_mult
  BY <1>6, <1>10 DEF Bucket
<1> HIDE DEF bkt
<1>12. /\ array \in [0 .. n - 1 -> Bucket] /\ array[b] = bkt
       /\ \A a \in 0 .. n - 1 : a # b => array[a] = t.buckets[a]
  BY <1>1, <1>2, <1>11
<1>13. array \in BucketArray
  BY <1>1, <1>12, IsBucketArray
<1> HIDE DEF array
<1>14. /\ u \in Table /\ u.buckets = array
       /\ u.num_buckets = t.num_buckets /\ u.log2_num_buckets = t.log2_num_buckets
       /\ u.num_items = t.num_items /\ u.tail = t.tail
       /\ u.ideal_chain_maxlen = t.ideal_chain_maxlen
       /\ u.noexpand = t.noexpand
  BY <1>1, <1>13 DEF Table
<1> HIDE DEF u
<1>15. ASSUME NEW j \in Keys
       PROVE  /\ h[j] \in Handle
              /\ h[j].hashv = s.handles[j].hashv
              /\ h[j].prev = s.handles[j].prev /\ h[j].next = s.handles[j].next
              /\ h[j].hh_next = IF j = before THEN after ELSE s.handles[j].hh_next
              /\ h[j].hh_prev = IF j = after THEN before ELSE s.handles[j].hh_prev
  <2> DEFINE x == s.handles[j]
             y == [x EXCEPT !.hh_next = after]
             z == [x EXCEPT !.hh_prev = before]
  <2>1. x \in [hashv : HashValues \cup {0}, prev : Link, next : Link,
               hh_prev : Link, hh_next : Link]
    BY <1>1 DEF Handle
  <2>2. h[j] = CASE j = before -> y [] j = after -> z [] OTHER -> x
    OBVIOUS
  <2> HIDE DEF x, h
  <2>3. CASE j = before
    <3>1. j # after
      BY <1>5, <2>3
    <3>2. h[j] = y
      <4> HIDE DEF y, z
      <4> QED
        BY <2>2, <2>3, <3>1
    <3> HIDE DEF z
    <3> QED
      BY <1>5, <2>1, <2>3, <3>1, <3>2 DEF x, Handle
  <2>4. CASE j # before /\ j = after
    <3>1. h[j] = z
      <4> HIDE DEF y, z
      <4> QED
        BY <2>2, <2>4
    <3> HIDE DEF y
    <3> QED
      BY <1>5, <2>1, <2>4, <3>1 DEF x, Handle
  <2>5. CASE j # before /\ j # after
    <3>1. h[j] = x
      <4> HIDE DEF y, z
      <4> QED
        BY <2>2, <2>5
    <3> HIDE DEF y, z
    <3> QED
      BY <2>1, <2>5, <3>1 DEF x, Handle
  <2> QED
    BY <2>3, <2>4, <2>5
<1>16. DOMAIN h = Keys
  OBVIOUS
<1> HIDE DEF h
<1> DEFINE g == [h EXCEPT ![k] = Unlinked]
<1>17. /\ g \in [Keys -> Handle] /\ g[k] = Unlinked
       /\ \A j \in Keys \ {k} : g[j] = h[j]
  <2>1. h \in [Keys -> Handle]
    <3>1. h = [j \in Keys |-> h[j]]
      BY <1>16 DEF h
    <3> QED
      BY <1>15, <3>1
  <2>2. Unlinked \in Handle
    BY KeysAreNumbers DEF Unlinked, Handle
  <2> QED
    BY <2>1, <2>2
<1> HIDE DEF g
<1>18. /\ r \in [table : Table, handles : [Keys -> Handle]]
       /\ r.table = u /\ r.handles = g
  BY <1>9, <1>14, <1>17 DEF g
<1>19. Typed(r)
  BY <1>1, <1>12, <1>14, <1>18 DEF Typed, n
<1>20. /\ r.table.buckets[b].hh_head = head2
       /\ r.table.buckets[b].count = t.buckets[b].count - 1
       /\ r.table.buckets[b].expand_mult = t.buckets[b].expand_mult
       /\ \A a \in BucketNumbers(s) \ {b} : r.table.buckets[a] = t.buckets[a]
  BY <1>10, <1>11, <1>12, <1>14, <1>18 DEF BucketNumbers, n, t
<1>21. r.handles[k] = Unlinked /\ \A j \in Keys \ {k} : r.handles[j] = h[j]
  BY <1>17, <1>18
<1> QED
  BY <1>14, <1>15, <1>18, <1>19, <1>20, <1>21 DEF r, b, t, first, before, after, head2

\* The two neighbours of a record are records of its list, or NULL, and differ.
LEMMA Neighbours ==
    ASSUME NEW s, NEW first, NEW next, NEW prev, TwoWay(s, first, next, prev),
           NEW i \in 1 .. Len(s)
    PROVE  /\ next[s[i]] \in Range(s) \cup {NULL}
           /\ prev[s[i]] \in Range(s) \cup {NULL}
           /\ prev[s[i]] \in Keys => prev[s[i]] # next[s[i]]
           /\ next[s[i]] # s[i] /\ prev[s[i]] # s[i]
           /\ (prev[s[i]] = NULL) = (i = 1) /\ (next[s[i]] = NULL) = (i = Len(s))
<1>1. s \in Seq(Keys) /\ Len(s) \in Nat /\ i \in Nat /\ i >= 1 /\ i <= Len(s)
  BY DEF TwoWay, OneWay
<1>2. \A j \in 1 .. Len(s) : s[j] \in Range(s) /\ s[j] \in Keys /\ s[j] # NULL
  BY <1>1, RangeOfList, KeysAreNumbers
<1>3. \A a, b \in 1 .. Len(s) : s[a] = s[b] => a = b
  BY DEF TwoWay, OneWay, NoRepeats
<1>4. next[s[i]] = IF i = Len(s) THEN NULL ELSE s[i + 1]
  BY DEF TwoWay, OneWay
<1>5. prev[s[i]] = IF i = 1 THEN NULL ELSE s[i - 1]
  BY DEF TwoWay, WayBack
<1>6. i # Len(s) => i + 1 \in 1 .. Len(s)
  BY <1>1
<1>7. i # 1 => i - 1 \in 1 .. Len(s)
  BY <1>1
<1>8. i # i + 1 /\ i # i - 1 /\ i - 1 # i + 1
  BY <1>1
<1>9. NULL \notin Keys
  BY KeysAreNumbers
<1>10. CASE i # Len(s)
  <2>1. next[s[i]] = s[i + 1] /\ s[i + 1] \in Range(s) /\ s[i + 1] # NULL /\ s[i + 1] # s[i]
    BY <1>2, <1>3, <1>4, <1>6, <1>8, <1>10
  <2>2. CASE i # 1
    <3>1. /\ prev[s[i]] = s[i - 1] /\ s[i - 1] \in Range(s) /\ s[i - 1] # NULL
          /\ s[i - 1] # s[i] /\ s[i - 1] # s[i + 1]
      BY <1>2, <1>3, <1>5, <1>6, <1>7, <1>8, <1>10, <2>2
    <3> QED
      BY <1>10, <2>1, <2>2, <3>1
  <2>3. CASE i = 1
    BY <1>2, <1>5, <1>9, <1>10, <2>1, <2>3
  <2> QED
    BY <2>2, <2>3
<1>11. CASE i = Len(s)
  <2>1. next[s[i]] = NULL /\ s[i] # NULL
    BY <1>2, <1>4, <1>11
  <2>2. CASE i # 1
    <3>1. /\ prev[s[i]] = s[i - 1] /\ s[i - 1] \in Range(s) /\ s[i - 1] # NULL
          /\ s[i - 1] # s[i]
      BY <1>2, <1>3, <1>5, <1>7, <1>8, <2>2
    <3> QED
      BY <1>11, <2>1, <2>2, <3>1
  <2>3. CASE i = 1
    BY <1>5, <1>9, <1>11, <2>1, <2>3
  <2> QED
    BY <2>2, <2>3
<1> QED
  BY <1>10, <1>11

\* What HASH_DEL_IN_BKT leaves of the table s with the records M: the record is out
\* of its chain, every other is still in its own, in the same application order.
Dropped(r, s, k, M) ==
    /\ \E d : Chained(r, d, M \ {k})
    /\ PowerOfTwo(r) /\ Bounded(r) /\ Typed(r)
    /\ r.table.num_items = s.table.num_items
    /\ r.table.tail = s.table.tail
    /\ r.handles[k] = Unlinked
    /\ \A j \in Keys \ {k} : /\ r.handles[j].prev = s.handles[j].prev
                             /\ r.handles[j].next = s.handles[j].next

\* HASH_DEL_IN_BKT, after which the record is freed.
LEMMA DelKeepsChains ==
    ASSUME NEW s, NEW c, NEW M, Chained(s, c, M), NEW k, k \in M,
           PowerOfTwo(s), Bounded(s)
    PROVE  Dropped(Deleted(s, k), s, k, M)
<1> DEFINE r == Deleted(s, k)
           b == BktOf(s, k)
           before == s.handles[k].hh_prev
           after == s.handles[k].hh_next
           first == s.table.buckets[b].hh_head
           next == HhNextOf(s.handles)
           prev == HhPrevOf(s.handles)
           next2 == HhNextOf(r.handles)
           prev2 == HhPrevOf(r.handles)
<1>1. /\ Typed(s) /\ M \subseteq Keys /\ k \in Keys
      /\ \A a \in BucketNumbers(s) :
           /\ TwoWay(c[a], s.table.buckets[a].hh_head, next, prev)
           /\ s.table.buckets[a].count = Len(c[a])
           /\ \A j \in Range(c[a]) : BktOf(s, j) = a
      /\ \A j \in Keys : j \in M <=> j \in Range(c[BktOf(s, j)])
  BY DEF Chained
<1>2. b \in BucketNumbers(s) /\ k \in Range(c[b])
  BY <1>1, BktIsBucket
<1>3. \A a \in BucketNumbers(s) : c[a] \in Seq(Keys) /\ Range(c[a]) \subseteq Keys
  BY RecordsOfChain, RangeOfList
<1>4. PICK i \in 1 .. Len(c[b]) : c[b][i] = k
  BY <1>2, <1>3, RangeOfList
<1>5. next[k] = after /\ prev[k] = before
  BY <1>1 DEF HhNextOf, HhPrevOf
<1> HIDE DEF b, before, after, first, next, prev
<1>6. TwoWay(c[b], first, next, prev)
  BY <1>1, <1>2 DEF first
<1>7. /\ after \in Range(c[b]) \cup {NULL} /\ before \in Range(c[b]) \cup {NULL}
      /\ before \in Keys => before # after
  BY <1>4, <1>5, <1>6, Neighbours
<1>8. s.table.buckets[b].count >= 1
  <2>1. Len(c[b]) >= 1
    BY <1>4
  <2> QED
    BY <1>1, <1>2, <2>1
<1>9. /\ Typed(r)
      /\ r.table.num_buckets = s.table.num_buckets
      /\ r.table.log2_num_buckets = s.table.log2_num_buckets
      /\ r.table.num_items = s.table.num_items
      /\ r.table.tail = s.table.tail
      /\ r.table.ideal_chain_maxlen = s.table.ideal_chain_maxlen
      /\ r.table.noexpand = s.table.noexpand
      /\ r.table.buckets[b].hh_head = IF first = k THEN after ELSE first
      /\ r.table.buckets[b].count = s.table.buckets[b].count - 1
      /\ r.table.buckets[b].expand_mult = s.table.buckets[b].expand_mult
      /\ \A a \in BucketNumbers(s) \ {b} : r.table.buckets[a] = s.table.buckets[a]
      /\ r.handles[k] = Unlinked
      /\ \A j \in Keys \ {k} :
           /\ r.handles[j].hashv = s.handles[j].hashv
           /\ r.handles[j].prev = s.handles[j].prev
           /\ r.handles[j].next = s.handles[j].next
           /\ r.handles[j].hh_next = IF j = before THEN after ELSE s.handles[j].hh_next
           /\ r.handles[j].hh_prev = IF j = after THEN before ELSE s.handles[j].hh_prev
  BY <1>1, <1>7, <1>8, DelFields DEF b, before, after, first
<1> HIDE DEF r
<1>10. /\ \A j \in Keys \ {k} : next2[j] = IF j = before THEN after ELSE next[j]
       /\ \A j \in Keys \ {k} : prev2[j] = IF j = after THEN before ELSE prev[j]
  BY <1>9 DEF next, prev, HhNextOf, HhPrevOf
<1> HIDE DEF next2, prev2
<1> DEFINE d == [a \in BucketNumbers(s) |-> IF a = b THEN RemoveAt(c[b], i) ELSE c[a]]
<1>11. BucketNumbers(r) = BucketNumbers(s) /\ \A j \in Keys \ {k} : BktOf(r, j) = BktOf(s, j)
  BY <1>9 DEF BucketNumbers, BktOf
<1>12. d[b] = RemoveAt(c[b], i) /\ \A a \in BucketNumbers(s) : a # b => d[a] = c[a]
  BY <1>2
<1> HIDE DEF d
<1>13. ASSUME NEW a \in BucketNumbers(s)
       PROVE  /\ TwoWay(d[a], r.table.buckets[a].hh_head, next2, prev2)
              /\ r.table.buckets[a].count = Len(d[a])
              /\ Range(d[a]) = Range(c[a]) \ {k}
  <2>1. CASE a = b
    <3>1. r.table.buckets[b].hh_head = IF first = k THEN after ELSE first
      BY <1>9
    <3>2. Unlinks(c[b][i], first, next, prev, r.table.buckets[b].hh_head, next2, prev2)
      BY <1>4, <1>5, <1>10, <3>1 DEF Unlinks
    <3>3. /\ TwoWay(RemoveAt(c[b], i), r.table.buckets[b].hh_head, next2, prev2)
          /\ Range(RemoveAt(c[b], i)) = Range(c[b]) \ {c[b][i]}
          /\ Len(RemoveAt(c[b], i)) = Len(c[b]) - 1
      BY <1>4, <1>6, <3>2, ListDrop
    <3>4. s.table.buckets[b].count = Len(c[b])
      BY <1>1, <1>2
    <3> QED
      BY <1>4, <1>5, <1>9, <1>12, <2>1, <3>3, <3>4
  <2>2. CASE a # b
    <3>1. k \notin Range(c[a])
      BY <1>1, <2>2 DEF b
    <3>2. \A j \in Range(c[b]) : j \notin Range(c[a])
      BY <1>1, <1>2, <2>2
    <3>3. before \notin Range(c[a]) /\ after \notin Range(c[a])
      BY <1>3, <1>7, <3>2, KeysAreNumbers
    <3>4. \A n \in 1 .. Len(c[a]) : c[a][n] \in Range(c[a]) /\ c[a][n] \in Keys \ {k}
      BY <1>3, <3>1, RangeOfList
    <3>5. \A n \in 1 .. Len(c[a]) : /\ next2[c[a][n]] = next[c[a][n]]
                                    /\ prev2[c[a][n]] = prev[c[a][n]]
      BY <1>10, <3>3, <3>4
    <3>6. TwoWay(c[a], s.table.buckets[a].hh_head, next2, prev2)
      BY <1>1, <3>5, ListKept
    <3> QED
      BY <1>1, <1>9, <1>12, <2>2, <3>1, <3>6
  <2> QED
    BY <2>1, <2>2
<1>14. ASSUME NEW a \in BucketNumbers(s), NEW j \in Range(d[a]) PROVE BktOf(r, j) = a
  <2>1. j \in Range(c[a]) /\ j # k /\ j \in Keys
    BY <1>3, <1>13
  <2> QED
    BY <1>1, <1>11, <2>1
<1>15. ASSUME NEW j \in Keys PROVE j \in M \ {k} <=> j \in Range(d[BktOf(r, j)])
  <2>1. BktOf(r, j) \in BucketNumbers(s)
    BY <1>9, <1>11, BktIsBucket
  <2>2. j # k => (j \in M <=> j \in Range(c[BktOf(r, j)]))
    BY <1>1, <1>11
  <2> QED
    BY <1>13, <2>1, <2>2
<1>16. Chained(r, d, M \ {k})
  BY <1>1, <1>9, <1>11, <1>13, <1>14, <1>15 DEF Chained, next2, prev2
<1>17. PowerOfTwo(r)
  BY <1>9 DEF PowerOfTwo
<1>18. Bounded(r)
  <2> SUFFICES ASSUME ~s.table.noexpand, NEW a \in BucketNumbers(s)
               PROVE  \/ r.table.buckets[a].count
                           < (r.table.buckets[a].expand_mult + 1) * HASH_BKT_CAPACITY_THRESH
                      \/ r.table.buckets[a].count <= s.table.ideal_chain_maxlen
                      \/ r.table.buckets[a].count
                           <= r.table.buckets[a].expand_mult * s.table.ideal_chain_maxlen + 1
    BY <1>9, <1>11 DEF Bounded
  <2> DEFINE n == s.table.buckets[a].count
             e == s.table.buckets[a].expand_mult
             p == (e + 1) * HASH_BKT_CAPACITY_THRESH
             q == s.table.ideal_chain_maxlen
             o == e * q + 1
  <2>1. n < p \/ n <= q \/ n <= o
    BY DEF Bounded
  <2>2. r.table.buckets[a].count \in {n, n - 1} /\ r.table.buckets[a].expand_mult = e
    BY <1>9
  <2>3. n \in Nat /\ e \in Nat /\ q \in Nat
    <3>1. s.table.buckets[a] \in Bucket /\ s.table \in Table
      BY <1>1 DEF Typed, BucketNumbers
    <3> QED
      BY <3>1 DEF Bucket, Table
  <2>4. p \in Nat /\ o \in Nat
    <3> HIDE DEF e, q
    <3> QED
      BY <2>3, TableAssumption
  <2>5. \A x \in {n, n - 1} : x < p \/ x <= q \/ x <= o
    <3> HIDE DEF n, p, q, o
    <3> QED
      BY <2>1, <2>3, <2>4
  <2> HIDE DEF n, p, o
  <2>6. LET x == r.table.buckets[a].count IN x < p \/ x <= q \/ x <= o
    BY <2>2, <2>5
  <2> QED
    BY <2>2, <2>6 DEF p, o
<1> QED
  BY <1>9, <1>16, <1>17, <1>18 DEF Dropped, r

-----------------------------------------------------------------------------
(* The whole structure, and what HASH_ADD and HASH_DEL make of it. *)

\* The records of s, in application order from first on, each in the chain of its
\* bucket: all there is in table t, and no table when there is no record.
Structure(first, handles, t, s, c) ==
    /\ handles \in [Keys -> Handle]
    /\ TwoWay(s, first, NextOf(handles), PrevOf(handles))
    /\ first = NULL => t = NoTable
    /\ first # NULL => LET st == [table |-> t, handles |-> handles]
                       IN /\ Chained(st, c, Range(s))
                          /\ PowerOfTwo(st) /\ Bounded(st)
                          /\ t.num_items = Len(s) /\ t.tail = s[Len(s)]

\* Where there is a record there is a first one.
LEMMA FirstOfList ==
    ASSUME NEW s, NEW first, NEW next, OneWay(s, first, next)
    PROVE  /\ s \in Seq(Keys) /\ Len(s) \in Nat
           /\ first = NULL <=> s = <<>>
           /\ first = NULL <=> Len(s) = 0
           /\ first # NULL => first = s[1] /\ first \in Range(s) /\ first \in Keys
<1>1. s \in Seq(Keys) /\ Len(s) \in Nat /\ (s = <<>> <=> Len(s) = 0)
  BY DEF OneWay
<1>2. CASE s = <<>>
  BY <1>1, <1>2 DEF OneWay
<1>3. CASE s # <<>>
  <2>1. first = s[1] /\ 1 \in 1 .. Len(s)
    BY <1>1, <1>3 DEF OneWay
  <2>2. s[1] \in Range(s) /\ s[1] \in Keys
    BY <1>1, <2>1, RangeOfList
  <2> QED
    BY <1>1, <1>3, <2>1, <2>2, KeysAreNumbers
<1> QED
  BY <1>2, <1>3

\* The chains are those that Chain finds, and the list is what Follow finds.
LEMMA StructureIsFound ==
    ASSUME NEW first, NEW handles, NEW t, NEW s, NEW c, Structure(first, handles, t, s, c)
    PROVE  /\ Follow(first, [k \in Keys |-> handles[k].next]) = s
           /\ Structure(first, handles, t, s,
                        [b \in DOMAIN t.buckets |-> Chain(t, handles, b)])
<1> DEFINE st == [table |-> t, handles |-> handles]
           d == [b \in DOMAIN t.buckets |-> Chain(t, handles, b)]
<1>1. Follow(first, [k \in Keys |-> handles[k].next]) = s
  <2>1. OneWay(s, first, NextOf(handles))
    BY DEF Structure, TwoWay
  <2> QED
    BY <2>1, FollowsList DEF NextOf
<1>2. CASE first = NULL
  BY <1>1, <1>2 DEF Structure
<1>3. CASE first # NULL
  <2>1. Chained(st, c, Range(s))
    BY <1>3 DEF Structure
  <2>2. st.table = t /\ st.handles = handles
    OBVIOUS
  <2> HIDE DEF st
  <2>3. DOMAIN t.buckets = BucketNumbers(st)
    BY <2>1, <2>2 DEF Chained, Typed, BucketNumbers
  <2>4. \A b \in BucketNumbers(st) : d[b] = c[b]
    <3>1. \A b \in BucketNumbers(st) : Chain(t, handles, b) = c[b]
      BY <2>1, <2>2, ChainFound
    <3> QED
      BY <2>3, <3>1
  <2> HIDE DEF d
  <2>5. Chained(st, d, Range(s))
    <3>1. \A k \in Keys : BktOf(st, k) \in BucketNumbers(st)
      BY <2>1, BktIsBucket DEF Chained
    <3> QED
      BY <2>1, <2>4, <3>1 DEF Chained
  <2>6. Structure(first, handles, t, s, d)
    BY <1>3, <2>5 DEF Structure, st
  <2> QED
    BY <1>1, <2>6 DEF d
<1> QED
  BY <1>2, <1>3

\* A new table.
LEMMA NewTableFields ==
    ASSUME NEW k \in Keys
    PROVE  LET t == [NewTable(k) EXCEPT !.num_items = 1]
           IN /\ t \in Table /\ t.num_buckets \in Nat \ {0}
              /\ t.num_buckets = 2 ^ t.log2_num_buckets
              /\ t.buckets = NoBuckets(t.num_buckets)
              /\ t.buckets \in [0 .. t.num_buckets - 1 -> Bucket]
              /\ t.num_items = 1 /\ t.tail = k
<1> DEFINE l == HASH_INITIAL_NUM_BUCKETS_LOG2
           n == 2 ^ l
           a == NoBuckets(n)
           t == [NewTable(k) EXCEPT !.num_items = 1]
<1>1. l \in Nat /\ n \in Nat \ {0}
  BY TableAssumption, TwoTo
<1>2. a \in [0 .. n - 1 -> Bucket] /\ n = 2 ^ l /\ a = NoBuckets(n)
  <2>1. EmptyBucket \in Bucket
    BY KeysAreNumbers DEF EmptyBucket, Bucket
  <2> QED
    BY <2>1 DEF NoBuckets
<1>3. t = [[NoTable EXCEPT !.buckets = a, !.num_buckets = n,
                           !.log2_num_buckets = l, !.tail = k] EXCEPT !.num_items = 1]
  BY DEF NewTable
<1> HIDE DEF n, a, l, t
<1>4. a \in BucketArray /\ k \in Link /\ NULL \in Link
  BY <1>1, <1>2, IsBucketArray DEF Link
<1> DEFINE x1 == [NoTable EXCEPT !.buckets = a]
           x2 == [x1 EXCEPT !.num_buckets = n]
           x3 == [x2 EXCEPT !.log2_num_buckets = l]
           x4 == [x3 EXCEPT !.tail = k]
           x5 == [x4 EXCEPT !.num_items = 1]
<1>5. t = x5
  BY <1>3
<1>6. NoTable \in [buckets : {<<>>}, num_buckets : Nat, log2_num_buckets : Nat,
                   num_items : Nat, tail : Link, ideal_chain_maxlen : Nat,
                   nonideal_items : Nat, ineff_expands : Nat, noexpand : BOOLEAN]
  BY <1>4 DEF NoTable
<1>7. x1 \in Table /\ x1.buckets = a
  BY <1>4, <1>6 DEF Table
<1> HIDE DEF x1
<1>8. x2 \in Table /\ x2.buckets = a /\ x2.num_buckets = n
  BY <1>1, <1>7 DEF Table
<1> HIDE DEF x2
<1>9. x3 \in Table /\ x3.buckets = a /\ x3.num_buckets = n /\ x3.log2_num_buckets = l
  BY <1>1, <1>8 DEF Table
<1> HIDE DEF x3
<1>10. /\ x4 \in Table /\ x4.buckets = a /\ x4.num_buckets = n
       /\ x4.log2_num_buckets = l /\ x4.tail = k
  BY <1>4, <1>9 DEF Table
<1> HIDE DEF x4
<1>11. /\ x5 \in Table /\ x5.buckets = a /\ x5.num_buckets = n
       /\ x5.log2_num_buckets = l /\ x5.tail = k /\ x5.num_items = 1
  BY <1>10 DEF Table
<1> HIDE DEF x5
<1> QED
  BY <1>1, <1>2, <1>5, <1>11 DEF t

\* A structure is made of a state whose table and handles are given apart.
LEMMA IsStructure ==
    ASSUME NEW st, NEW c, NEW M, Chained(st, c, M), PowerOfTwo(st), Bounded(st),
           NEW first, NEW s, TwoWay(s, first, NextOf(st.handles), PrevOf(st.handles)),
           first # NULL, M = Range(s),
           st.table.num_items = Len(s), st.table.tail = s[Len(s)]
    PROVE  Structure(first, st.handles, st.table, s, c)
<1> DEFINE r == [table |-> st.table, handles |-> st.handles]
<1>1. r.table = st.table /\ r.handles = st.handles
  OBVIOUS
<1>2. /\ st.table \in Table /\ st.handles \in [Keys -> Handle]
      /\ st.table.num_buckets \in Nat \ {0}
      /\ st.table.buckets \in [0 .. st.table.num_buckets - 1 -> Bucket]
  BY DEF Chained, Typed
<1>3. r \in [table : Table, handles : [Keys -> Handle]]
  BY <1>2
<1> HIDE DEF r
<1>4. Typed(r)
  BY <1>1, <1>2, <1>3 DEF Typed
<1>5. Chained(r, c, M)
  BY <1>1, <1>4, ChainsStay
<1>6. PowerOfTwo(r) /\ Bounded(r)
  BY <1>1 DEF PowerOfTwo, Bounded, BucketNumbers
<1> QED
  BY <1>2, <1>5, <1>6 DEF Structure, r

\* What HASH_ADD gives to HASH_ADD_TO_BKT: the table with one item more, and the
\* record at the end of the application order.
Appended(first, handles, t, k, v) ==
    LET new == [handles EXCEPT ![k] = [Unlinked EXCEPT !.hashv = v]]
    IN IF first = NULL
       THEN [table |-> [NewTable(k) EXCEPT !.num_items = 1], handles |-> new]
       ELSE [table |-> [t EXCEPT !.tail = k, !.num_items = @ + 1],
             handles |-> [new EXCEPT ![k].prev = t.tail, ![t.tail].next = k]]

\* The handle of a record that is not linked yet.
LEMMA NewHandle ==
    ASSUME NEW handles \in [Keys -> Handle], NEW k \in Keys, NEW v \in HashValues
    PROVE  LET new == [handles EXCEPT ![k] = [Unlinked EXCEPT !.hashv = v]]
           IN /\ new \in [Keys -> Handle]
              /\ new[k].prev = NULL /\ new[k].next = NULL
              /\ \A j \in Keys \ {k} : new[j] = handles[j]
<1> DEFINE x == [Unlinked EXCEPT !.hashv = v]
<1>1. Unlinked \in [hashv : HashValues \cup {0}, prev : Link, next : Link,
                    hh_prev : Link, hh_next : Link]
      /\ Unlinked.prev = NULL /\ Unlinked.next = NULL
  BY KeysAreNumbers DEF Unlinked
<1>2. x \in Handle /\ x.prev = NULL /\ x.next = NULL
  BY <1>1 DEF Handle
<1> HIDE DEF x
<1>3. LET new == [handles EXCEPT ![k] = x]
      IN /\ new \in [Keys -> Handle] /\ new[k] = x
         /\ \A j \in Keys \ {k} : new[j] = handles[j]
  BY <1>2
<1> QED
  BY <1>2, <1>3 DEF x

\* HASH_APPEND_LIST behind the last record, old.
LinkedBehind(new, k, old) == [new EXCEPT ![k].prev = old, ![old].next = k]

\* What HASH_APPEND_LIST changes.
LEMMA LinksOfAppended ==
    ASSUME NEW new \in [Keys -> Handle], NEW k \in Keys, NEW old \in Keys, old # k
    PROVE  LET h == LinkedBehind(new, k, old)
           IN /\ h \in [Keys -> Handle]
              /\ h[k].prev = old /\ h[k].next = new[k].next
              /\ h[old].next = k /\ h[old].prev = new[old].prev
              /\ \A j \in Keys \ {k, old} : h[j] = new[j]
              /\ \A j \in Keys : /\ h[j].hashv = new[j].hashv
                                 /\ h[j].hh_next = new[j].hh_next
                                 /\ h[j].hh_prev = new[j].hh_prev
<1> DEFINE x == [new[k] EXCEPT !.prev = old]
           y == [new[old] EXCEPT !.next = k]
           g == [new EXCEPT ![k] = x]
           h == [g EXCEPT ![old] = y]
<1>1. k \in Link /\ old \in Link
  BY DEF Link
<1>2. \A j \in Keys : new[j] \in [hashv : HashValues \cup {0}, prev : Link, next : Link,
                                  hh_prev : Link, hh_next : Link]
  BY DEF Handle
<1>3. /\ x \in Handle /\ x.prev = old /\ x.next = new[k].next
      /\ x.hashv = new[k].hashv
      /\ x.hh_next = new[k].hh_next /\ x.hh_prev = new[k].hh_prev
  BY <1>1, <1>2 DEF Handle
<1>4. /\ y \in Handle /\ y.next = k /\ y.prev = new[old].prev
      /\ y.hashv = new[old].hashv
      /\ y.hh_next = new[old].hh_next /\ y.hh_prev = new[old].hh_prev
  BY <1>1, <1>2 DEF Handle
<1>5. LinkedBehind(new, k, old) = h
  <2>1. g[old] = new[old]
    OBVIOUS
  <2>2. [new EXCEPT ![k].prev = old, ![old].next = k]
          = [g EXCEPT ![old] = [g[old] EXCEPT !.next = k]]
    OBVIOUS
  <2> QED
    BY <2>1, <2>2 DEF LinkedBehind
<1> HIDE DEF x, y
<1>6. /\ g \in [Keys -> Handle] /\ g[k] = x /\ \A j \in Keys \ {k} : g[j] = new[j]
  BY <1>3
<1> HIDE DEF g
<1>7. /\ h \in [Keys -> Handle] /\ h[old] = y /\ \A j \in Keys \ {old} : h[j] = g[j]
  BY <1>4, <1>6
<1> HIDE DEF h
<1>8. h[k] = x /\ \A j \in Keys \ {k, old} : h[j] = new[j]
  BY <1>6, <1>7
<1>9. ASSUME NEW j \in Keys
      PROVE  /\ h[j].hashv = new[j].hashv
             /\ h[j].hh_next = new[j].hh_next
             /\ h[j].hh_prev = new[j].hh_prev
  BY <1>3, <1>4, <1>7, <1>8
<1> QED
  BY <1>3, <1>4, <1>5, <1>7, <1>8, <1>9

\* HASH_APPEND_LIST: the record is the last of the application order, and not yet in
\* a chain.
LEMMA AppendedKeeps ==
    ASSUME NEW first, NEW handles, NEW t, NEW s, NEW c, Structure(first, handles, t, s, c),
           NEW k \in Keys, k \notin Range(s), NEW v \in HashValues
    PROVE  LET st == Appended(first, handles, t, k, v)
           IN /\ \E d : Chained(st, d, Range(s))
              /\ PowerOfTwo(st) /\ Bounded(st)
              /\ st.table.num_items = Len(s) + 1 /\ st.table.tail = k
              /\ TwoWay(Append(s, k), IF first = NULL THEN k ELSE first,
                        NextOf(st.handles), PrevOf(st.handles))
              /\ Range(Append(s, k)) = Range(s) \cup {k}
<1> DEFINE new == [handles EXCEPT ![k] = [Unlinked EXCEPT !.hashv = v]]
           st == Appended(first, handles, t, k, v)
           next == NextOf(handles)
           prev == PrevOf(handles)
           next2 == NextOf(st.handles)
           prev2 == PrevOf(st.handles)
<1>1. handles \in [Keys -> Handle] /\ TwoWay(s, first, next, prev)
  BY DEF Structure
<1>2. /\ s \in Seq(Keys) /\ Len(s) \in Nat
      /\ first = NULL <=> s = <<>>
      /\ first = NULL <=> Len(s) = 0
      /\ Range(s) \subseteq Keys
  BY <1>1, FirstOfList, RangeOfList DEF TwoWay
<1>3. /\ new \in [Keys -> Handle]
      /\ new[k].prev = NULL /\ new[k].next = NULL
      /\ \A j \in Keys \ {k} : new[j] = handles[j]
  BY <1>1, NewHandle
<1> HIDE DEF new, next, prev, next2, prev2
<1>4. CASE first = NULL
  <2> DEFINE u == [NewTable(k) EXCEPT !.num_items = 1]
             w == [table |-> u, handles |-> new]
  <2>1. st = w
    BY <1>4 DEF Appended, new
  <2>2. /\ u \in Table /\ u.num_buckets \in Nat \ {0}
        /\ u.num_buckets = 2 ^ u.log2_num_buckets
        /\ u.buckets = NoBuckets(u.num_buckets)
        /\ u.buckets \in [0 .. u.num_buckets - 1 -> Bucket]
        /\ u.num_items = 1 /\ u.tail = k
    BY NewTableFields
  <2> HIDE DEF u, st
  <2>3. /\ w \in [table : Table, handles : [Keys -> Handle]]
        /\ w.table = u /\ w.handles = new
    BY <1>3, <2>2
  <2> HIDE DEF w
  <2>4. Typed(st) /\ st.table = u /\ st.handles = new
    BY <2>1, <2>2, <2>3 DEF Typed
  <2>5. /\ Chained(st, [b \in BucketNumbers(st) |-> <<>>], {})
        /\ Tight(st)
    BY <2>2, <2>4, NoBucketsChained
  <2>6. PowerOfTwo(st) /\ Bounded(st)
    BY <2>2, <2>4, <2>5 DEF PowerOfTwo, Bounded, Tight
  <2>7. Range(s) = {} /\ Append(s, k) = <<k>> /\ Len(s) = 0
    BY <1>2, <1>4 DEF Range
  <2>8. next2[k] = NULL /\ prev2[k] = NULL
    BY <1>3, <2>4 DEF next2, prev2, NextOf, PrevOf
  <2>9. TwoWay(<<k>>, k, next2, prev2) /\ Range(<<k>>) = {k}
    BY <2>8, ListOfOne
  <2>10. \E d : Chained(st, d, Range(s))
    BY <2>5, <2>7
  <2>11. st.table.num_items = Len(s) + 1 /\ st.table.tail = k
    BY <2>2, <2>4, <2>7
  <2>12. /\ TwoWay(Append(s, k), IF first = NULL THEN k ELSE first, next2, prev2)
         /\ Range(Append(s, k)) = Range(s) \cup {k}
    BY <1>4, <2>7, <2>9
  <2> QED
    BY <2>6, <2>10, <2>11, <2>12 DEF next2, prev2, st
<1>5. CASE first # NULL
  <2> DEFINE m == [table |-> t, handles |-> handles]
             old == t.tail
             h == LinkedBehind(new, k, old)
             u == [t EXCEPT !.tail = k]
             x == [u EXCEPT !.num_items = @ + 1]
             w == [table |-> x, handles |-> h]
  <2>1. /\ Chained(m, c, Range(s)) /\ PowerOfTwo(m) /\ Bounded(m)
        /\ t.num_items = Len(s) /\ old = s[Len(s)]
    BY <1>5 DEF Structure
  <2>2. m.table = t /\ m.handles = handles
    OBVIOUS
  <2>3. st = w
    <3>1. st = [table |-> [t EXCEPT !.tail = k, !.num_items = @ + 1], handles |-> h]
      BY <1>5 DEF Appended, new, LinkedBehind
    <3>2. [t EXCEPT !.tail = k, !.num_items = @ + 1] = x
      OBVIOUS
    <3> HIDE DEF h, x, st
    <3> QED
      BY <3>1, <3>2
  <2> HIDE DEF m, st
  <2>4. /\ t \in [buckets : BucketArray, num_buckets : Nat, log2_num_buckets : Nat,
                  num_items : Nat, tail : Link, ideal_chain_maxlen : Nat,
                  nonideal_items : Nat, ineff_expands : Nat, noexpand : BOOLEAN]
        /\ t.num_buckets \in Nat \ {0}
        /\ t.buckets \in [0 .. t.num_buckets - 1 -> Bucket]
    BY <2>1, <2>2 DEF Chained, Typed, Table
  <2>5. old \in Range(s) /\ old \in Keys /\ old # k
    <3>1. Len(s) \in 1 .. Len(s)
      BY <1>2, <1>5
    <3> QED
      BY <1>2, <2>1, <3>1, RangeOfList
  <2> HIDE DEF old
  <2>6. /\ h \in [Keys -> Handle]
        /\ h[k].prev = old /\ h[k].next = NULL
        /\ h[old].next = k /\ h[old].prev = new[old].prev
        /\ \A j \in Keys \ {k, old} : h[j] = new[j]
        /\ \A j \in Keys : /\ h[j].hashv = new[j].hashv
                           /\ h[j].hh_next = new[j].hh_next
                           /\ h[j].hh_prev = new[j].hh_prev
    BY <1>3, <2>5, LinksOfAppended
  <2> HIDE DEF h
  <2>7. /\ u \in [buckets : BucketArray, num_buckets : Nat, log2_num_buckets : Nat,
                  num_items : Nat, tail : Link, ideal_chain_maxlen : Nat,
                  nonideal_items : Nat, ineff_expands : Nat, noexpand : BOOLEAN]
        /\ u.buckets = t.buckets /\ u.num_buckets = t.num_buckets
        /\ u.log2_num_buckets = t.log2_num_buckets
        /\ u.ideal_chain_maxlen = t.ideal_chain_maxlen /\ u.noexpand = t.noexpand
        /\ u.num_items = t.num_items /\ u.tail = k
    <3>1. k \in Link
      BY DEF Link
    <3> QED
      BY <2>4, <3>1
  <2> HIDE DEF u
  <2>8. /\ x \in Table
        /\ x.buckets = t.buckets /\ x.num_buckets = t.num_buckets
        /\ x.log2_num_buckets = t.log2_num_buckets
        /\ x.ideal_chain_maxlen = t.ideal_chain_maxlen /\ x.noexpand = t.noexpand
        /\ x.num_items = t.num_items + 1 /\ x.tail = k
    BY <2>7 DEF Table
  <2> HIDE DEF x
  <2>9. /\ w \in [table : Table, handles : [Keys -> Handle]]
        /\ w.table = x /\ w.handles = h
    BY <2>6, <2>8
  <2> HIDE DEF w
  <2>10. Typed(st) /\ st.table = x /\ st.handles = h
    BY <2>3, <2>4, <2>8, <2>9 DEF Typed
  <2>11. Chained(st, c, Range(s))
    <3>1. \A j \in Range(s) : /\ st.handles[j].hashv = m.handles[j].hashv
                              /\ st.handles[j].hh_next = m.handles[j].hh_next
                              /\ st.handles[j].hh_prev = m.handles[j].hh_prev
      BY <1>2, <1>3, <2>2, <2>6, <2>10
    <3>2. /\ st.table.num_buckets = m.table.num_buckets
          /\ st.table.buckets = m.table.buckets
      BY <2>2, <2>8, <2>10
    <3> QED
      BY <2>1, <2>10, <3>1, <3>2, ChainsStay
  <2>12. PowerOfTwo(st) /\ Bounded(st)
    BY <2>1, <2>2, <2>8, <2>10 DEF PowerOfTwo, Bounded, BucketNumbers
  <2>13. /\ next2[k] = NULL /\ prev2[k] = old
         /\ \A j \in Keys \ {k} : next2[j] = IF j = old THEN k ELSE next[j]
         /\ \A j \in Keys \ {k} : prev2[j] = prev[j]
    BY <1>3, <2>5, <2>6, <2>10 DEF next2, prev2, next, prev, NextOf, PrevOf
  <2>14. /\ TwoWay(Append(s, k), first, next2, prev2)
         /\ Range(Append(s, k)) = Range(s) \cup {k}
    BY <1>1, <1>2, <1>5, <2>1, <2>13, ListAppend
  <2>15. st.table.num_items = Len(s) + 1 /\ st.table.tail = k
    BY <2>1, <2>8, <2>10
  <2> QED
    BY <1>5, <2>11, <2>12, <2>14, <2>15 DEF next2, prev2, st
<1> QED
  BY <1>4, <1>5

\* HASH_ADD puts a new record at the end of the order and in a chain.
LEMMA AddKeepsStructure ==
    ASSUME NEW first, NEW handles, NEW t, NEW s, NEW c, Structure(first, handles, t, s, c),
           NEW k \in Keys, k \notin Range(s), NEW v \in HashValues
    PROVE  LET r == AddToBkt(Appended(first, handles, t, k, v), k)
           IN \E d : Structure(IF first = NULL THEN k ELSE first,
                               r.handles, r.table, Append(s, k), d)
<1> DEFINE st == Appended(first, handles, t, k, v)
           r == AddToBkt(st, k)
           first2 == IF first = NULL THEN k ELSE first
<1>1. /\ \E d : Chained(st, d, Range(s))
      /\ PowerOfTwo(st) /\ Bounded(st)
      /\ st.table.num_items = Len(s) + 1 /\ st.table.tail = k
      /\ TwoWay(Append(s, k), first2, NextOf(st.handles), PrevOf(st.handles))
      /\ Range(Append(s, k)) = Range(s) \cup {k}
  BY AppendedKeeps
<1>2. s \in Seq(Keys) /\ Len(s) \in Nat
  BY DEF Structure, TwoWay, OneWay
<1> HIDE DEF st, first2
<1>3. /\ Len(Append(s, k)) = Len(s) + 1 /\ Append(s, k)[Len(Append(s, k))] = k
      /\ st.table.num_items >= 1
  BY <1>1, <1>2
<1>4. PICK d : Chained(r, d, Range(s) \cup {k})
  BY <1>1, <1>3, AddToBktKeeps
<1>5. SameOrder(st, r) /\ PowerOfTwo(r) /\ Bounded(r)
  BY <1>1, <1>3, AddToBktKeeps
<1> HIDE DEF r
<1>6. NextOf(r.handles) = NextOf(st.handles) /\ PrevOf(r.handles) = PrevOf(st.handles)
  BY <1>5 DEF SameOrder, NextOf, PrevOf
<1>7. TwoWay(Append(s, k), first2, NextOf(r.handles), PrevOf(r.handles))
  BY <1>1, <1>6
<1>8. first2 # NULL
  BY KeysAreNumbers DEF first2
<1>9. r.table.num_items = Len(Append(s, k)) /\ r.table.tail = Append(s, k)[Len(Append(s, k))]
  BY <1>1, <1>3, <1>5 DEF SameOrder
<1>10. Structure(first2, r.handles, r.table, Append(s, k), d)
  BY <1>1, <1>4, <1>5, <1>7, <1>8, <1>9, IsStructure
<1> QED
  BY <1>10 DEF first2, r, st

\* HASH_DELETE_HH takes the record out of the application order.
Patched(handles, k) ==
    [j \in Keys |->
        CASE j = handles[k].prev -> [handles[j] EXCEPT !.next = handles[k].next]
          [] j = handles[k].next -> [handles[j] EXCEPT !.prev = handles[k].prev]
          [] OTHER -> handles[j]]

\* The fields of the handles after it: only the neighbours' links change.
LEMMA PatchedFields ==
    ASSUME NEW handles \in [Keys -> Handle], NEW k \in Keys,
           handles[k].prev \in Keys => handles[k].prev # handles[k].next
    PROVE  /\ Patched(handles, k) \in [Keys -> Handle]
           /\ \A j \in Keys :
                LET g == Patched(handles, k)[j]
                    x == handles[j]
                IN /\ g.hashv = x.hashv /\ g.hh_next = x.hh_next /\ g.hh_prev = x.hh_prev
                   /\ g.next = IF j = handles[k].prev THEN handles[k].next ELSE x.next
                   /\ g.prev = IF j = handles[k].next THEN handles[k].prev ELSE x.prev
<1> DEFINE before == handles[k].prev
           after == handles[k].next
           h == Patched(handles, k)
<1>1. before \in Link /\ after \in Link /\ (before \in Keys => before # after)
  <2>1. handles[k] \in [hashv : HashValues \cup {0}, prev : Link, next : Link,
                        hh_prev : Link, hh_next : Link]
    BY DEF Handle
  <2> QED
    BY <2>1
<1>2. h = [j \in Keys |->
             CASE j = before -> [handles[j] EXCEPT !.next = after]
               [] j = after -> [handles[j] EXCEPT !.prev = before]
               [] OTHER -> handles[j]]
  BY DEF Patched
<1> HIDE DEF before, after, h
<1>3. ASSUME NEW j \in Keys
      PROVE  /\ h[j] \in Handle
             /\ h[j].hashv = handles[j].hashv
             /\ h[j].hh_next = handles[j].hh_next /\ h[j].hh_prev = handles[j].hh_prev
             /\ h[j].next = IF j = before THEN after ELSE handles[j].next
             /\ h[j].prev = IF j = after THEN before ELSE handles[j].prev
  <2> DEFINE x == handles[j]
             y == [x EXCEPT !.next = after]
             z == [x EXCEPT !.prev = before]
  <2>1. x \in [hashv : HashValues \cup {0}, prev : Link, next : Link,
               hh_prev : Link, hh_next : Link]
    BY DEF Handle
  <2>2. h[j] = CASE j = before -> y [] j = after -> z [] OTHER -> x
    BY <1>2
  <2> HIDE DEF x
  <2>3. CASE j = before
    <3>1. j # after
      BY <1>1, <2>3
    <3>2. h[j] = y
      <4> HIDE DEF y, z
      <4> QED
        BY <2>2, <2>3, <3>1
    <3> HIDE DEF z
    <3> QED
      BY <1>1, <2>1, <2>3, <3>1, <3>2 DEF x, Handle
  <2>4. CASE j # before /\ j = after
    <3>1. h[j] = z
      <4> HIDE DEF y, z
      <4> QED
        BY <2>2, <2>4
    <3> HIDE DEF y
    <3> QED
      BY <1>1, <2>1, <2>4, <3>1 DEF x, Handle
  <2>5. CASE j # before /\ j # after
    <3>1. h[j] = x
      <4> HIDE DEF y, z
      <4> QED
        BY <2>2, <2>5
    <3> HIDE DEF y, z
    <3> QED
      BY <2>1, <2>5, <3>1 DEF x, Handle
  <2> QED
    BY <2>3, <2>4, <2>5
<1>4. h \in [Keys -> Handle]
  <2>1. DOMAIN h = Keys /\ h = [j \in Keys |-> h[j]]
    BY <1>2
  <2> QED
    BY <1>3, <2>1
<1> QED
  BY <1>3, <1>4 DEF h, before, after

\* HASH_DELETE_HH of a record that is not the only one.
Without(t, handles, k) ==
    Deleted([table |-> [t EXCEPT !.num_items = @ - 1,
                                 !.tail = IF @ = k THEN handles[k].prev ELSE @],
             handles |-> Patched(handles, k)], k)

\* It leaves a structure with the record at place i taken out.
LEMMA DelKeepsStructure ==
    ASSUME NEW first, NEW handles, NEW t, NEW s, NEW c, Structure(first, handles, t, s, c),
           NEW i \in 1 .. Len(s), NEW k, k = s[i],
           handles[k].prev # NULL \/ handles[k].next # NULL
    PROVE  LET r == Without(t, handles, k)
           IN \E d : Structure(IF handles[k].prev = NULL THEN handles[k].next ELSE first,
                               r.handles, r.table, RemoveAt(s, i), d)
<1> DEFINE next == NextOf(handles)
           prev == PrevOf(handles)
           before == handles[k].prev
           after == handles[k].next
           first2 == IF before = NULL THEN after ELSE first
           h == Patched(handles, k)
           u == [t EXCEPT !.num_items = @ - 1]
           x == [u EXCEPT !.tail = IF @ = k THEN before ELSE @]
           st == [table |-> x, handles |-> h]
           r == Deleted(st, k)
           m == [table |-> t, handles |-> handles]
           next2 == NextOf(r.handles)
           prev2 == PrevOf(r.handles)
<1>1. /\ handles \in [Keys -> Handle] /\ TwoWay(s, first, next, prev)
      /\ s \in Seq(Keys) /\ Len(s) \in Nat
      /\ i \in Nat /\ i >= 1 /\ i <= Len(s)
  BY DEF Structure, TwoWay, OneWay
<1>2. k \in Keys /\ k \in Range(s) /\ Range(s) \subseteq Keys
  BY <1>1, RangeOfList
<1>3. next[k] = after /\ prev[k] = before
  BY <1>2 DEF NextOf, PrevOf
<1>4. Without(t, handles, k) = r
  <2>1. [t EXCEPT !.num_items = @ - 1, !.tail = IF @ = k THEN before ELSE @] = x
    OBVIOUS
  <2> HIDE DEF x, h
  <2> QED
    BY <2>1 DEF Without, h
<1> HIDE DEF next, prev, before, after, next2, prev2, first2
<1>5. /\ after \in Range(s) \cup {NULL} /\ before \in Range(s) \cup {NULL}
      /\ before \in Keys => before # after
      /\ (before = NULL) = (i = 1) /\ (after = NULL) = (i = Len(s))
      /\ before # k /\ after # k
  BY <1>1, <1>3, Neighbours
<1>6. first = s[1] /\ first # NULL
  <2>1. Len(s) # 0
    BY <1>1
  <2> QED
    BY <1>1, <2>1, FirstOfList DEF TwoWay
<1>7. /\ h \in [Keys -> Handle]
      /\ \A j \in Keys :
           /\ h[j].hashv = handles[j].hashv /\ h[j].hh_next = handles[j].hh_next
           /\ h[j].hh_prev = handles[j].hh_prev
           /\ h[j].next = IF j = before THEN after ELSE handles[j].next
           /\ h[j].prev = IF j = after THEN before ELSE handles[j].prev
  BY <1>1, <1>2, <1>5, PatchedFields DEF before, after
<1> HIDE DEF h
<1>8. /\ Chained(m, c, Range(s)) /\ PowerOfTwo(m) /\ Bounded(m)
      /\ t.num_items = Len(s) /\ t.tail = s[Len(s)]
      /\ m.table = t /\ m.handles = handles
  BY <1>6 DEF Structure
<1> HIDE DEF m
<1>9. /\ t \in [buckets : BucketArray, num_buckets : Nat, log2_num_buckets : Nat,
                num_items : Nat, tail : Link, ideal_chain_maxlen : Nat,
                nonideal_items : Nat, ineff_expands : Nat, noexpand : BOOLEAN]
      /\ t.num_buckets \in Nat \ {0}
      /\ t.buckets \in [0 .. t.num_buckets - 1 -> Bucket]
      /\ t.num_items - 1 \in Nat
  BY <1>1, <1>8 DEF Chained, Typed, Table
<1>10. /\ u \in [buckets : BucketArray, num_buckets : Nat, log2_num_buckets : Nat,
                 num_items : Nat, tail : Link, ideal_chain_maxlen : Nat,
                 nonideal_items : Nat, ineff_expands : Nat, noexpand : BOOLEAN]
       /\ u.buckets = t.buckets /\ u.num_buckets = t.num_buckets
       /\ u.log2_num_buckets = t.log2_num_buckets
       /\ u.ideal_chain_maxlen = t.ideal_chain_maxlen /\ u.noexpand = t.noexpand
       /\ u.num_items = t.num_items - 1 /\ u.tail = t.tail
  BY <1>9
<1> HIDE DEF u
<1>11. /\ x \in Table
       /\ x.buckets = t.buckets /\ x.num_buckets = t.num_buckets
       /\ x.log2_num_buckets = t.log2_num_buckets
       /\ x.ideal_chain_maxlen = t.ideal_chain_maxlen /\ x.noexpand = t.noexpand
       /\ x.num_items = t.num_items - 1
       /\ x.tail = IF t.tail = k THEN before ELSE t.tail
  <2> DEFINE last == IF u.tail = k THEN before ELSE u.tail
  <2>1. last \in Link
    BY <1>2, <1>5, <1>10 DEF Link
  <2>2. x = [u EXCEPT !.tail = last]
    OBVIOUS
  <2>3. last = IF t.tail = k THEN before ELSE t.tail
    BY <1>10
  <2> HIDE DEF last, x
  <2> QED
    BY <1>10, <2>1, <2>2, <2>3 DEF Table
<1> HIDE DEF x
<1>12. /\ st \in [table : Table, handles : [Keys -> Handle]]
       /\ st.table = x /\ st.handles = h
  BY <1>7, <1>11
<1> HIDE DEF st
<1>13. Typed(st)
  BY <1>9, <1>11, <1>12 DEF Typed
<1>14. Chained(st, c, Range(s))
  <2>1. \A j \in Range(s) : /\ st.handles[j].hashv = m.handles[j].hashv
                            /\ st.handles[j].hh_next = m.handles[j].hh_next
                            /\ st.handles[j].hh_prev = m.handles[j].hh_prev
    BY <1>2, <1>7, <1>8, <1>12
  <2>2. st.table.num_buckets = m.table.num_buckets /\ st.table.buckets = m.table.buckets
    BY <1>8, <1>11, <1>12
  <2> QED
    BY <1>8, <1>13, <2>1, <2>2, ChainsStay
<1>15. PowerOfTwo(st) /\ Bounded(st)
  BY <1>8, <1>11, <1>12 DEF PowerOfTwo, Bounded, BucketNumbers
<1>16. /\ \E d : Chained(r, d, Range(s) \ {k})
       /\ PowerOfTwo(r) /\ Bounded(r) /\ Typed(r)
       /\ r.table.num_items = st.table.num_items
       /\ r.table.tail = st.table.tail
       /\ \A j \in Keys \ {k} : /\ r.handles[j].prev = st.handles[j].prev
                                /\ r.handles[j].next = st.handles[j].next
  <2> DEFINE M == Range(s)
  <2>1. Chained(st, c, M) /\ k \in M
    BY <1>2, <1>14
  <2> HIDE DEF M
  <2>2. Dropped(r, st, k, M)
    BY <1>15, <2>1, DelKeepsChains
  <2> HIDE DEF r
  <2> QED
    BY <2>2 DEF Dropped, M
<1> HIDE DEF r
<1>17. /\ \A j \in Keys \ {k} : next2[j] = IF j = before THEN after ELSE next[j]
       /\ \A j \in Keys \ {k} : prev2[j] = IF j = after THEN before ELSE prev[j]
  BY <1>7, <1>12, <1>16 DEF next2, prev2, next, prev, NextOf, PrevOf
<1>18. first2 = IF first = k THEN after ELSE first
  <2>1. first = k <=> i = 1
    <3>1. 1 \in 1 .. Len(s) /\ \A a, b \in 1 .. Len(s) : s[a] = s[b] => a = b
      BY <1>1 DEF TwoWay, OneWay, NoRepeats
    <3> QED
      BY <1>6, <3>1
  <2> QED
    BY <1>5, <2>1 DEF first2
<1>19. Unlinks(s[i], first, next, prev, first2, next2, prev2)
  BY <1>3, <1>17, <1>18 DEF Unlinks
<1>20. /\ TwoWay(RemoveAt(s, i), first2, next2, prev2)
       /\ Range(RemoveAt(s, i)) = Range(s) \ {k}
       /\ Len(RemoveAt(s, i)) = Len(s) - 1
  BY <1>1, <1>19, ListDrop
<1>21. first2 # NULL
  BY <1>5, <1>6 DEF first2, before, after
<1>22. r.table.tail = RemoveAt(s, i)[Len(RemoveAt(s, i))]
  <2>1. r.table.tail = IF s[Len(s)] = k THEN before ELSE s[Len(s)]
    BY <1>8, <1>11, <1>12, <1>16
  <2>2. s[Len(s)] = k <=> i = Len(s)
    <3>1. Len(s) \in 1 .. Len(s) /\ \A a, b \in 1 .. Len(s) : s[a] = s[b] => a = b
      BY <1>1 DEF TwoWay, OneWay, NoRepeats
    <3> QED
      BY <3>1
  <2>3. \A j \in 1 .. Len(s) - 1 : RemoveAt(s, i)[j] = IF j < i THEN s[j] ELSE s[j + 1]
    BY <1>1, RemoveAtElements
  <2>0. Len(s) \in Nat /\ i \in Nat /\ i >= 1 /\ i <= Len(s)
    BY <1>1
  <2>4. Len(s) # 1
    <3>1. Len(s) = 1 => i = 1 /\ i = Len(s)
      BY <2>0
    <3>2. before # NULL \/ after # NULL
      BY DEF before, after
    <3> QED
      BY <1>5, <3>1, <3>2
  <2>5. Len(s) - 1 \in 1 .. Len(s) - 1 /\ (Len(s) - 1) + 1 = Len(s)
    <3>1. \A n \in Nat : n >= 1 /\ n # 1 => n - 1 \in 1 .. n - 1 /\ (n - 1) + 1 = n
      OBVIOUS
    <3>2. Len(s) >= 1
      BY <2>0
    <3> QED
      BY <2>0, <2>4, <3>1, <3>2
  <2>6. i = Len(s) => before = s[Len(s) - 1]
    <3>1. prev[s[i]] = IF i = 1 THEN NULL ELSE s[i - 1]
      BY <1>1 DEF TwoWay, WayBack
    <3> QED
      BY <1>3, <2>4, <3>1
  <2>7. RemoveAt(s, i)[Len(s) - 1] = IF i = Len(s) THEN s[Len(s) - 1] ELSE s[Len(s)]
    <3>1. RemoveAt(s, i)[Len(s) - 1] = IF Len(s) - 1 < i THEN s[Len(s) - 1] ELSE s[Len(s)]
      BY <2>3, <2>5
    <3>2. Len(s) - 1 < i <=> i = Len(s)
      <4>1. Len(s) \in Nat /\ i \in Nat /\ i <= Len(s)
        BY <1>1
      <4> QED
        BY <4>1
    <3> QED
      BY <3>1, <3>2
  <2> QED
    BY <1>20, <2>1, <2>2, <2>6, <2>7
<1>23. PICK d : Chained(r, d, Range(s) \ {k})
  BY <1>16
<1>24. r.table.num_items = Len(RemoveAt(s, i))
  BY <1>8, <1>11, <1>12, <1>16, <1>20
<1>25. Structure(first2, r.handles, r.table, RemoveAt(s, i), d)
  BY <1>16, <1>20, <1>21, <1>22, <1>23, <1>24, IsStructure DEF next2, prev2
<1> QED
  BY <1>4, <1>25 DEF first2, before, after

\* HASH_DELETE_HH of the only record frees the table.
LEMMA DelLastRecord ==
    ASSUME NEW first, NEW handles, NEW t, NEW s, NEW c, Structure(first, handles, t, s, c),
           NEW i \in 1 .. Len(s), NEW k, k = s[i],
           handles[k].prev = NULL, handles[k].next = NULL
    PROVE  Structure(NULL, [handles EXCEPT ![k] = Unlinked], NoTable, RemoveAt(s, i), c)
<1>1. /\ handles \in [Keys -> Handle] /\ TwoWay(s, first, NextOf(handles), PrevOf(handles))
      /\ s \in Seq(Keys) /\ Len(s) \in Nat
  BY DEF Structure, TwoWay, OneWay
<1>2. k \in Keys
  BY <1>1
<1>3. NextOf(handles)[k] = NULL /\ PrevOf(handles)[k] = NULL
  BY <1>2 DEF NextOf, PrevOf
<1>4. i = 1 /\ i = Len(s)
  BY <1>1, <1>3, Neighbours
<1>5. RemoveAt(s, i) \in Seq(Keys) /\ Len(RemoveAt(s, i)) = 0
  <2>1. RemoveAt(s, i) \in Seq(Keys) /\ Len(RemoveAt(s, i)) = Len(s) - 1
    BY <1>1, RemoveAtElements
  <2> QED
    BY <1>4, <2>1
<1>6. RemoveAt(s, i) = <<>>
  BY <1>5
<1>7. ASSUME NEW next, NEW prev PROVE TwoWay(<<>>, NULL, next, prev)
  BY DEF TwoWay, OneWay, WayBack, NoRepeats
<1>8. [handles EXCEPT ![k] = Unlinked] \in [Keys -> Handle]
  <2>1. Unlinked \in Handle
    BY KeysAreNumbers DEF Unlinked, Handle
  <2> QED
    BY <1>1, <2>1
<1> QED
  BY <1>6, <1>7, <1>8 DEF Structure

-----------------------------------------------------------------------------
(* The invariant of the table, and what each operation does to it. *)

Chains == [b \in DOMAIN tbl.buckets |-> Chain(tbl, hh, b)]

\* The structure of the table is in order, records are numbered as they are added,
\* and a walk stands at a linked record and remembers the one after it.
UInv ==
    /\ Structure(head, hh, tbl, AppOrder, Chains)
    /\ added \in 0 .. MaxAdds
    /\ \A k \in Range(AppOrder) : k <= added
    /\ el \in Link /\ tmp \in Link
    /\ el = NULL => tmp = NULL
    /\ el # NULL => el \in Range(AppOrder) /\ tmp = hh[el].next

\* A structure of the variables is that of AppOrder and Chains ...
LEMMA StructureNow ==
    ASSUME NEW s, NEW d, Structure(head, hh, tbl, s, d)
    PROVE  AppOrder = s /\ Structure(head, hh, tbl, AppOrder, Chains)
BY StructureIsFound DEF AppOrder, Chains

\* ... and so it is after a step.
LEMMA StructureNext ==
    ASSUME NEW s, NEW d, Structure(head', hh', tbl', s, d)
    PROVE  AppOrder' = s /\ Structure(head, hh, tbl, AppOrder, Chains)'
BY StructureIsFound DEF AppOrder, Chains

\* What the invariant says of the records and of the links of a record.
LEMMA RecordsLinked ==
    ASSUME Structure(head, hh, tbl, AppOrder, Chains)
    PROVE  /\ AppOrder \in Seq(Keys) /\ Len(AppOrder) \in Nat /\ NoRepeats(AppOrder)
           /\ Range(AppOrder) \subseteq Keys /\ hh \in [Keys -> Handle]
           /\ head = NULL <=> AppOrder = <<>>
           /\ head # NULL => head = AppOrder[1] /\ head \in Range(AppOrder)
           /\ \A k \in Range(AppOrder) : \E i \in 1 .. Len(AppOrder) : AppOrder[i] = k
           /\ \A k \in Keys : hh[k].next \in Link /\ hh[k].prev \in Link
           /\ \A i \in 1 .. Len(AppOrder) :
                /\ AppOrder[i] \in Range(AppOrder)
                /\ hh[AppOrder[i]].next = IF i = Len(AppOrder) THEN NULL ELSE AppOrder[i + 1]
                /\ hh[AppOrder[i]].prev = IF i = 1 THEN NULL ELSE AppOrder[i - 1]
<1>1. /\ hh \in [Keys -> Handle]
      /\ TwoWay(AppOrder, head, NextOf(hh), PrevOf(hh))
  BY DEF Structure
<1>2. /\ OneWay(AppOrder, head, NextOf(hh)) /\ WayBack(AppOrder, PrevOf(hh))
      /\ AppOrder \in Seq(Keys) /\ NoRepeats(AppOrder)
  BY <1>1 DEF TwoWay, OneWay
<1>3. /\ Len(AppOrder) \in Nat
      /\ head = NULL <=> AppOrder = <<>>
      /\ head # NULL => head = AppOrder[1] /\ head \in Range(AppOrder)
  BY <1>2, FirstOfList
<1>4. /\ Range(AppOrder) \subseteq Keys
      /\ \A i \in 1 .. Len(AppOrder) : AppOrder[i] \in Range(AppOrder)
      /\ \A k \in Range(AppOrder) : \E i \in 1 .. Len(AppOrder) : AppOrder[i] = k
  BY <1>2, RangeOfList
<1>5. \A k \in Keys : /\ NextOf(hh)[k] = hh[k].next /\ PrevOf(hh)[k] = hh[k].prev
                      /\ hh[k].next \in Link /\ hh[k].prev \in Link
  BY <1>1 DEF NextOf, PrevOf, Handle
<1>6. \A i \in 1 .. Len(AppOrder) :
        /\ NextOf(hh)[AppOrder[i]] = IF i = Len(AppOrder) THEN NULL ELSE AppOrder[i + 1]
        /\ PrevOf(hh)[AppOrder[i]] = IF i = 1 THEN NULL ELSE AppOrder[i - 1]
  BY <1>2 DEF OneWay, WayBack
<1>7. \A i \in 1 .. Len(AppOrder) : AppOrder[i] \in Keys
  BY <1>2
<1>8. \A i \in 1 .. Len(AppOrder) :
        /\ hh[AppOrder[i]].next = IF i = Len(AppOrder) THEN NULL ELSE AppOrder[i + 1]
        /\ hh[AppOrder[i]].prev = IF i = 1 THEN NULL ELSE AppOrder[i - 1]
  BY <1>5, <1>6, <1>7
<1> QED
  BY <1>1, <1>2, <1>3, <1>4, <1>5, <1>8

\* HASH_FIND, in a table that is in order, finds a record by its key and its hash.
LEMMA Finds ==
    ASSUME Structure(head, hh, tbl, AppOrder, Chains), NEW k \in Keys,
           NEW v \in HashValues \cup {0}
    PROVE  Find(k, v) = IF k \in Range(AppOrder) /\ hh[k].hashv = v THEN k ELSE NULL
<1>1. CASE head = NULL
  <2>1. Range(AppOrder) = {}
    BY <1>1, RecordsLinked
  <2> QED
    BY <1>1, <2>1 DEF Find
<1>2. CASE head # NULL
  <2> DEFINE st == [table |-> tbl, handles |-> hh]
             b == ToBkt(v, tbl.num_buckets)
             c == Chains[b]
             hits == {i \in DOMAIN c : hh[c[i]].hashv = v /\ c[i] = k}
  <2>1. /\ Chained(st, Chains, Range(AppOrder)) /\ Typed(st)
        /\ st.table = tbl /\ st.handles = hh
    BY <1>2 DEF Structure, Chained
  <2>2. b \in BucketNumbers(st)
    <3>0. HashValues \cup {0} \subseteq Nat
      BY HashAssumption
    <3>1. v \in Nat /\ tbl.num_buckets \in Nat \ {0}
      <4> HIDE DEF st
      <4> QED
        BY <2>1, <3>0 DEF Typed
    <3>2. \A x \in Nat, n \in Nat \ {0} : x % n \in 0 .. n - 1
      OBVIOUS
    <3> QED
      BY <2>1, <3>1, <3>2 DEF ToBkt, BucketNumbers
  <2>3. Chain(tbl, hh, b) = c
    <3> HIDE DEF st, b
    <3> QED
      BY <2>1, <2>2, ChainFound
  <2>4. /\ c \in Seq(Keys) /\ DOMAIN c = 1 .. Len(c)
        /\ Range(c) = {j \in Range(AppOrder) : BktOf(st, j) = b}
    <3> HIDE DEF st, b
    <3> QED
      BY <2>1, <2>2, RecordsOfChain
  <2>5. \A i \in DOMAIN c : c[i] \in Range(c)
    BY <2>4, RangeOfList
  <2>6. \A j \in Range(c) : \E i \in DOMAIN c : c[i] = j
    BY <2>4, RangeOfList
  <2>7. hh[k].hashv = v => BktOf(st, k) = b
    BY <2>1 DEF BktOf
  <2>8. Find(k, v) = IF hits = {} THEN NULL ELSE c[Min(hits)]
    BY <1>2, <2>3 DEF Find
  <2>9. hits # {} <=> k \in Range(AppOrder) /\ hh[k].hashv = v
    <3> HIDE DEF c, b, st
    <3> QED
      BY <2>4, <2>5, <2>6, <2>7
  <2>10. hits # {} => c[Min(hits)] = k
    <3> HIDE DEF c
    <3>1. hits \subseteq Nat
      BY <2>4
    <3>2. hits # {} => \E x \in hits : \A y \in hits : x <= y
      <4> HIDE DEF hits
      <4> QED
        BY <3>1, LeastNumber
    <3>3. hits # {} => Min(hits) \in hits
      <4> HIDE DEF hits
      <4> QED
        BY <3>2 DEF Min
    <3> QED
      BY <3>3
  <2> HIDE DEF hits, c
  <2> QED
    BY <2>8, <2>9, <2>10
<1> QED
  BY <1>1, <1>2

\* A record that is linked is at one place of the application order.
LEMMA PlaceOf ==
    ASSUME Structure(head, hh, tbl, AppOrder, Chains), NEW k, k \in Range(AppOrder)
    PROVE  \E i \in 1 .. Len(AppOrder) : AppOrder[i] = k
BY RecordsLinked

\* HASH_DELETE_HH takes the record at place i out of the structure, with k its key.
LEMMA HashDelKeeps ==
    ASSUME Structure(head, hh, tbl, AppOrder, Chains), NEW k, NEW i \in 1 .. Len(AppOrder),
           AppOrder[i] = k, HashDel(k)
    PROVE  /\ AppOrder' = RemoveAt(AppOrder, i)
           /\ Structure(head, hh, tbl, AppOrder, Chains)'
<1> DEFINE before == hh[k].prev
           after == hh[k].next
           r == Without(tbl, hh, k)
<1>1. CASE before = NULL /\ after = NULL
  <2>1. head' = NULL /\ tbl' = NoTable /\ hh' = [hh EXCEPT ![k] = Unlinked]
    BY <1>1 DEF HashDel
  <2>2. Structure(NULL, [hh EXCEPT ![k] = Unlinked], NoTable, RemoveAt(AppOrder, i), Chains)
    BY <1>1, DelLastRecord
  <2>3. Structure(head', hh', tbl', RemoveAt(AppOrder, i), Chains)
    BY <2>1, <2>2
  <2> QED
    BY <2>3, StructureNext
<1>2. CASE ~(before = NULL /\ after = NULL)
  <2>1. /\ head' = IF before = NULL THEN after ELSE head
        /\ tbl' = r.table
        /\ hh' = r.handles
    BY <1>2 DEF HashDel, Without, Deleted, Patched
  <2>2. \E d : Structure(IF before = NULL THEN after ELSE head,
                         r.handles, r.table, RemoveAt(AppOrder, i), d)
    <3>1. hh[k].prev # NULL \/ hh[k].next # NULL
      BY <1>2
    <3> QED
      BY <3>1, DelKeepsStructure
  <2>3. PICK d : Structure(head', hh', tbl', RemoveAt(AppOrder, i), d)
    <3> HIDE DEF r
    <3> QED
      BY <2>1, <2>2
  <2> QED
    BY <2>3, StructureNext
<1> QED
  BY <1>1, <1>2

\* The records that are left when one is taken out.
LEMMA RecordsLeft ==
    ASSUME NEW s \in Seq(Keys), NoRepeats(s), NEW i \in 1 .. Len(s)
    PROVE  Range(RemoveAt(s, i)) = Range(s) \ {s[i]}
<1>1. /\ RemoveAt(s, i) \in Seq(Keys) /\ Len(RemoveAt(s, i)) = Len(s) - 1
      /\ \A j \in 1 .. Len(s) - 1 :
           RemoveAt(s, i)[j] = IF j < i THEN s[j] ELSE s[j + 1]
  BY RemoveAtElements
<1>2. Range(RemoveAt(s, i)) = {RemoveAt(s, i)[j] : j \in 1 .. Len(s) - 1}
  BY <1>1 DEF Range
<1>3. Range(s) = {s[j] : j \in 1 .. Len(s)}
  BY DEF Range
<1>4. \A a, b \in 1 .. Len(s) : s[a] = s[b] => a = b
  BY DEF NoRepeats
<1>5. Len(s) \in Nat /\ i \in Nat /\ i >= 1 /\ i <= Len(s)
  OBVIOUS
<1>6. ASSUME NEW j \in 1 .. Len(s) - 1 PROVE RemoveAt(s, i)[j] \in Range(s) \ {s[i]}
  <2>1. j \in 1 .. Len(s) /\ j + 1 \in 1 .. Len(s) /\ (j < i => j # i) /\ (~(j < i) => j + 1 # i)
    BY <1>5
  <2> QED
    BY <1>1, <1>3, <1>4, <2>1
<1>7. ASSUME NEW a \in 1 .. Len(s), a # i PROVE s[a] \in Range(RemoveAt(s, i))
  <2> DEFINE j == IF a < i THEN a ELSE a - 1
  <2>1. /\ j \in 1 .. Len(s) - 1
        /\ j < i => a = j
        /\ ~(j < i) => a = j + 1
    BY <1>5, <1>7
  <2> HIDE DEF j
  <2> QED
    BY <1>1, <1>2, <2>1
<1> QED
  BY <1>2, <1>3, <1>6, <1>7

\* A walk that is over has no record saved.
LEMMA NoWalk == ASSUME UInv, el = NULL PROVE tmp = NULL
BY DEF UInv

\* The record that a walk saves is another linked one, or none.
LEMMA SavedIsLinked ==
    ASSUME UInv, el # NULL
    PROVE  /\ tmp # NULL => tmp \in Range(AppOrder)
           /\ tmp # el /\ el \in Keys
<1>1. Structure(head, hh, tbl, AppOrder, Chains) /\ el \in Range(AppOrder) /\ tmp = hh[el].next
  BY DEF UInv
<1>2. PICK i \in 1 .. Len(AppOrder) : AppOrder[i] = el
  BY <1>1, PlaceOf
<1>3. tmp = IF i = Len(AppOrder) THEN NULL ELSE AppOrder[i + 1]
  BY <1>1, <1>2, RecordsLinked
<1>4. el \in Keys /\ Len(AppOrder) \in Nat /\ NoRepeats(AppOrder)
  BY <1>1, RecordsLinked
<1>5. \A j \in 1 .. Len(AppOrder) : AppOrder[j] \in Range(AppOrder)
  BY <1>1, RecordsLinked
<1>6. CASE i = Len(AppOrder)
  BY <1>3, <1>4, <1>6, KeysAreNumbers
<1>7. CASE i # Len(AppOrder)
  <2>1. i + 1 \in 1 .. Len(AppOrder) /\ i + 1 # i
    BY <1>4, <1>7
  <2>2. AppOrder[i + 1] # AppOrder[i]
    BY <1>4, <2>1 DEF NoRepeats
  <2> QED
    BY <1>2, <1>3, <1>4, <1>5, <1>7, <2>1, <2>2
<1> QED
  BY <1>6, <1>7

\* HASH_ADD: a structure with one more record, at the end.
LEMMA AddStep ==
    ASSUME UInv, NEW k \in Keys, NEW v \in HashValues, Add(k, v)
    PROVE  /\ AppOrder' = Append(AppOrder, k) /\ k \notin Range(AppOrder)
           /\ Structure(head, hh, tbl, AppOrder, Chains)'
<1> DEFINE r == AddToBkt(Appended(head, hh, tbl, k, v), k)
           first == IF head = NULL THEN k ELSE head
<1>1. Structure(head, hh, tbl, AppOrder, Chains)
  BY DEF UInv
<1>2. k \notin Range(AppOrder)
  <2>1. k = added + 1 /\ added \in Nat /\ \A j \in Range(AppOrder) : j <= added
    BY DEF Add, UInv
  <2> QED
    BY <2>1
<1>3. tbl' = r.table /\ hh' = r.handles /\ head' = first
  BY DEF Add, Appended, AppendList
<1>4. \E d : Structure(first, r.handles, r.table, Append(AppOrder, k), d)
  BY <1>1, <1>2, AddKeepsStructure
<1>5. PICK d : Structure(head', hh', tbl', Append(AppOrder, k), d)
  <2> HIDE DEF r, first
  <2> QED
    BY <1>3, <1>4
<1> QED
  BY <1>2, <1>5, StructureNext

\* HASH_ADD keeps the invariant.
LEMMA AddKeeps ==
    ASSUME UInv, NEW k \in Keys, NEW v \in HashValues, Add(k, v)
    PROVE  UInv'
<1>1. /\ AppOrder' = Append(AppOrder, k)
      /\ Structure(head, hh, tbl, AppOrder, Chains)'
  BY AddStep
<1>2. /\ el = NULL /\ tmp = NULL /\ el' = NULL /\ tmp' = NULL
      /\ added' = k /\ k = added + 1 /\ added \in Nat
      /\ AppOrder \in Seq(Keys) /\ \A j \in Range(AppOrder) : j <= added
  BY NoWalk, RecordsLinked DEF Add, UInv
<1>3. Range(Append(AppOrder, k)) = Range(AppOrder) \cup {k}
  BY <1>2 DEF Range
<1>4. Range(AppOrder) \subseteq Keys
  BY <1>2, RangeOfList
<1>5. \A j \in Range(AppOrder) \cup {k} : j <= k
  BY <1>2, <1>4, KeysAreNumbers
<1>6. k \in 0 .. MaxAdds /\ NULL \in Link
  BY KeysAreNumbers
<1> QED
  BY <1>1, <1>2, <1>3, <1>5, <1>6 DEF UInv

\* HASH_DEL of a record that is found keeps the invariant.
LEMMA DeleteKeeps ==
    ASSUME UInv, NEW k \in Keys, Delete(k)
    PROVE  UInv' /\ k \in Range(AppOrder)
<1>1. Structure(head, hh, tbl, AppOrder, Chains)
  BY DEF UInv
<1>2. el = NULL /\ Find(k, hh[k].hashv) = k /\ HashDel(k) /\ UNCHANGED <<el, tmp, added>>
  BY DEF Delete
<1>3. k \in Range(AppOrder)
  <2>1. hh[k].hashv \in HashValues \cup {0}
    BY <1>1, RecordsLinked DEF Handle
  <2>2. k # NULL
    BY KeysAreNumbers
  <2> QED
    BY <1>1, <1>2, <2>1, <2>2, Finds
<1>4. PICK i \in 1 .. Len(AppOrder) : AppOrder[i] = k
  BY <1>1, <1>3, PlaceOf
<1>5. /\ AppOrder' = RemoveAt(AppOrder, i)
      /\ Structure(head, hh, tbl, AppOrder, Chains)'
  BY <1>1, <1>2, <1>4, HashDelKeeps
<1>6. Range(RemoveAt(AppOrder, i)) = Range(AppOrder) \ {k}
  BY <1>1, <1>4, RecordsLinked, RecordsLeft
<1> QED
  BY <1>2, <1>3, <1>5, <1>6 DEF UInv

\* The body of a walk that deletes its record leaves the saved one linked.
LEMMA IterDeleteKeeps ==
    ASSUME UInv, IterDelete
    PROVE  UInv'
<1>1. Structure(head, hh, tbl, AppOrder, Chains) /\ el \in Range(AppOrder)
  BY DEF UInv, IterDelete
<1>2. /\ el # NULL /\ HashDel(el) /\ added' = added /\ el' = tmp
      /\ tmp' = IF tmp = NULL THEN NULL ELSE hh'[tmp].next
  BY DEF IterDelete, IterAdvance
<1>3. PICK i \in 1 .. Len(AppOrder) : AppOrder[i] = el
  BY <1>1, PlaceOf
<1>4. /\ AppOrder' = RemoveAt(AppOrder, i)
      /\ Structure(head, hh, tbl, AppOrder, Chains)'
  BY <1>1, <1>2, <1>3, HashDelKeeps
<1>5. Range(RemoveAt(AppOrder, i)) = Range(AppOrder) \ {el}
  BY <1>1, <1>3, RecordsLinked, RecordsLeft
<1>6. tmp # NULL => tmp \in Range(AppOrder)'
  BY <1>2, <1>4, <1>5, SavedIsLinked
<1>7. hh' \in [Keys -> Handle]
  BY <1>4 DEF Structure
<1>8. tmp \in Link /\ NULL \in Link /\ (tmp # NULL => tmp \in Keys)
  BY DEF UInv, Link
<1>9. tmp' \in Link
  BY <1>2, <1>7, <1>8 DEF Handle
<1>10. \A j \in Range(AppOrder)' : j <= added'
  BY <1>2, <1>4, <1>5 DEF UInv
<1> QED
  BY <1>2, <1>4, <1>6, <1>8, <1>9, <1>10 DEF UInv

\* Every step keeps the invariant.
LEMMA StepKeeps == UInv /\ [Next]_vars => UInv'
<1> SUFFICES ASSUME UInv, [Next]_vars PROVE UInv'
  OBVIOUS
<1>1. CASE UNCHANGED vars
  BY <1>1 DEF vars, UInv, AppOrder, Chains
<1>2. ASSUME NEW k \in Keys, NEW v \in HashValues, Add(k, v) PROVE UInv'
  BY <1>2, AddKeeps
<1>3. ASSUME NEW k \in Keys, Delete(k) PROVE UInv'
  BY <1>3, DeleteKeeps
<1>4. CASE IterBegin
  <2>1. UNCHANGED <<head, hh, tbl, added>> /\ el' = head /\ tmp' = hh[head].next /\ head # NULL
    BY <1>4 DEF IterBegin
  <2>2. UNCHANGED <<AppOrder, Chains>>
    BY <2>1 DEF AppOrder, Chains
  <2>3. head \in Range(AppOrder) /\ head \in Keys /\ hh[head].next \in Link
    BY <2>1, RecordsLinked DEF UInv
  <2> QED
    BY <2>1, <2>2, <2>3, KeysAreNumbers DEF UInv, Link
<1>5. CASE IterKeep
  <2>1. /\ UNCHANGED <<head, hh, tbl, added>> /\ el' = tmp /\ el # NULL
        /\ tmp' = IF tmp = NULL THEN NULL ELSE hh[tmp].next
    BY <1>5 DEF IterKeep, IterAdvance
  <2>2. UNCHANGED <<AppOrder, Chains>>
    BY <2>1 DEF AppOrder, Chains
  <2>3. tmp # NULL => tmp \in Range(AppOrder) /\ tmp \in Keys /\ hh[tmp].next \in Link
    BY <2>1, SavedIsLinked, RecordsLinked DEF UInv
  <2> QED
    BY <2>1, <2>2, <2>3 DEF UInv, Link
<1>6. CASE IterDelete
  BY <1>6, IterDeleteKeeps
<1> QED
  BY <1>1, <1>2, <1>3, <1>4, <1>5, <1>6 DEF Next

\* Before the first HASH_ADD there is no table and no record.
LEMMA InitHolds == Init => UInv
<1> SUFFICES ASSUME Init PROVE UInv
  OBVIOUS
<1>1. /\ head = NULL /\ hh = [k \in Keys |-> Unlinked] /\ tbl = NoTable
      /\ el = NULL /\ tmp = NULL /\ added = 0
  BY DEF Init
<1>2. hh \in [Keys -> Handle]
  <2>1. Unlinked \in Handle
    BY KeysAreNumbers DEF Unlinked, Handle
  <2> QED
    BY <1>1, <2>1
<1>3. ASSUME NEW next, NEW prev PROVE TwoWay(<<>>, NULL, next, prev)
  BY DEF TwoWay, OneWay, WayBack, NoRepeats
<1>4. Structure(head, hh, tbl, <<>>, <<>>)
  BY <1>1, <1>2, <1>3 DEF Structure
<1>5. AppOrder = <<>> /\ Structure(head, hh, tbl, AppOrder, Chains)
  BY <1>4, StructureNow
<1>6. Range(<<>>) = {}
  BY DEF Range
<1>7. MaxAdds \in Nat /\ 0 \in 0 .. MaxAdds /\ NULL \in Link
  BY KeysAreNumbers
<1> QED
  BY <1>1, <1>5, <1>6, <1>7 DEF UInv

\* The invariant of the table holds in every behaviour: after every HASH_ADD,
\* HASH_DEL and doubling, and in the middle of a walk.
THEOREM TableInvariant == Spec => []UInv
<1>1. Init => UInv
  BY InitHolds
<1>2. UInv /\ [Next]_vars => UInv'
  BY StepKeeps
<1> QED
  BY <1>1, <1>2, PTL DEF Spec

-----------------------------------------------------------------------------
(* The properties of the table. *)

\* A list without repetition has as many records as it is long.
LEMMA RecordsCounted ==
    ASSUME NEW s \in Seq(Keys), NoRepeats(s)
    PROVE  IsFiniteSet(Range(s)) /\ Cardinality(Range(s)) = Len(s)
<1>1. \A n \in Nat : IsFiniteSet(1 .. n) /\ Cardinality(1 .. n) = n
  BY FS_Interval
<1>2. IsFiniteSet(1 .. Len(s)) /\ Cardinality(1 .. Len(s)) = Len(s)
  BY <1>1
<1>3. s \in Injection(1 .. Len(s), Range(s)) /\ s \in Surjection(1 .. Len(s), Range(s))
  BY DEF Injection, IsInjective, Surjection, NoRepeats, Range
<1> QED
  BY <1>2, <1>3, FS_Surjection

\* What HASH_FSCK adds up: the places of the chains are as many as the records.
LEMMA PlacesCounted ==
    ASSUME NEW s, NEW c, NEW M, Chained(s, c, M), IsFiniteSet(M)
    PROVE  Cardinality(UNION {{b} \X (1 .. s.table.buckets[b].count) : b \in BucketNumbers(s)})
             = Cardinality(M)
<1> DEFINE B == BucketNumbers(s)
           P == UNION {{b} \X (1 .. s.table.buckets[b].count) : b \in B}
           f == [p \in P |-> c[p[1]][p[2]]]
<1>1. \A b \in B : /\ s.table.buckets[b].count = Len(c[b])
                   /\ c[b] \in Seq(Keys) /\ NoRepeats(c[b])
                   /\ Range(c[b]) = {k \in M : BktOf(s, k) = b}
  BY RecordsOfChain DEF Chained
<1>2. /\ M \subseteq Keys
      /\ \A k \in M : BktOf(s, k) \in B /\ k \in Range(c[BktOf(s, k)])
  BY BktIsBucket DEF Chained
<1> HIDE DEF B
<1>3. \A p \in P : /\ p[1] \in B /\ p[2] \in 1 .. Len(c[p[1]])
                   /\ p = <<p[1], p[2]>>
  BY <1>1
<1>4. \A b \in B : \A i \in 1 .. Len(c[b]) :
        <<b, i>> \in P /\ <<b, i>>[1] = b /\ <<b, i>>[2] = i
  BY <1>1
<1> HIDE DEF P
<1>5. \A b \in B : \A i \in 1 .. Len(c[b]) : c[b][i] \in M /\ BktOf(s, c[b][i]) = b
  <2>1. \A b \in B : \A i \in 1 .. Len(c[b]) : c[b][i] \in Range(c[b])
    BY <1>1, RangeOfList
  <2> QED
    BY <1>1, <2>1
<1>6. f \in [P -> M]
  BY <1>3, <1>5
<1>7. f \in Injection(P, M)
  <2>1. ASSUME NEW p \in P, NEW q \in P, f[p] = f[q] PROVE p = q
    <3>1. f[p] = c[p[1]][p[2]] /\ f[q] = c[q[1]][q[2]]
      OBVIOUS
    <3>2. p[1] = q[1]
      BY <1>3, <1>5, <2>1, <3>1
    <3>3. p[2] = q[2]
      BY <1>1, <1>3, <2>1, <3>1, <3>2 DEF NoRepeats
    <3> QED
      BY <1>3, <3>2, <3>3
  <2>2. DOMAIN f = P
    OBVIOUS
  <2> HIDE DEF f
  <2> QED
    BY <1>6, <2>1, <2>2 DEF Injection, IsInjective
<1>8. f \in Surjection(P, M)
  <2>1. ASSUME NEW k \in M PROVE \E p \in P : f[p] = k
    <3>1. PICK i \in 1 .. Len(c[BktOf(s, k)]) : c[BktOf(s, k)][i] = k
      BY <1>1, <1>2, RangeOfList
    <3>2. <<BktOf(s, k), i>> \in P /\ f[<<BktOf(s, k), i>>] = k
      BY <1>2, <1>4, <3>1
    <3> QED
      BY <3>2
  <2> HIDE DEF f
  <2> QED
    BY <1>6, <2>1 DEF Surjection
<1> HIDE DEF f
<1>9. Cardinality(P) = Cardinality(M)
  BY <1>7, <1>8, FS_Injection
<1> QED
  BY <1>9 DEF P, B

\* What is known of a table that has records.
LEMMA TableFields ==
    ASSUME Structure(head, hh, tbl, AppOrder, Chains), head # NULL
    PROVE  LET st == [table |-> tbl, handles |-> hh]
           IN /\ st.table = tbl /\ st.handles = hh
              /\ Chained(st, Chains, Range(AppOrder)) /\ PowerOfTwo(st) /\ Bounded(st)
              /\ BucketNumbers(st) = 0 .. tbl.num_buckets - 1
              /\ DOMAIN tbl.buckets = 0 .. tbl.num_buckets - 1
              /\ tbl.num_buckets \in Nat \ {0}
              /\ tbl.num_items = Len(AppOrder) /\ tbl.tail = AppOrder[Len(AppOrder)]
              /\ Len(AppOrder) \in Nat /\ Len(AppOrder) # 0
<1> DEFINE st == [table |-> tbl, handles |-> hh]
<1>1. /\ st.table = tbl /\ st.handles = hh
      /\ Chained(st, Chains, Range(AppOrder)) /\ PowerOfTwo(st) /\ Bounded(st)
      /\ tbl.num_items = Len(AppOrder) /\ tbl.tail = AppOrder[Len(AppOrder)]
  BY DEF Structure
<1>2. Len(AppOrder) \in Nat /\ Len(AppOrder) # 0
  <2>1. OneWay(AppOrder, head, NextOf(hh))
    BY DEF Structure, TwoWay
  <2> QED
    BY <2>1, FirstOfList
<1> HIDE DEF st
<1>3. /\ BucketNumbers(st) = 0 .. tbl.num_buckets - 1
      /\ tbl.num_buckets \in Nat \ {0}
      /\ tbl.buckets \in [0 .. tbl.num_buckets - 1 -> Bucket]
  BY <1>1 DEF Chained, Typed, BucketNumbers
<1> QED
  BY <1>1, <1>2, <1>3 DEF st

\* The types, and what HASH_MAKE_TABLE and HASH_EXPAND_BUCKETS make of the array.
LEMMA TypesFollow == UInv => UTHashTypeOK
<1> SUFFICES ASSUME UInv PROVE UTHashTypeOK
  OBVIOUS
<1>1. /\ Structure(head, hh, tbl, AppOrder, Chains)
      /\ el \in Link /\ tmp \in Link /\ added \in 0 .. MaxAdds
  BY DEF UInv
<1>2. hh \in [Keys -> Handle] /\ head \in Link /\ NULL \in Link
  BY <1>1, RecordsLinked DEF Link
<1>3. head = NULL => tbl = NoTable
  BY <1>1 DEF Structure
<1>4. CASE head = NULL
  BY <1>1, <1>2, <1>3, <1>4 DEF UTHashTypeOK
<1>5. CASE head # NULL
  <2>1. /\ tbl.num_buckets = 2 ^ tbl.log2_num_buckets /\ tbl.num_buckets # 0
        /\ DOMAIN tbl.buckets = 0 .. tbl.num_buckets - 1
        /\ tbl.tail = AppOrder[Len(AppOrder)]
        /\ Len(AppOrder) \in 1 .. Len(AppOrder)
    BY <1>1, <1>5, TableFields DEF PowerOfTwo
  <2>2. NoTable.num_buckets = 0
    BY DEF NoTable
  <2>3. tbl.tail \in Keys
    BY <1>1, <2>1, RecordsLinked
  <2> QED
    BY <1>1, <1>2, <1>5, <2>1, <2>2, <2>3 DEF UTHashTypeOK
<1> QED
  BY <1>4, <1>5

\* HASH_FSCK finds nothing.
LEMMA FsckFollows == UInv => Fsck
<1> SUFFICES ASSUME UInv, head # NULL PROVE Fsck
  BY DEF Fsck
<1> DEFINE st == [table |-> tbl, handles |-> hh]
           P == UNION {{b} \X (1 .. tbl.buckets[b].count) : b \in DOMAIN tbl.buckets}
<1>1. Structure(head, hh, tbl, AppOrder, Chains)
  BY DEF UInv
<1>2. /\ st.table = tbl /\ st.handles = hh
      /\ Chained(st, Chains, Range(AppOrder))
      /\ BucketNumbers(st) = DOMAIN tbl.buckets
      /\ tbl.num_items = Len(AppOrder) /\ tbl.tail = AppOrder[Len(AppOrder)]
  BY <1>1, TableFields
<1> HIDE DEF st
<1>3. ASSUME NEW b \in DOMAIN tbl.buckets
      PROVE  /\ BackLinked(Chain(tbl, hh, b), [k \in Keys |-> hh[k].hh_prev])
             /\ tbl.buckets[b].count = Len(Chain(tbl, hh, b))
  <2>1. Chain(tbl, hh, b) = Chains[b]
    BY <1>2, ChainFound
  <2>2. WayBack(Chains[b], HhPrevOf(hh)) /\ tbl.buckets[b].count = Len(Chains[b])
    BY <1>2 DEF Chained, TwoWay
  <2>3. Chains[b] \in Seq(Keys)
    BY <1>2, RecordsOfChain
  <2>4. DOMAIN Chains[b] = 1 .. Len(Chains[b])
    BY <2>3
  <2> QED
    BY <2>1, <2>2, <2>4 DEF BackLinked, WayBack, HhPrevOf
<1>4. tbl.num_items = Cardinality(P)
  <2>1. /\ AppOrder \in Seq(Keys) /\ NoRepeats(AppOrder)
    BY <1>1, RecordsLinked
  <2>2. IsFiniteSet(Range(AppOrder)) /\ Cardinality(Range(AppOrder)) = Len(AppOrder)
    BY <2>1, RecordsCounted
  <2>3. Cardinality(UNION {{b} \X (1 .. st.table.buckets[b].count) : b \in BucketNumbers(st)})
          = Cardinality(Range(AppOrder))
    BY <1>2, <2>2, PlacesCounted
  <2> QED
    BY <1>2, <2>2, <2>3
<1>5. BackLinked(AppOrder, [k \in Keys |-> hh[k].prev])
  <2>1. WayBack(AppOrder, PrevOf(hh)) /\ AppOrder \in Seq(Keys)
    BY <1>1, RecordsLinked DEF Structure, TwoWay
  <2>2. DOMAIN AppOrder = 1 .. Len(AppOrder)
    BY <2>1
  <2> QED
    BY <2>1, <2>2 DEF BackLinked, WayBack, PrevOf
<1>6. tbl.tail = Last(AppOrder)
  BY <1>2 DEF Last
<1> QED
  BY <1>2, <1>3, <1>4, <1>5, <1>6 DEF Fsck

\* HASH_FIND finds what is linked.
LEMMA FindFollows == UInv => FindsExactlyTheLinked
<1> SUFFICES ASSUME UInv PROVE FindsExactlyTheLinked
  OBVIOUS
<1>1. Structure(head, hh, tbl, AppOrder, Chains) /\ hh \in [Keys -> Handle]
  BY RecordsLinked DEF UInv
<1>2. \A k \in Keys : hh[k].hashv \in HashValues \cup {0}
  BY <1>1 DEF Handle
<1> QED
  BY <1>1, <1>2, Finds DEF FindsExactlyTheLinked

\* The chains are bounded.
LEMMA BoundFollows == UInv => ChainsAreBounded
<1> SUFFICES ASSUME UInv PROVE ChainsAreBounded
  OBVIOUS
<1> DEFINE st == [table |-> tbl, handles |-> hh]
<1>1. Structure(head, hh, tbl, AppOrder, Chains)
  BY DEF UInv
<1>2. CASE head # NULL
  <2>1. st.table = tbl /\ Bounded(st) /\ BucketNumbers(st) = DOMAIN tbl.buckets
    BY <1>1, <1>2, TableFields
  <2> HIDE DEF st
  <2> QED
    BY <2>1 DEF Bounded, ChainsAreBounded
<1>3. CASE head = NULL
  <2>1. tbl = NoTable
    BY <1>1, <1>3 DEF Structure
  <2>2. DOMAIN tbl.buckets = {}
    BY <2>1 DEF NoTable
  <2> QED
    BY <2>2 DEF ChainsAreBounded
<1> QED
  BY <1>2, <1>3

-----------------------------------------------------------------------------
(* The table implements the list of records. *)

\* A walk at the record of place i has the records from there on still to visit.
LEMMA RestOfWalk ==
    ASSUME NEW first, NEW handles, NEW t, NEW s, NEW c, Structure(first, handles, t, s, c),
           NEW i \in 1 .. Len(s)
    PROVE  <<s[i]>> \o Follow(handles[s[i]].next, [k \in Keys |-> handles[k].next])
             = SubSeq(s, i, Len(s))
<1>1. OneWay(s, first, NextOf(handles))
  BY DEF Structure, TwoWay
<1>2. s \in Seq(Keys) /\ Len(s) \in Nat /\ s[i] \in Keys
  BY <1>1 DEF OneWay
<1>3. handles[s[i]].next = NextOf(handles)[s[i]]
  BY <1>2 DEF NextOf
<1>4. handles[s[i]].next = IF i + 1 <= Len(s) THEN s[i + 1] ELSE NULL
  <2>1. NextOf(handles)[s[i]] = IF i = Len(s) THEN NULL ELSE s[i + 1]
    BY <1>1 DEF OneWay
  <2>2. i = Len(s) <=> ~(i + 1 <= Len(s))
    BY <1>2
  <2> QED
    BY <1>3, <2>1, <2>2
<1>5. Follow(handles[s[i]].next, NextOf(handles)) = SubSeq(s, i + 1, Len(s))
  <2>1. i + 1 \in 1 .. Len(s) + 1
    BY <1>2
  <2> QED
    BY <1>1, <1>4, <2>1, FollowsRest
<1>6. SubSeq(s, i, Len(s)) = <<s[i]>> \o SubSeq(s, i + 1, Len(s))
  <2>1. Len(s) \in i .. Len(s)
    BY <1>2
  <2> QED
    BY <1>2, <2>1, SubSeqRecursiveFirst
<1> QED
  BY <1>5, <1>6 DEF NextOf

\* What a walk at place i has still to visit, now ...
LEMMA VisitsRest ==
    ASSUME UInv, NEW i \in 1 .. Len(AppOrder), AppOrder[i] = el
    PROVE  el # NULL /\ ToVisit = SubSeq(AppOrder, i, Len(AppOrder))
<1>1. Structure(head, hh, tbl, AppOrder, Chains)
  BY DEF UInv
<1>2. el # NULL
  BY <1>1, RecordsLinked, KeysAreNumbers
<1>3. tmp = hh[el].next
  BY <1>2 DEF UInv
<1> QED
  BY <1>1, <1>2, <1>3, RestOfWalk DEF ToVisit

\* ... and after a step.
LEMMA VisitsRestNext ==
    ASSUME UInv', NEW i \in 1 .. Len(AppOrder'), AppOrder'[i] = el', el' # NULL
    PROVE  ToVisit' = SubSeq(AppOrder', i, Len(AppOrder'))
<1>1. Structure(head', hh', tbl', AppOrder', Chains') /\ tmp' = hh'[el'].next
  BY DEF UInv
<1> QED
  BY <1>1, RestOfWalk DEF ToVisit

\* The first of a rest, and what follows it.
LEMMA RestSplit ==
    ASSUME NEW s \in Seq(Keys), NEW i \in 1 .. Len(s)
    PROVE  /\ SubSeq(s, i, Len(s)) # <<>>
           /\ Head(SubSeq(s, i, Len(s))) = s[i]
           /\ Tail(SubSeq(s, i, Len(s))) = SubSeq(s, i + 1, Len(s))
<1>1. SubSeq(s, i, Len(s)) = <<s[i]>> \o SubSeq(s, i + 1, Len(s))
  <2>1. Len(s) \in i .. Len(s)
    OBVIOUS
  <2> QED
    BY <2>1, SubSeqRecursiveFirst
<1>2. SubSeq(s, i + 1, Len(s)) \in Seq(Keys) /\ s[i] \in Keys
  <2>1. \A j \in i + 1 .. Len(s) : s[j] \in Keys
    OBVIOUS
  <2> QED
    BY <2>1
<1>3. ASSUME NEW t \in Seq(Keys), NEW k \in Keys
      PROVE  <<k>> \o t # <<>> /\ Head(<<k>> \o t) = k /\ Tail(<<k>> \o t) = t
  OBVIOUS
<1> QED
  BY <1>1, <1>2, <1>3

\* Taking out the record of place i leaves what came after it as it was.
LEMMA RestKept ==
    ASSUME NEW s \in Seq(Keys), NEW i \in 1 .. Len(s)
    PROVE  SubSeq(RemoveAt(s, i), i, Len(RemoveAt(s, i))) = SubSeq(s, i + 1, Len(s))
<1> DEFINE r == RemoveAt(s, i)
           a == SubSeq(r, i, Len(s) - 1)
           b == SubSeq(s, i + 1, Len(s))
<1>1. /\ r \in Seq(Keys) /\ Len(r) = Len(s) - 1
      /\ \A j \in 1 .. Len(s) - 1 : r[j] = IF j < i THEN s[j] ELSE s[j + 1]
  BY RemoveAtElements
<1>2. Len(s) \in Nat /\ i \in Nat /\ i >= 1 /\ i <= Len(s)
  OBVIOUS
<1> HIDE DEF r
<1>3. /\ a = [j \in 1 .. Len(s) - i |-> r[j + i - 1]]
      /\ b = [j \in 1 .. Len(s) - i |-> s[j + i]]
  <2>1. (Len(s) - 1) - i + 1 = Len(s) - i /\ Len(s) - (i + 1) + 1 = Len(s) - i
    BY <1>2
  <2> QED
    BY <1>1, <1>2, <2>1
<1>4. ASSUME NEW j \in 1 .. Len(s) - i PROVE r[j + i - 1] = s[j + i]
  <2>1. j + i - 1 \in 1 .. Len(s) - 1 /\ ~(j + i - 1 < i) /\ j + i - 1 + 1 = j + i
    BY <1>2
  <2> QED
    BY <1>1, <2>1
<1>5. a = b
  <2> HIDE DEF a, b
  <2> QED
    BY <1>3, <1>4
<1> QED
  BY <1>1, <1>5 DEF r

\* HASH_ADD appends to the list of records.
LEMMA AddRefines ==
    ASSUME UInv, NEW k \in Keys, NEW v \in HashValues, Add(k, v)
    PROVE  Ordered!Add(k)
<1>1. AppOrder' = Append(AppOrder, k) /\ k \notin Range(AppOrder)
  BY AddStep
<1>2. ToVisit = <<>> /\ ToVisit' = <<>>
  BY DEF Add, ToVisit
<1> QED
  BY <1>1, <1>2 DEF Ordered!Add, Ordered!Range, Range

\* Taking out the record of place i is what KeyedList says of a deletion.
LEMMA WithoutRefines ==
    ASSUME Structure(head, hh, tbl, AppOrder, Chains), NEW k, NEW i \in 1 .. Len(AppOrder),
           AppOrder[i] = k, AppOrder' = RemoveAt(AppOrder, i)
    PROVE  Ordered!Without(k)
<1>1. AppOrder \in Seq(Keys)
  BY RecordsLinked
<1>2. i \in DOMAIN AppOrder
  BY <1>1
<1>3. Ordered!RemoveAt(AppOrder, i) = RemoveAt(AppOrder, i)
  BY DEF Ordered!RemoveAt, RemoveAt
<1> QED
  BY <1>2, <1>3 DEF Ordered!Without

\* HASH_DEL of a record that is found takes it out of the list.
LEMMA DeleteRefines ==
    ASSUME UInv, NEW k \in Keys, Delete(k)
    PROVE  Ordered!Delete(k)
<1>1. Structure(head, hh, tbl, AppOrder, Chains) /\ HashDel(k)
  BY DEF UInv, Delete
<1>2. PICK i \in 1 .. Len(AppOrder) : AppOrder[i] = k
  BY <1>1, DeleteKeeps, PlaceOf
<1>3. AppOrder' = RemoveAt(AppOrder, i)
  BY <1>1, <1>2, HashDelKeeps
<1>4. Ordered!Without(k)
  BY <1>1, <1>2, <1>3, WithoutRefines
<1>5. ToVisit = <<>> /\ ToVisit' = <<>>
  BY DEF Delete, ToVisit
<1> QED
  BY <1>4, <1>5 DEF Ordered!Delete

\* HASH_ITER begins with every record to visit.
LEMMA BeginRefines ==
    ASSUME UInv, UInv', IterBegin
    PROVE  Ordered!Begin
<1>1. Structure(head, hh, tbl, AppOrder, Chains)
  BY DEF UInv
<1>2. UNCHANGED <<head, hh, tbl>> /\ el = NULL /\ el' = head /\ head # NULL
  BY DEF IterBegin
<1>3. AppOrder' = AppOrder
  BY <1>2 DEF AppOrder
<1>4. AppOrder \in Seq(Keys) /\ AppOrder # <<>> /\ head = AppOrder[1]
  BY <1>1, <1>2, RecordsLinked
<1>5. 1 \in 1 .. Len(AppOrder) /\ SubSeq(AppOrder, 1, Len(AppOrder)) = AppOrder
  <2>1. Len(AppOrder) # 0
    BY <1>4
  <2> QED
    BY <1>4, <2>1, SubSeqFull
<1>6. ToVisit' = AppOrder
  <2>1. /\ 1 \in 1 .. Len(AppOrder') /\ AppOrder'[1] = el' /\ el' # NULL
        /\ SubSeq(AppOrder', 1, Len(AppOrder')) = AppOrder
    BY <1>2, <1>3, <1>4, <1>5
  <2>2. ToVisit' = SubSeq(AppOrder', 1, Len(AppOrder'))
    BY <2>1, VisitsRestNext
  <2> QED
    BY <2>1, <2>2
<1>7. ToVisit = <<>>
  BY <1>2 DEF ToVisit
<1> QED
  BY <1>3, <1>6, <1>7 DEF Ordered!Begin

\* A walk visits the record it is at, kept or deleted, and goes on with the next.
LEMMA VisitRefines ==
    ASSUME UInv, UInv', IterKeep \/ IterDelete
    PROVE  Ordered!Visit
<1>1. Structure(head, hh, tbl, AppOrder, Chains) /\ el # NULL /\ el \in Range(AppOrder)
  BY DEF UInv, IterKeep, IterDelete
<1>2. PICK i \in 1 .. Len(AppOrder) : AppOrder[i] = el
  BY <1>1, PlaceOf
<1>3. AppOrder \in Seq(Keys) /\ Len(AppOrder) \in Nat
  BY <1>1, RecordsLinked
<1>4. /\ ToVisit # <<>> /\ Head(ToVisit) = el
      /\ Tail(ToVisit) = SubSeq(AppOrder, i + 1, Len(AppOrder))
  BY <1>2, <1>3, VisitsRest, RestSplit
<1>5. el' = tmp /\ tmp = IF i = Len(AppOrder) THEN NULL ELSE AppOrder[i + 1]
  <2>1. el' = tmp
    BY DEF IterKeep, IterDelete, IterAdvance
  <2>2. tmp = hh[el].next
    BY <1>1 DEF UInv
  <2> QED
    BY <1>1, <1>2, <2>1, <2>2, RecordsLinked
<1>6. CASE i = Len(AppOrder)
  <2>1. ToVisit' = <<>>
    BY <1>5, <1>6 DEF ToVisit
  <2>2. SubSeq(AppOrder, Len(AppOrder) + 1, Len(AppOrder)) = <<>>
    BY <1>3
  <2>3. ToVisit' = Tail(ToVisit)
    BY <1>4, <1>6, <2>1, <2>2
  <2>4. AppOrder' = AppOrder \/ Ordered!Without(Head(ToVisit))
    <3>1. CASE IterKeep
      BY <3>1 DEF IterKeep, AppOrder
    <3>2. CASE IterDelete
      <4>1. HashDel(el)
        BY <3>2 DEF IterDelete
      <4>2. AppOrder' = RemoveAt(AppOrder, i)
        BY <1>1, <1>2, <4>1, HashDelKeeps
      <4> QED
        BY <1>1, <1>2, <1>4, <4>2, WithoutRefines
    <3> QED
      BY <3>1, <3>2
  <2> QED
    BY <1>4, <2>3, <2>4 DEF Ordered!Visit
<1>7. CASE i # Len(AppOrder)
  <2>1. i + 1 \in 1 .. Len(AppOrder) /\ el' = AppOrder[i + 1]
    BY <1>3, <1>5, <1>7
  <2>2. el' # NULL
    BY <1>1, <2>1, RecordsLinked, KeysAreNumbers
  <2>3. CASE IterKeep
    <3>1. AppOrder' = AppOrder
      BY <2>3 DEF IterKeep, AppOrder
    <3>2. i + 1 \in 1 .. Len(AppOrder') /\ AppOrder'[i + 1] = el'
      BY <2>1, <3>1
    <3>3. ToVisit' = SubSeq(AppOrder', i + 1, Len(AppOrder'))
      BY <2>2, <3>2, VisitsRestNext
    <3> QED
      BY <1>4, <3>1, <3>3 DEF Ordered!Visit
  <2>4. CASE IterDelete
    <3>1. HashDel(el)
      BY <2>4 DEF IterDelete
    <3>2. AppOrder' = RemoveAt(AppOrder, i)
      BY <1>1, <1>2, <3>1, HashDelKeeps
    <3>3. /\ Len(RemoveAt(AppOrder, i)) = Len(AppOrder) - 1
          /\ RemoveAt(AppOrder, i)[i] = AppOrder[i + 1]
          /\ i \in 1 .. Len(AppOrder) - 1
      <4>1. i \in 1 .. Len(AppOrder) - 1 /\ ~(i < i)
        BY <1>3, <1>7
      <4> QED
        BY <1>3, <4>1, RemoveAtElements
    <3>4. i \in 1 .. Len(AppOrder') /\ AppOrder'[i] = el'
      BY <2>1, <3>2, <3>3
    <3>5. ToVisit' = SubSeq(AppOrder', i, Len(AppOrder'))
      BY <2>2, <3>4, VisitsRestNext
    <3>6. ToVisit' = Tail(ToVisit)
      BY <1>3, <1>4, <3>2, <3>5, RestKept
    <3>7. Ordered!Without(Head(ToVisit))
      BY <1>1, <1>2, <1>4, <3>2, WithoutRefines
    <3> QED
      BY <1>4, <3>6, <3>7 DEF Ordered!Visit
  <2> QED
    BY <2>3, <2>4
<1> QED
  BY <1>6, <1>7

\* Every step of the table is a step of the list, or none.
LEMMA StepRefines == UInv /\ UInv' /\ [Next]_vars => [Ordered!Next]_(Ordered!vars)
<1> SUFFICES ASSUME UInv, UInv', [Next]_vars PROVE [Ordered!Next]_(Ordered!vars)
  OBVIOUS
<1>1. CASE UNCHANGED vars
  <2>1. AppOrder' = AppOrder /\ ToVisit' = ToVisit
    BY <1>1 DEF vars, AppOrder, ToVisit
  <2> QED
    BY <2>1 DEF Ordered!vars
<1>2. ASSUME NEW k \in Keys, NEW v \in HashValues, Add(k, v) PROVE Ordered!Next
  BY <1>2, AddRefines DEF Ordered!Next
<1>3. ASSUME NEW k \in Keys, Delete(k) PROVE Ordered!Next
  BY <1>3, DeleteRefines DEF Ordered!Next
<1>4. CASE IterBegin
  BY <1>4, BeginRefines DEF Ordered!Next
<1>5. CASE IterKeep \/ IterDelete
  BY <1>5, VisitRefines DEF Ordered!Next
<1> QED
  BY <1>1, <1>2, <1>3, <1>4, <1>5 DEF Next

\* The table starts as the empty list.
LEMMA InitRefines == Init => Ordered!Init
<1> SUFFICES ASSUME Init PROVE Ordered!Init
  OBVIOUS
<1>1. head = NULL /\ el = NULL
  BY DEF Init
<1>2. AppOrder = <<>>
  BY <1>1, InitHolds, RecordsLinked DEF UInv
<1>3. ToVisit = <<>>
  BY <1>1 DEF ToVisit
<1> QED
  BY <1>2, <1>3 DEF Ordered!Init

-----------------------------------------------------------------------------
(* The theorems. *)

\* The types of the handles and of the table: in every state the array has
\* 2^log2_num_buckets buckets, and a table exists while a record is linked.
THEOREM UTHashTypeCorrect == Spec => []UTHashTypeOK
<1>1. UInv => UTHashTypeOK
  BY TypesFollow
<1> QED
  BY <1>1, TableInvariant, PTL

\* HASH_FSCK finds nothing wrong in any state: both lists linked both ways, the
\* counts of the chains, of the table and of the list the same, tail the last.
THEOREM FsckHolds == Spec => []Fsck
<1>1. UInv => Fsck
  BY FsckFollows
<1> QED
  BY <1>1, TableInvariant, PTL

\* HASH_FIND finds a record while it is linked and never otherwise, whatever the
\* hash values are and however often the array has doubled.
THEOREM FindIsExact == Spec => []FindsExactlyTheLinked
<1>1. UInv => FindsExactlyTheLinked
  BY FindFollows
<1> QED
  BY <1>1, TableInvariant, PTL

\* Until doubling is given up the chains keep to their bound, for every threshold.
THEOREM ChainsBounded == Spec => []ChainsAreBounded
<1>1. UInv => ChainsAreBounded
  BY BoundFollows
<1> QED
  BY <1>1, TableInvariant, PTL

\* The two linked lists and the buckets implement the list of records: HASH_ADD
\* appends, HASH_DEL takes one out, a walk whose body deletes visits each once.
THEOREM TableImplementsList == Spec => ImplementsList
<1>1. Init => Ordered!Init
  BY InitRefines
<1>2. UInv /\ UInv' /\ [Next]_vars => [Ordered!Next]_(Ordered!vars)
  BY StepRefines
<1> QED
  BY <1>1, <1>2, TableInvariant, PTL DEF Spec, ImplementsList, Ordered!Spec

=============================================================================
