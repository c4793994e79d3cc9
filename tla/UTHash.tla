--------------------------------- MODULE UTHash ---------------------------------
(***************************************************************************)
(* The hash table of uthash.h that the server's table functions use, run   *)
(* by one thread: two doubly linked lists through every record's hash      *)
(* handle, the application order (prev, next) and the chain of its bucket  *)
(* (hh_prev, hh_next), and a bucket array that doubles when a chain gets   *)
(* long.                                                                   *)
(*                                                                         *)
(* A record is named by its key, and keys are numbered in the order their  *)
(* records are added; the hash value of a record is any of HashValues, so  *)
(* whatever HASH_JEN makes of the keys is among the behaviours.            *)
(***************************************************************************)
EXTENDS Integers, Sequences, FiniteSets, SequencesExt

CONSTANTS
    MaxAdds,                   \* bound: records added in a behaviour
    HashValues,                \* values the hash function can give
    HASH_INITIAL_NUM_BUCKETS_LOG2,
    HASH_BKT_CAPACITY_THRESH   \* a chain of this length makes the array double

ASSUME MaxAddsAssumption == MaxAdds \in Nat
ASSUME HashAssumption == HashValues \subseteq Nat
ASSUME TableAssumption == /\ HASH_INITIAL_NUM_BUCKETS_LOG2 \in Nat
                          /\ HASH_BKT_CAPACITY_THRESH \in Nat \ {0}

Keys == 1 .. MaxAdds
NULL == 0
Link == Keys \cup {NULL}

VARIABLES
    head,   \* the oldest record, the user's pointer to the table
    hh,     \* the hash handle of each record
    tbl,    \* the table the handles point to
    el, tmp, \* the walk of HASH_ITER: the record it is at, the one after it
    added   \* number of records added so far

vars == <<head, hh, tbl, el, tmp, added>>

Handle == [hashv : HashValues \cup {0},
           prev : Link, next : Link, hh_prev : Link, hh_next : Link]
Unlinked == [hashv |-> 0, prev |-> NULL, next |-> NULL,
             hh_prev |-> NULL, hh_next |-> NULL]

EmptyBucket == [hh_head |-> NULL, count |-> 0, expand_mult |-> 0]

NoBuckets(n) == [b \in 0 .. n - 1 |-> EmptyBucket]

\* no table: the state before the first HASH_ADD and after the last HASH_DEL
NoTable == [buckets |-> <<>>, num_buckets |-> 0, log2_num_buckets |-> 0,
            num_items |-> 0, tail |-> NULL, ideal_chain_maxlen |-> 0,
            nonideal_items |-> 0, ineff_expands |-> 0, noexpand |-> FALSE]

\* mutation: the new table does not know its last record
NewTableNoTail(k) ==
    [NoTable EXCEPT !.buckets = NoBuckets(2 ^ HASH_INITIAL_NUM_BUCKETS_LOG2),
                    !.num_buckets = 2 ^ HASH_INITIAL_NUM_BUCKETS_LOG2,
                    !.log2_num_buckets = HASH_INITIAL_NUM_BUCKETS_LOG2]

\* HASH_MAKE_TABLE for the first record
NewTable(k) ==
    [NoTable EXCEPT !.buckets = NoBuckets(2 ^ HASH_INITIAL_NUM_BUCKETS_LOG2),
                    !.num_buckets = 2 ^ HASH_INITIAL_NUM_BUCKETS_LOG2,
                    !.log2_num_buckets = HASH_INITIAL_NUM_BUCKETS_LOG2,
                    !.tail = k]

\* num_buckets is a power of two: hashv & (num_buckets - 1)
ToBkt(hashv, num_buckets) == hashv % num_buckets

\* the links met from p on, cut off where a list longer than the records must loop
Follow(p, successor) ==
    LET from[n \in 0 .. MaxAdds + 1] ==
          [q \in Link |-> IF q = NULL \/ n = 0 THEN <<>>
                          ELSE <<q>> \o from[n - 1][successor[q]]]
    IN from[MaxAdds + 1][p]

Chain(t, handles, b) ==
    Follow(t.buckets[b].hh_head, [k \in Keys |-> handles[k].hh_next])

AppOrder == Follow(head, [k \in Keys |-> hh[k].next])

-----------------------------------------------------------------------------
(* The macros on one bucket.  Their argument s is a table and the handles.   *)

BktOf(s, k) == ToBkt(s.handles[k].hashv, s.table.num_buckets)

\* the record becomes the first of its bucket's chain
PushOnChain(s, k) ==
    LET b == BktOf(s, k)
        first == s.table.buckets[b].hh_head
    IN [table |-> [s.table EXCEPT !.buckets[b].count = @ + 1,
                                  !.buckets[b].hh_head = k],
        handles |-> [j \in Keys |->
            CASE j = k -> [s.handles[j] EXCEPT !.hh_next = first, !.hh_prev = NULL]
              [] j = first -> [s.handles[j] EXCEPT !.hh_prev = k]
              [] OTHER -> s.handles[j]]]

\* the body of the loop over the old buckets in HASH_EXPAND_BUCKETS
MoveToNewBucket(s, k) ==
    LET m == PushOnChain(s, k)
        b == BktOf(s, k)
        count == m.table.buckets[b].count
        ideal == m.table.ideal_chain_maxlen
    IN IF count <= ideal
       THEN m
       ELSE [m EXCEPT !.table.nonideal_items = @ + 1,
                      !.table.buckets[b].expand_mult =
                          IF count > @ * ideal THEN @ + 1 ELSE @]

\* the loop over the records of one old bucket
MoveChain(s, chain) ==
    LET moved[n \in 0 .. Len(chain)] ==
          IF n = 0 THEN s ELSE MoveToNewBucket(moved[n - 1], chain[n])
    IN moved[Len(chain)]

\* the loop over the old buckets
MoveAll(s, old) ==
    LET emptied[b \in 0 .. old.table.num_buckets] ==
          IF b = 0
          THEN s
          ELSE MoveChain(emptied[b - 1], Chain(old.table, old.handles, b - 1))
    IN emptied[old.table.num_buckets]

\* what HASH_EXPAND_BUCKETS does to the table around the loop: a new array, empty, of
\* twice the size, which the loop hashes to before num_buckets says so
Doubled(t) ==
    LET n == 2 * t.num_buckets
    IN [t EXCEPT !.buckets = NoBuckets(n),
                 !.num_buckets = n,
                 !.log2_num_buckets = @ + 1,
                 !.nonideal_items = 0,
                 !.ideal_chain_maxlen = t.num_items \div 2 ^ (t.log2_num_buckets + 1)
                                        + IF t.num_items % n # 0 THEN 1 ELSE 0]

\* HASH_EXPAND_BUCKETS
Expand(s) ==
    LET moved == MoveAll([table |-> Doubled(s.table), handles |-> s.handles], s)
        ineff == IF moved.table.nonideal_items > s.table.num_items \div 2
                 THEN s.table.ineff_expands + 1 ELSE 0
    IN [moved EXCEPT !.table.ineff_expands = ineff,
                     !.table.noexpand = @ \/ ineff > 1]

\* mutation: a chain may get one longer before the array doubles
AddToBktLate(s, k) ==
    LET m == PushOnChain(s, k)
        bkt == m.table.buckets[BktOf(s, k)]
    IN IF /\ bkt.count > (bkt.expand_mult + 1) * HASH_BKT_CAPACITY_THRESH
          /\ ~m.table.noexpand
       THEN Expand(m)
       ELSE m

\* HASH_ADD_TO_BKT
AddToBkt(s, k) ==
    LET m == PushOnChain(s, k)
        bkt == m.table.buckets[BktOf(s, k)]
    IN IF /\ bkt.count >= (bkt.expand_mult + 1) * HASH_BKT_CAPACITY_THRESH
          /\ ~m.table.noexpand
       THEN Expand(m)
       ELSE m

\* mutation: the record after the deleted one still points back at it
DelInBktNoBackLink(s, k) ==
    LET b == BktOf(s, k)
        before == s.handles[k].hh_prev
        after == s.handles[k].hh_next
    IN [table |-> [s.table EXCEPT
                     !.buckets[b].count = @ - 1,
                     !.buckets[b].hh_head = IF @ = k THEN after ELSE @],
        handles |-> [j \in Keys |->
            IF j = before THEN [s.handles[j] EXCEPT !.hh_next = after]
            ELSE s.handles[j]]]

\* HASH_DEL_IN_BKT
DelInBkt(s, k) ==
    LET b == BktOf(s, k)
        before == s.handles[k].hh_prev
        after == s.handles[k].hh_next
    IN [table |-> [s.table EXCEPT
                     !.buckets[b].count = @ - 1,
                     !.buckets[b].hh_head = IF @ = k THEN after ELSE @],
        handles |-> [j \in Keys |->
            CASE j = before -> [s.handles[j] EXCEPT !.hh_next = after]
              [] j = after -> [s.handles[j] EXCEPT !.hh_prev = before]
              [] OTHER -> s.handles[j]]]

\* mutation: the keys are not compared when the hash values agree
FindByHash(k, hashv) ==
    IF head = NULL
    THEN NULL
    ELSE LET chain == Chain(tbl, hh, ToBkt(hashv, tbl.num_buckets))
             hits == {i \in DOMAIN chain : hh[chain[i]].hashv = hashv}
         IN IF hits = {} THEN NULL ELSE chain[Min(hits)]

\* HASH_FIND: the first record of the key's chain with its hash and its key
Find(k, hashv) ==
    IF head = NULL
    THEN NULL
    ELSE LET chain == Chain(tbl, hh, ToBkt(hashv, tbl.num_buckets))
             hits == {i \in DOMAIN chain : hh[chain[i]].hashv = hashv /\ chain[i] = k}
         IN IF hits = {} THEN NULL ELSE chain[Min(hits)]

-----------------------------------------------------------------------------
(* The operations the server uses. *)

Init ==
    /\ head = NULL
    /\ hh = [k \in Keys |-> Unlinked]
    /\ tbl = NoTable
    /\ el = NULL /\ tmp = NULL
    /\ added = 0

\* HASH_APPEND_LIST
AppendList(handles, k) ==
    [handles EXCEPT ![k].prev = tbl.tail, ![tbl.tail].next = k]

\* HASH_ADD of a new record
Add(k, hashv) ==
    /\ el = NULL
    /\ k = added + 1
    /\ Find(k, hashv) = NULL
    /\ LET new == [hh EXCEPT ![k] = [Unlinked EXCEPT !.hashv = hashv]]
           s == AddToBkt(
                  IF head = NULL
                  THEN [table |-> [NewTable(k) EXCEPT !.num_items = 1],
                        handles |-> new]
                  ELSE [table |-> [tbl EXCEPT !.tail = k, !.num_items = @ + 1],
                        handles |-> AppendList(new, k)],
                  k)
       IN tbl' = s.table /\ hh' = s.handles
    /\ head' = IF head = NULL THEN k ELSE head
    /\ added' = k
    /\ UNCHANGED <<el, tmp>>

\* HASH_DEL of a record in the table; the caller then frees it
HashDel(k) ==
    LET before == hh[k].prev
        after == hh[k].next
        patched == [j \in Keys |->
            CASE j = before -> [hh[j] EXCEPT !.next = after]
              [] j = after -> [hh[j] EXCEPT !.prev = before]
              [] OTHER -> hh[j]]
        s == DelInBkt([table |-> [tbl EXCEPT !.num_items = @ - 1,
                                             !.tail = IF @ = k THEN before ELSE @],
                       handles |-> patched], k)
    IN IF before = NULL /\ after = NULL
       THEN /\ head' = NULL
            /\ tbl' = NoTable
            /\ hh' = [hh EXCEPT ![k] = Unlinked]
       ELSE /\ head' = IF before = NULL THEN after ELSE head
            /\ tbl' = s.table
            /\ hh' = [s.handles EXCEPT ![k] = Unlinked]

\* the record of a key that is found is deleted
Delete(k) ==
    /\ el = NULL
    /\ Find(k, hh[k].hashv) = k
    /\ HashDel(k)
    /\ UNCHANGED <<el, tmp, added>>

\* HASH_ITER(hh, sessions, el, tmp): the record after el is saved before the body
IterBegin ==
    /\ el = NULL
    /\ head # NULL
    /\ el' = head
    /\ tmp' = hh[head].next
    /\ UNCHANGED <<head, hh, tbl, added>>

\* mutation: the successor is read from the record after the body
IterAdvanceAfterBody ==
    /\ el' = hh'[el].next
    /\ UNCHANGED tmp

IterAdvance ==
    /\ el' = tmp
    /\ tmp' = IF tmp = NULL THEN NULL ELSE hh'[tmp].next

\* the body leaves the record ...
IterKeep ==
    /\ el # NULL
    /\ UNCHANGED <<head, hh, tbl, added>>
    /\ IterAdvance

\* ... or deletes it
IterDelete ==
    /\ el # NULL
    /\ HashDel(el)
    /\ IterAdvance
    /\ UNCHANGED added

Next ==
    \/ \E k \in Keys, v \in HashValues : Add(k, v)
    \/ \E k \in Keys : Delete(k)
    \/ IterBegin \/ IterKeep \/ IterDelete

Spec == Init /\ [][Next]_vars

-----------------------------------------------------------------------------
\* The types of the handles and of the table.  A table exists while a record is
\* linked, its array has 2^log2_num_buckets buckets and its tail is a record: what
\* HASH_MAKE_TABLE sets up, HASH_EXPAND_BUCKETS keeps and HASH_DELETE_HH frees.
UTHashTypeOK ==
    /\ head \in Link /\ el \in Link /\ tmp \in Link
    /\ hh \in [Keys -> Handle]
    /\ added \in 0 .. MaxAdds
    /\ (head = NULL) = (tbl = NoTable)
    /\ tbl # NoTable => /\ tbl.num_buckets = 2 ^ tbl.log2_num_buckets
                        /\ DOMAIN tbl.buckets = 0 .. tbl.num_buckets - 1
                        /\ tbl.tail \in Keys

\* what follows a link points back at it, the first one at nothing
BackLinked(list, back) ==
    \A i \in DOMAIN list : back[list[i]] = IF i = 1 THEN NULL ELSE list[i - 1]

\* HASH_FSCK, which a build without HASH_DEBUG leaves out: after every add, delete
\* and expansion each chain is linked both ways and as long as its bucket counts,
\* the application order is linked both ways, ends at tail, and both hold num_items
\* records.  A deletion patches up to four neighbours and a doubling relinks every
\* record, so any of them done in the wrong order loses or repeats records.
Fsck ==
    head # NULL =>
      /\ \A b \in DOMAIN tbl.buckets :
           LET chain == Chain(tbl, hh, b)
           IN /\ BackLinked(chain, [k \in Keys |-> hh[k].hh_prev])
              /\ tbl.buckets[b].count = Len(chain)
      /\ tbl.num_items = Cardinality(UNION {{b} \X (1 .. tbl.buckets[b].count) :
                                                b \in DOMAIN tbl.buckets})
      /\ BackLinked(AppOrder, [k \in Keys |-> hh[k].prev])
      /\ tbl.num_items = Len(AppOrder)
      /\ tbl.tail = Last(AppOrder)

\* HASH_FIND answers with the record of the key while it is in the application
\* order and with NULL otherwise, whatever the hash values collide on and however
\* often the array has doubled since the record was added (also when expansion is
\* inhibited: uthash.h:1124 "the hash will still work").
FindsExactlyTheLinked ==
    \A k \in Keys :
      IF k \in Range(AppOrder)
      THEN Find(k, hh[k].hashv) = k
      ELSE \A v \in HashValues : Find(k, v) = NULL

\* uthash.h:821 "the hash keeps a bound on the chain length": until doubling is
\* given up, a chain is shorter than its bucket's multiple of the threshold or no
\* longer than the last doubling, which sets the multiple anew, found it: at most
\* the ideal length, or one more than the bucket's multiple of it, since a chain of
\* one over the ideal length makes the multiple 1.
ChainsAreBounded ==
    ~tbl.noexpand =>
      \A b \in DOMAIN tbl.buckets :
        LET bkt == tbl.buckets[b]
        IN \/ bkt.count < (bkt.expand_mult + 1) * HASH_BKT_CAPACITY_THRESH
           \/ bkt.count <= tbl.ideal_chain_maxlen
           \/ bkt.count <= bkt.expand_mult * tbl.ideal_chain_maxlen + 1

\* the records that a walk has still to visit
ToVisit == IF el = NULL THEN <<>>
           ELSE <<el>> \o Follow(tmp, [k \in Keys |-> hh[k].next])

Ordered == INSTANCE KeyedList WITH list <- AppOrder, todo <- ToVisit

\* The two linked lists and the buckets implement the list of records that
\* SessionServer works on: HASH_ADD appends, HASH_DEL takes out one record and
\* keeps the order of the rest, and a HASH_ITER whose body deletes the record it
\* is at visits every record the table had, once, and none that is freed.
ImplementsList == Ordered!Spec
=============================================================================
