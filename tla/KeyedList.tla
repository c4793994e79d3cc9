------------------------------- MODULE KeyedList -------------------------------
(***************************************************************************)
(* What uthash promises the table functions of the server, and what        *)
(* SessionServer takes for granted in its one-step HASH_ADD and HASH_DEL:  *)
(* a list of records in the order they were added, found by key, and a     *)
(* walk over it (HASH_ITER) that may delete the record it stands at.       *)
(***************************************************************************)
EXTENDS Naturals, Sequences, SequencesExt

CONSTANT Keys

VARIABLES
    list,   \* the keys of the linked records, oldest first
    todo    \* the keys the walk in progress has still to visit

vars == <<list, todo>>

Init == list = <<>> /\ todo = <<>>

Add(k) ==
    /\ todo = <<>>
    /\ k \notin Range(list)
    /\ list' = Append(list, k)
    /\ UNCHANGED todo

\* the record of key k is taken out, the others stay as they are
Without(k) == \E i \in DOMAIN list : list[i] = k /\ list' = RemoveAt(list, i)

Delete(k) ==
    /\ todo = <<>>
    /\ Without(k)
    /\ UNCHANGED todo

Begin ==
    /\ todo = <<>>
    /\ todo' = list
    /\ UNCHANGED list

\* every record the walk began with is visited, and once
Visit ==
    /\ todo # <<>>
    /\ list' = list \/ Without(Head(todo))
    /\ todo' = Tail(todo)

Next == Begin \/ Visit \/ \E k \in Keys : Add(k) \/ Delete(k)

Spec == Init /\ [][Next]_vars
=============================================================================
