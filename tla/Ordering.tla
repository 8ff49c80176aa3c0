------------------------------- MODULE Ordering --------------------------------
(***************************************************************************)
(* The members of a set in their order: what sorted() returns for elements *)
(* that are all different.                                                 *)
(***************************************************************************)
EXTENDS Integers, FiniteSets

\* The members of a finite set in the order of less, a strict linear order.
Arranged(S, less(_, _)) ==
  [i \in 1 .. Cardinality(S) |->
    CHOOSE x \in S : Cardinality({y \in S : less(y, x)}) = i - 1]

\* Numbers in their order.
InOrder(S) == Arranged(S, <)

\* The elements of a sequence at some of its places, in their order.
Picked(seq, places) ==
  LET at == InOrder(places) IN [k \in DOMAIN at |-> seq[at[k]]]
===============================================================================
