-------------------------- MODULE MCSequenceDelivery --------------------------
(* Small instances of SequenceDelivery: contents are interchangeable. *)
EXTENDS SequenceDelivery, TLC

Symmetry == Permutations(Contents)

===============================================================================
