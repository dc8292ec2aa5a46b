--------------------------- MODULE MCSequenceRing ---------------------------
(* SequenceRing for TLC. *)
EXTENDS SequenceRing, TLC

Interchangeable == Permutations(Producers) \cup Permutations(Consumers)
=============================================================================
