------------------------------ MODULE MCSignal ------------------------------
(* Signal on small sets; subscribers are interchangeable. *)
EXTENDS Signal, TLC

Symmetry == Permutations(Subs)
=============================================================================
