----------------------------- MODULE MCSessions -----------------------------
(* The addresses are interchangeable, and so are the appearances *)
EXTENDS Sessions, TLC

Symmetry == Permutations(Addresses) \cup Permutations(Appearances)
=============================================================================
