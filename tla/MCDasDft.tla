------------------------------ MODULE MCDasDft ------------------------------
(* Small instances of DasDft.                                                *)
EXTENDS DasDft, TLC

\* The threads are alike, and so are the heap slots.
Symmetry == Permutations(Thread) \cup Permutations(Plan)
=============================================================================
