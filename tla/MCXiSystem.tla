----------------------------- MODULE MCXiSystem -----------------------------
(* Instances of XiSystem for TLC. *)
EXTENDS XiSystemInv, TLC

(* Connection ids are interchangeable, and so are threads. *)
Symmetry == Permutations(Conns) \cup Permutations(Threads)
=============================================================================
