--------------------------- MODULE MCEnumeration ---------------------------
(* An instance of Enumeration for TLC. *)
EXTENDS EnumerationInv

MCInterfaces == <<"loopback", "ethernet">>

(* Connections are interchangeable, and so are threads and controllers. *)
Symmetry == Permutations(Conns) \cup Permutations(Threads) \cup Permutations(Serials)
=============================================================================
