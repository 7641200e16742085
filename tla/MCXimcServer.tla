---------------------------- MODULE MCXimcServer ----------------------------
(* Instances of XimcServer for TLC. *)
EXTENDS XimcServerInv, FiniteSets, TLC

(* Connections are interchangeable, and so are controllers. *)
Symmetry == Permutations(Conns) \cup Permutations(Serials)

(* Bound: both connections may compete for one controller, or one of them  *)
(* may use both controllers and send a byte, but not both.                 *)
Conflict ==
  \/ \E s \in Serials : /\ \A h \in Handlers : serial[h] = s
                        /\ \A d \in Devices : reader[d] # "none" => d[2] = s
  \/ /\ Cardinality({c \in Conns : conn[c] # "new"}) <= 1
     /\ \A d, e \in Devices : d # e => accepted[d] + accepted[e] <= 1
=============================================================================
