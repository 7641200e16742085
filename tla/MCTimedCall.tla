----------------------------- MODULE MCTimedCall -----------------------------
(* Instances of TimedCall for TLC. *)
EXTENDS TimedCall

(* Timeouts below, at and above every threshold of the first nine delays:  *)
(* 2, 3, 4, 6, 9, 13, 19, 28 and 42.                                       *)
MCTimeouts == -1 .. 130
=============================================================================
