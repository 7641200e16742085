----------------------------- MODULE MCRoutines -----------------------------
(* Instances for TLC of the routines that no two threads share.  A         *)
(* behaviour is one of Routines or one of Revealer.                        *)
EXTENDS Routines, Revealer

Searches == [of |-> "search"]

MCInit ==
  /\ RevealerInit
  /\ RoutinesInit \/ (Init /\ input = Searches)

MCNext ==
  \/ RoutinesNext /\ UNCHANGED revealerVars
  \/ input = Searches /\ RevealerNext /\ UNCHANGED <<iobufVars, input>>

MCSpec == MCInit /\ [][MCNext]_<<iobufVars, input, revealerVars>>

MCSerials == {0, 1, 258, 50594050, 2147483647}
MCPayloads == UNION {[1 .. n -> {0, 7, 255}] : n \in 0 .. 2}
Description(d) == [i \in 1 .. DeviceDescription |-> (i + d) % 256]
MCEnumerations == UNION {[1 .. n -> {Description(0), Description(100)}] : n \in 0 .. 3}
MCSources == UNION {[1 .. n -> {Break, Blank, Equals, "a", "b"}] : n \in 0 .. 7}

(* The array of addresses grows three times, from 10 to 15, 22 and 33.     *)
MCMaxAnswers == 30
=============================================================================
