--------------------------- MODULE DeviceRegistry ---------------------------
(***************************************************************************)
(* What the XIMC server promises about the controllers it exports, with no *)
(* thread, no mutex and no Device object in sight: a controller has at     *)
(* most one owner, only a connection that is being served may become one,  *)
(* and a connection is not finished before it has given back everything it *)
(* owned.  XimcServer implements this specification.                       *)
(***************************************************************************)
CONSTANTS
  Conns,    \* connections of the transport library
  Serials,  \* serial numbers of the controllers attached to this host
  NoConn    \* the owner of a controller that nobody has opened

VARIABLES
  session,  \* how far each connection is: "new", "open" or "over"
  owner,    \* the connection that has opened each controller
  halted    \* the server process has died

registryVars == <<session, owner, halted>>

Init ==
  /\ session = [c \in Conns |-> "new"]
  /\ owner = [s \in Serials |-> NoConn]
  /\ halted = FALSE

(* A peer connects. *)
Join(c) ==
  /\ session[c] = "new"
  /\ session' = [session EXCEPT ![c] = "open"]
  /\ UNCHANGED <<owner, halted>>

(* A free controller is opened for a connection that is being served. *)
Acquire(c, s) ==
  /\ session[c] = "open"
  /\ owner[s] = NoConn
  /\ owner' = [owner EXCEPT ![s] = c]
  /\ UNCHANGED <<session, halted>>

(* A controller is given back, because its owner closed it or went away. *)
Release(c, s) ==
  /\ owner[s] = c
  /\ owner' = [owner EXCEPT ![s] = NoConn]
  /\ UNCHANGED <<session, halted>>

(* A connection is finished; it leaves nothing behind. *)
Leave(c) ==
  /\ session[c] = "open"
  /\ \A s \in Serials : owner[s] # c
  /\ session' = [session EXCEPT ![c] = "over"]
  /\ UNCHANGED <<owner, halted>>

(* The process dies and the kernel closes every file it had open. *)
Halt ==
  /\ halted' = TRUE
  /\ owner' = [s \in Serials |-> NoConn]
  /\ UNCHANGED session

Next ==
  /\ ~halted
  /\ \/ \E c \in Conns : Join(c) \/ Leave(c)
     \/ \E c \in Conns, s \in Serials : Acquire(c, s) \/ Release(c, s)
     \/ Halt

Spec == Init /\ [][Next]_registryVars
=============================================================================
