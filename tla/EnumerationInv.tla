---------------------------- MODULE EnumerationInv ----------------------------
(***************************************************************************)
(* The inductive invariant of Enumeration, in parts: what the properties   *)
(* leave unsaid is that a connection is served once, and what a request    *)
(* has found while it is served.                                           *)
(***************************************************************************)
EXTENDS Enumeration

(* The loop over the devices is being worked through.                      *)
Looking == {"open", "query", "address", "push"}

Settled(structs) == \A i \in DOMAIN structs : structs[i].ipv4 = Last(Interfaces)

(* Nobody has been asked anything on this connection.                      *)
Fresh(c) ==
  /\ ~request[c]
  /\ handler[c] = "idle"
  /\ answer[c] = Unsent
  /\ s_enum[c] = "absent"

-----------------------------------------------------------------------------
LockInv ==
  /\ global_mutex \notin Threads
  /\ \A c \in Conns : global_mutex = c <=> callback[c] = "store"
  /\ \A c \in Conns : library_mutex = c <=> handler[c] = "enumerate"

(* A connection goes from the request to the answer, and not again.        *)
OnceInv ==
  /\ \A c \in Conns :
       /\ handler[c] # "idle" \/ answer[c] # Unsent => ~request[c]
       /\ answer[c] # Unsent => handler[c] = "idle"
       /\ callback[c] # "none" => answer[c] # Unsent
       /\ link[c] = "none" => Fresh(c)
  /\ \A t \in Threads : pc[t] = "send" => Fresh(conn_id[t])

(* Every call has its own connection, which is up.                         *)
ConnInv ==
  \A t \in Threads :
    /\ conn_id[t] # NoConn <=> pc[t] \in {"send", "wait"}
    /\ conn_id[t] # NoConn =>
         /\ link[conn_id[t]] = "up"
         /\ \A u \in Threads : conn_id[u] = conn_id[t] => u = t

EntryInv ==
  \A c \in Conns :
    /\ s_enum[c] = "flagged" <=> callback[c] = "store"
    /\ s_enum[c] = "full" <=> c \in copies
    /\ s_enum[c] = "full" \/ link[c] = "closed" => callback[c] = "done"
    /\ answer[c] # Unsent => answer[c].count = Len(answer[c].structs)

ResultInv ==
  \A t \in Threads : result[t].conn # NoConn => callback[result[t].conn] = "done"

InitInv ==
  /\ instance # "ready" => \A t, u \in Threads : pc[t] # "idle" /\ pc[u] # "idle" => t = u
  /\ instance = "made" => \E t \in Threads : pc[t] = "handler"
  /\ \A t \in Threads : /\ pc[t] \in {"key", "make"} => instance = "null"
                        /\ pc[t] = "handler" => instance = "made"

(* A device that is not free is the one the request has open, or somebody  *)
(* else has had it.                                                        *)
BusyInv ==
  \A c \in Conns : handler[c] # "idle" =>
    \A s \in Serials : \/ node[s] = "free"
                       \/ s \in busy[c]
                       \/ handler[c] = "query" /\ s = Head(dev_enum[c])

(* What nobody else has had and what could be opened is found already or   *)
(* is still to be looked at.                                               *)
ListOK(c) ==
  LET found == Named(descriptions[c])
      rest == dev_enum[c]
  IN  /\ handler[c] \notin Looking => descriptions[c] = <<>>
      /\ handler[c] \in Looking \ {"open"} => rest # <<>>
      /\ handler[c] \in Looking =>
           /\ Serials \ busy[c] \subseteq ToSet(found) \cup ToSet(rest)
           /\ ToSet(found) \cap ToSet(rest) = {}
           /\ IsInjective(found)
           /\ IsInjective(rest)

ListInv == \A c \in Conns : ListOK(c)

AloneInv ==
  \A c \in Conns : alone[c] /\ handler[c] # "idle" =>
    /\ \A d \in Conns \ {c} : handler[d] = "idle"
    /\ Settled(descriptions[c])
    /\ handler[c] = "push" => ext_ip = Last(Interfaces)

(* What a call, its connection, the entry in s_enum and the request on the *)
(* server know of each other fits together at any time, and with it every  *)
(* property of Enumeration: this is what every step keeps.                 *)
IInv ==
  /\ TypeOK
  /\ LockInv
  /\ OnceInv
  /\ ConnInv
  /\ EntryInv
  /\ ResultInv
  /\ InitInv
  /\ BusyInv
  /\ ListInv
  /\ AloneInv
  /\ ResultIsAnswer
  /\ BusyHidesOnlyItself
  /\ EnumerationClosesDevices
  /\ AddressSettled
  /\ NothingLeftAfterAnswer
  /\ InitMeansInstance
=============================================================================
