----------------------------- MODULE EnumServer -----------------------------
(***************************************************************************)
(* linux-server.cpp: EnumerateRequest.  callback_data asks libximc for the *)
(* attached controllers, opens each one, asks it who it is, closes it and  *)
(* answers with one description per controller.  The requests of two       *)
(* connections are served by two threads at the same time; they share the  *)
(* device nodes, which can be open once, with each other and with the      *)
(* sessions of XimcServer, and the address of the host (ext_ip) that       *)
(* get_ext_ip writes again for each description.                           *)
(*                                                                         *)
(* A packet is a record of what the other side reads from it.              *)
(***************************************************************************)
EXTENDS Integers, Sequences, FiniteSets, SequencesExt

CONSTANTS
  Conns,       \* connections of the peers that enumerate
  Serials,     \* serial numbers of the controllers that can be attached
  Interfaces,  \* addresses of the AF_INET interfaces of the host, in order
  MaxChanges,  \* bound: how often devices change hands elsewhere
  Torn         \* an address that two threads have written at once

Addresses == ToSet(Interfaces) \cup {Torn}

ASSUME EnumServerAssumption ==
  /\ Conns \cap {"free", "session", "absent"} = {}
  /\ IsFiniteSet(Serials)
  /\ Interfaces \in Seq(ToSet(Interfaces)) \ {<<>>}
  /\ MaxChanges \in Nat

VARIABLES
  running,       \* the server process has not ended
  big,           \* the serials from 80000000 (hexadecimal) on
  node,          \* "free", "absent", in a "session", or the connection for
                 \* which an enumeration has it open
  library_mutex, \* global_mutex of the server: the connection that holds it
  ext_ip,        \* the address of the host, as last written
  handler,       \* where the callback of each connection is
  dev_enum,      \* the devices it has not looked at yet
  ifa,           \* the interface that get_ext_ip looks at
  descriptions,  \* what has been found so far
  request,       \* whether an EnumerateRequest is on its way
  answer,        \* the EnumerateAnswer that was sent, or Unsent
  changes,       \* history: how often devices have changed hands elsewhere
  busy,          \* history: devices somebody else had during the request, or
                 \* that could not be opened
  alone          \* history: no other request was served meanwhile

handlerVars == <<handler, dev_enum, ifa, descriptions>>
serverVars == <<running, big, node, library_mutex, ext_ip, handlerVars,
                request, answer, changes, busy, alone>>

NoConn == "none"
Unsent == [count |-> -1, structs |-> <<>>]
Descriptions == [serial : Serials, ipv4 : Addresses]
Handling == {"lock", "enumerate", "open", "query", "address", "push"}

ServerTypeOK ==
  /\ running \in BOOLEAN
  /\ big \subseteq Serials
  /\ node \in [Serials -> Conns \cup {"free", "absent", "session"}]
  /\ library_mutex \in Conns \cup {NoConn}
  /\ ext_ip \in Addresses
  /\ handler \in [Conns -> Handling \cup {"idle"}]
  /\ dev_enum \in [Conns -> Seq(Serials)]
  /\ ifa \in [Conns -> DOMAIN Interfaces]
  /\ descriptions \in [Conns -> Seq(Descriptions)]
  /\ request \in [Conns -> BOOLEAN]
  /\ answer \in [Conns -> [count : Nat, structs : Seq(Descriptions)] \cup {Unsent}]
  /\ changes \in Nat
  /\ busy \in [Conns -> SUBSET Serials]
  /\ alone \in [Conns -> BOOLEAN]

(* main has called get_ext_ip before the first request.                    *)
ServerInit ==
  /\ running = TRUE
  /\ big \in SUBSET Serials
  /\ node = [s \in Serials |-> "free"]
  /\ library_mutex = NoConn
  /\ ext_ip = Last(Interfaces)
  /\ handler = [c \in Conns |-> "idle"]
  /\ dev_enum = [c \in Conns |-> <<>>]
  /\ ifa = [c \in Conns |-> 1]
  /\ descriptions = [c \in Conns |-> <<>>]
  /\ request = [c \in Conns |-> FALSE]
  /\ answer = [c \in Conns |-> Unsent]
  /\ changes = 0
  /\ busy = [c \in Conns |-> {}]
  /\ alone = [c \in Conns |-> FALSE]

-----------------------------------------------------------------------------
Step(c, from, to) ==
  /\ handler[c] = from
  /\ handler' = [handler EXCEPT ![c] = to]

(* Device s is no longer free for anybody but c.                           *)
Occupies(s, c) ==
  busy' = [d \in Conns |-> IF handler[d] # "idle" /\ d # c
                             THEN busy[d] \cup {s} ELSE busy[d]]

(* A session opens or closes the controller, or it is unplugged or plugged *)
(* in, while nobody has it open.                                           *)
Elsewhere(s, from, to) ==
  /\ node[s] = from
  /\ changes < MaxChanges
  /\ changes' = changes + 1
  /\ node' = [node EXCEPT ![s] = to]
  /\ Occupies(s, NoConn)
  /\ UNCHANGED <<running, big, library_mutex, ext_ip, handlerVars, request, answer, alone>>

SessionOpens(s) == Elsewhere(s, "free", "session")
SessionCloses(s) == Elsewhere(s, "session", "free")
Unplug(s) == Elsewhere(s, "free", "absent")
Plug(s) == Elsewhere(s, "absent", "free")

-----------------------------------------------------------------------------
ReceiveEnumerate(c) ==
  /\ request[c]
  /\ Step(c, "idle", "lock")
  /\ request' = [request EXCEPT ![c] = FALSE]
  /\ busy' = [busy EXCEPT ![c] = {s \in Serials : node[s] # "free"}]
  /\ alone' = [d \in Conns |->
                 IF d = c THEN \A e \in Conns \ {c} : handler[e] = "idle"
                          ELSE alone[d] /\ handler[d] = "idle"]
  /\ UNCHANGED <<running, big, node, library_mutex, ext_ip, dev_enum,
                 ifa, descriptions, answer, changes>>

LockLibrary(c) ==
  /\ library_mutex = NoConn
  /\ library_mutex' = c
  /\ Step(c, "lock", "enumerate")
  /\ UNCHANGED <<running, big, node, ext_ip, dev_enum, ifa, descriptions,
                 request, answer, changes, busy, alone>>

(* enumerate_devices lists what is plugged in, in whatever order udev has  *)
(* it; global_mutex is unlocked.                                           *)
EnumerateDevices(c) ==
  /\ \E list \in SetToSeqs({s \in Serials : node[s] # "absent"}) :
       dev_enum' = [dev_enum EXCEPT ![c] = list]
  /\ library_mutex' = NoConn
  /\ Step(c, "enumerate", "open")
  /\ UNCHANGED <<running, big, node, ext_ip, ifa, descriptions,
                 request, answer, changes, busy, alone>>

(* open_device fails: somebody has the device, it is gone by now, or for   *)
(* a reason of its own.                                                    *)
OpenFailsAll(c) ==  \* faulty variant: the first failure ends the loop
  /\ dev_enum[c] # <<>>
  /\ busy' = [busy EXCEPT ![c] = @ \cup {Head(dev_enum[c])}]
  /\ dev_enum' = [dev_enum EXCEPT ![c] = <<>>]
  /\ Step(c, "open", "open")
  /\ UNCHANGED <<running, big, node, library_mutex, ext_ip, ifa,
                 descriptions, request, answer, changes, alone>>

OpenFails(c) ==
  /\ dev_enum[c] # <<>>
  /\ busy' = [busy EXCEPT ![c] = @ \cup {Head(dev_enum[c])}]
  /\ dev_enum' = [dev_enum EXCEPT ![c] = Tail(@)]
  /\ Step(c, "open", "open")
  /\ UNCHANGED <<running, big, node, library_mutex, ext_ip, ifa,
                 descriptions, request, answer, changes, alone>>

OpenDevice(c) ==
  /\ dev_enum[c] # <<>>
  /\ node[Head(dev_enum[c])] = "free"
  /\ node' = [node EXCEPT ![Head(dev_enum[c])] = c]
  /\ Occupies(Head(dev_enum[c]), c)
  /\ Step(c, "open", "query")
  /\ UNCHANGED <<running, big, library_mutex, ext_ip, dev_enum, ifa,
                 descriptions, request, answer, changes, alone>>

(* The callback ends and its locals go.                                    *)
Finish(c, label) ==
  /\ Step(c, label, "idle")
  /\ dev_enum' = [dev_enum EXCEPT ![c] = <<>>]
  /\ descriptions' = [descriptions EXCEPT ![c] = <<>>]
  /\ UNCHANGED <<running, big, library_mutex, ext_ip, ifa, request, changes, busy, alone>>

(* std::stoi throws: the serial is no int.  The device is open by now, and *)
(* nobody is left who would close it.                                      *)
ParseThrows(c) ==
  /\ handler[c] = "query"
  /\ Head(dev_enum[c]) \in big
  /\ Finish(c, "query")
  /\ UNCHANGED <<node, answer>>

(* Three questions; then close_device.  A device that fails to answer is   *)
(* listed as well, with another name.                                      *)
Query(c) ==
  /\ Step(c, "query", "address")
  /\ Head(dev_enum[c]) \notin big
  /\ UNCHANGED <<running, big, library_mutex, ext_ip, dev_enum, ifa, descriptions,
                 request, answer, changes, busy, alone>>

QueryStaysOpen(c) ==  \* faulty variant: close_device is only called for a good device
  /\ Query(c)
  /\ node' \in {node, [node EXCEPT ![Head(dev_enum[c])] = "free"]}

QueryDevice(c) ==
  /\ Query(c)
  /\ node' = [node EXCEPT ![Head(dev_enum[c])] = "free"]

(* get_ext_ip: every interface is written to ext_ip, so the last one stays *)
(* there.  The text of the address is in a global array: two threads that  *)
(* write it at once may get anything.                                      *)
WriteAddress(c, address) ==
  /\ handler[c] = "address"
  /\ address = Torn => \E d \in Conns \ {c} : handler[d] = "address"
  /\ address # Torn => address = Interfaces[ifa[c]]
  /\ ext_ip' = address
  /\ UNCHANGED <<running, big, node, library_mutex, dev_enum, descriptions,
                 request, answer, changes, busy, alone>>

WalkUntil(c, last) ==
  IF last THEN ifa' = [ifa EXCEPT ![c] = 1] /\ Step(c, "address", "push")
          ELSE ifa' = [ifa EXCEPT ![c] = @ + 1] /\ Step(c, "address", "address")

StopAtFirst(c, address) ==  \* faulty variant: the first interface is taken
  WriteAddress(c, address) /\ WalkUntil(c, TRUE)

WalkPastEnd(c, address) ==  \* faulty variant: off by one
  WriteAddress(c, address) /\ WalkUntil(c, ifa[c] > Len(Interfaces))

NextInterface(c, address) ==
  WriteAddress(c, address) /\ WalkUntil(c, ifa[c] = Len(Interfaces))

(* getifaddrs or getnameinfo fails: exit(EXIT_FAILURE).                    *)
Exit(c) ==
  /\ handler[c] = "address"
  /\ running' = FALSE
  /\ node' = [s \in Serials |-> IF node[s] = "absent" THEN "absent" ELSE "free"]
  /\ UNCHANGED <<big, library_mutex, ext_ip, handlerVars, request, answer, changes, busy, alone>>

Push(c) ==
  /\ Step(c, "push", "open")
  /\ descriptions' = [descriptions EXCEPT ![c] =
       Append(@, [serial |-> Head(dev_enum[c]), ipv4 |-> ext_ip])]
  /\ dev_enum' = [dev_enum EXCEPT ![c] = Tail(@)]
  /\ UNCHANGED <<running, big, node, library_mutex, ext_ip, ifa,
                 request, answer, changes, busy, alone>>

EnumerateAnswer(c) ==
  [count |-> Len(descriptions[c]), structs |-> descriptions[c]]

(* The answer is sent, or send_data gives it up.                           *)
SendAnswer(c) ==
  /\ handler[c] = "open"
  /\ dev_enum[c] = <<>>
  /\ Finish(c, "open")
  /\ answer' \in {answer, [answer EXCEPT ![c] = EnumerateAnswer(c)]}
  /\ UNCHANGED node

EnumerateStep(c) ==
  \/ LockLibrary(c) \/ EnumerateDevices(c)
  \/ OpenFails(c) \/ OpenDevice(c) \/ ParseThrows(c) \/ QueryDevice(c)
  \/ \E address \in Addresses : NextInterface(c, address)
  \/ Push(c) \/ SendAnswer(c)

Outside(s) == SessionOpens(s) \/ SessionCloses(s) \/ Unplug(s) \/ Plug(s)
=============================================================================
