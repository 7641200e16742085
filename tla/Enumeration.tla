---------------------------- MODULE Enumeration ----------------------------
(***************************************************************************)
(* Enumeration from end to end: bindy_init, bindy_enumerate and bindy_free *)
(* of wrapper.cpp, the EnumerateAnswer case of its callback_data, and the  *)
(* server of EnumServer.                                                   *)
(*                                                                         *)
(* Every call of bindy_enumerate has a connection of its own.  The answer  *)
(* is handed over in s_enum, under global_mutex: callback_data stores a    *)
(* copy there, and the call that waits takes it away.  A call may give up  *)
(* at any time, and its answer may come afterwards.                        *)
(***************************************************************************)
EXTENDS EnumServer

CONSTANTS Threads  \* threads of the program

ASSUME EnumerationAssumption ==
  /\ Threads \cap Conns = {}
  /\ NoConn \notin Threads \cup Conns

VARIABLES
  instance,     \* "null", "made", or "ready" when its handler is set
  keyfile,      \* a key is set
  pc,           \* where each thread is
  conn_id,      \* enum_conn_id of its call
  result,       \* what its last call returned, until bindy_free
  global_mutex, \* of the client: the thread, or the connection whose
                \* callback has locked it
  callback,     \* "none", "store" or "done": callback_data with the
                \* EnumerateAnswer of each connection
  s_enum,       \* each entry: "absent", without an answer ("empty"), with
                \* recv set ("flagged"), or with recv and ptr ("full")
  copies,       \* connections whose copy of the answer is allocated
  link          \* "none", "up" or "closed"

initVars == <<instance, keyfile>>
enumVars == <<s_enum, copies>>
clientVars == <<initVars, pc, conn_id, result, global_mutex, callback, enumVars, link>>
vars == <<serverVars, clientVars>>

NoResult == [conn |-> NoConn, devices |-> 0, structs |-> <<>>]

Initializing == {"init", "key", "make", "handler"}
Enumerating == {"connect", "send", "wait"}

TypeOK ==
  /\ ServerTypeOK
  /\ instance \in {"null", "made", "ready"}
  /\ keyfile \in BOOLEAN
  /\ pc \in [Threads -> {"idle"} \cup Initializing \cup Enumerating]
  /\ conn_id \in [Threads -> Conns \cup {NoConn}]
  /\ result \in [Threads -> [conn : Conns \cup {NoConn}, devices : Nat,
                             structs : Seq(Descriptions)]]
  /\ global_mutex \in Threads \cup Conns \cup {NoConn}
  /\ callback \in [Conns -> {"none", "store", "done"}]
  /\ s_enum \in [Conns -> {"absent", "empty", "flagged", "full"}]
  /\ copies \subseteq Conns
  /\ link \in [Conns -> {"none", "up", "closed"}]

Init ==
  /\ ServerInit
  /\ instance = "null"
  /\ keyfile = FALSE
  /\ pc = [t \in Threads |-> "idle"]
  /\ conn_id = [t \in Threads |-> NoConn]
  /\ result = [t \in Threads |-> NoResult]
  /\ global_mutex = NoConn
  /\ callback = [c \in Conns |-> "none"]
  /\ s_enum = [c \in Conns |-> "absent"]
  /\ copies = {}
  /\ link = [c \in Conns |-> "none"]

-----------------------------------------------------------------------------
Goto(t, from, to) ==
  /\ pc[t] = from
  /\ pc' = [pc EXCEPT ![t] = to]

(* The call returns without an answer.  Its connection stays as it is.     *)
ReturnNothing(t, from) ==
  /\ Goto(t, from, "idle")
  /\ conn_id' = [conn_id EXCEPT ![t] = NoConn]

(* The program makes its first call, and repeats one that could not        *)
(* initialize the library, while no other call is made.                    *)
FirstCallAlone == instance = "ready" \/ \A t \in Threads : pc[t] = "idle"

CallEnumerate(t) ==
  /\ FirstCallAlone
  /\ result[t] = NoResult
  /\ Goto(t, "idle", "init")
  /\ UNCHANGED <<serverVars, initVars, conn_id, result, global_mutex, callback,
                 enumVars, link>>

(* bindy_setkey; without memory the old key is lost as well.  When there   *)
(* is an instance nothing looks at the key any more.                       *)
CallSetKey(t) ==
  /\ FirstCallAlone
  /\ instance # "ready"
  /\ pc[t] = "idle"
  /\ keyfile' \in BOOLEAN
  /\ UNCHANGED <<serverVars, instance, pc, conn_id, result, global_mutex, callback,
                 enumVars, link>>

(* bindy_free.                                                             *)
FreeResult(t) ==
  /\ pc[t] = "idle"
  /\ result[t] # NoResult
  /\ result' = [result EXCEPT ![t] = NoResult]
  /\ UNCHANGED <<serverVars, initVars, pc, conn_id, global_mutex, callback, enumVars, link>>

-----------------------------------------------------------------------------
(* bindy_init, in which everything may throw.                              *)
Inits(t) ==
  UNCHANGED <<serverVars, result, global_mutex, callback, enumVars, link>>

InitDone(t) ==
  /\ Goto(t, "init", IF instance # "null" THEN "connect" ELSE "key")
  /\ UNCHANGED <<initVars, conn_id>>
  /\ Inits(t)

(* Without a key, ":memory:" is set.                                       *)
SetKey(t) ==
  /\ Goto(t, "key", "make")
  /\ keyfile' = TRUE
  /\ UNCHANGED <<instance, conn_id>>
  /\ Inits(t)

SetKeyFails(t) ==
  /\ ~keyfile
  /\ ReturnNothing(t, "key")
  /\ UNCHANGED initVars
  /\ Inits(t)

MakeInstance(t) ==
  /\ Goto(t, "make", "handler")
  /\ instance' = "made"
  /\ UNCHANGED <<keyfile, conn_id>>
  /\ Inits(t)

SetHandler(t) ==
  /\ Goto(t, "handler", "connect")
  /\ instance' = "ready"
  /\ UNCHANGED <<keyfile, conn_id>>
  /\ Inits(t)

InitThrowsKeeps(t) ==  \* faulty variant: instance is not reset
  /\ ReturnNothing(t, "make") \/ ReturnNothing(t, "handler")
  /\ UNCHANGED initVars
  /\ Inits(t)

InitThrows(t) ==
  /\ ReturnNothing(t, "make") \/ ReturnNothing(t, "handler")
  /\ instance' = "null"
  /\ UNCHANGED keyfile
  /\ Inits(t)

-----------------------------------------------------------------------------
(* bindy_enumerate.                                                        *)
Connect(t, c) ==
  /\ link[c] = "none"
  /\ link' = [link EXCEPT ![c] = "up"]
  /\ conn_id' = [conn_id EXCEPT ![t] = c]
  /\ Goto(t, "connect", "send")
  /\ UNCHANGED <<serverVars, initVars, result, global_mutex, callback, enumVars>>

ConnectThrows(t) ==
  /\ ReturnNothing(t, "connect")
  /\ UNCHANGED <<serverVars, initVars, result, global_mutex, callback, enumVars, link>>

(* adaptive_wait_send sends the request, or gives it up, and the call      *)
(* waits all the same.                                                     *)
SendRequest(t) ==
  /\ Goto(t, "send", "wait")
  /\ request' \in {request, [request EXCEPT ![conn_id[t]] = TRUE]}
  /\ UNCHANGED <<running, big, node, library_mutex, ext_ip, handlerVars, answer, changes, busy,
                 alone, initVars, conn_id, result, global_mutex, callback, enumVars, link>>

SendThrows(t) ==
  /\ ReturnNothing(t, "send")
  /\ UNCHANGED <<serverVars, initVars, result, global_mutex, callback, enumVars, link>>

(* The wait is over, because recv was seen or the time is up.  Without an  *)
(* answer the call returns at once; looking for the entry has made one.    *)
NothingReceived(t) ==
  /\ pc[t] = "wait"
  /\ global_mutex = NoConn
  /\ s_enum[conn_id[t]] \in {"absent", "empty"}
  /\ s_enum' = [s_enum EXCEPT ![conn_id[t]] = "empty"]
  /\ ReturnNothing(t, "wait")
  /\ UNCHANGED <<serverVars, initVars, result, callback, copies, link>>

CollectNothingLocked(t) ==  \* faulty variant: the early return keeps global_mutex
  NothingReceived(t) /\ global_mutex' = t

CollectNothing(t) ==
  NothingReceived(t) /\ UNCHANGED global_mutex

(* The structs are copied for the program, the entry is cleaned up, and    *)
(* the connection is closed.                                               *)
TakeAnswer(t) ==
  LET c == conn_id[t]
  IN  /\ pc[t] = "wait"
      /\ s_enum[c] \in {"flagged", "full"}
      /\ result' = [result EXCEPT ![t] =
           [conn |-> c,
            devices |-> IF c \in copies THEN answer[c].count ELSE 0,
            structs |-> IF c \in copies THEN answer[c].structs ELSE <<>>]]
      /\ s_enum' = [s_enum EXCEPT ![c] = "absent"]
      /\ link' = [link EXCEPT ![c] = "closed"]
      /\ ReturnNothing(t, "wait")
      /\ UNCHANGED <<serverVars, initVars, global_mutex, callback>>

CollectUnlocked(t) ==  \* faulty variant: s_enum is read without global_mutex
  TakeAnswer(t) /\ copies' = copies \ {conn_id[t]}

CollectKeepsCopy(t) ==  \* faulty variant: the entry is erased, its copy is not freed
  global_mutex = NoConn /\ TakeAnswer(t) /\ UNCHANGED copies

CollectAnswer(t) ==
  global_mutex = NoConn /\ TakeAnswer(t) /\ copies' = copies \ {conn_id[t]}

-----------------------------------------------------------------------------
(* callback_data of the client: recv is set, and the answer is copied.     *)
AnswerReceived(c) ==
  /\ answer[c] # Unsent
  /\ callback[c] = "none"
  /\ global_mutex = NoConn
  /\ global_mutex' = c
  /\ callback' = [callback EXCEPT ![c] = "store"]
  /\ s_enum' = [s_enum EXCEPT ![c] = "flagged"]
  /\ UNCHANGED <<serverVars, initVars, pc, conn_id, result, copies, link>>

AnswerStored(c) ==
  /\ callback[c] = "store"
  /\ callback' = [callback EXCEPT ![c] = "done"]
  /\ s_enum' = [s_enum EXCEPT ![c] = "full"]
  /\ copies' = copies \cup {c}
  /\ global_mutex' = NoConn
  /\ UNCHANGED <<serverVars, initVars, pc, conn_id, result, link>>

-----------------------------------------------------------------------------
ThreadStep(t) ==
  \/ InitDone(t) \/ SetKey(t) \/ SetKeyFails(t)
  \/ MakeInstance(t) \/ SetHandler(t) \/ InitThrows(t)
  \/ ConnectThrows(t) \/ \E c \in Conns : Connect(t, c)
  \/ SendRequest(t) \/ SendThrows(t)
  \/ CollectNothing(t) \/ CollectAnswer(t)
  \/ FreeResult(t)

ServerStep ==
  /\ running
  /\ \/ \E c \in Conns : ReceiveEnumerate(c) \/ EnumerateStep(c) \/ Exit(c)
     \/ \E s \in Serials : Outside(s)
  /\ UNCHANGED clientVars

Next ==
  \/ \E t \in Threads : CallEnumerate(t) \/ CallSetKey(t) \/ ThreadStep(t)
  \/ \E c \in Conns : AnswerReceived(c) \/ AnswerStored(c)
  \/ ServerStep

Spec == Init /\ [][Next]_vars

-----------------------------------------------------------------------------
(* What bindy_enumerate returns is what the server answered on the         *)
(* connection of that call, whole, and the number it returns is the number *)
(* of structs the program may read: neither a description that is missing, *)
(* nor an answer half stored, nor the answer to another thread.            *)
ResultIsAnswer ==
  \A t \in Threads : result[t].conn # NoConn =>
    /\ result[t].structs = answer[result[t].conn].structs
    /\ result[t].devices = Len(result[t].structs)

(* The controllers that the structs of an answer speak of.                 *)
Named(structs) == [i \in DOMAIN structs |-> structs[i].serial]

(* A controller that is in use, that has been unplugged or that libximc    *)
(* cannot open hides itself from the enumeration and no other: every other *)
(* attached controller is in the answer, and none is in it twice.          *)
BusyHidesOnlyItself ==
  \A c \in Conns : answer[c] # Unsent =>
    /\ Serials \ busy[c] \subseteq ToSet(Named(answer[c].structs))
    /\ IsInjective(Named(answer[c].structs))

(* An enumeration has a device open only while it asks that device who it  *)
(* is.  (A serial that std::stoi cannot parse is the exception: its device *)
(* stays open.)                                                            *)
EnumerationClosesDevices ==
  running => \A c \in Conns, s \in Serials \ big :
    node[s] = c => handler[c] = "query" /\ Head(dev_enum[c]) = s

(* The address that a program is to connect to is that of the last         *)
(* interface, the one main prints, in every answer to a request that was   *)
(* served alone.  (Requests that are served together may read what the     *)
(* other is just writing.)                                                 *)
AddressSettled ==
  \A c \in Conns : answer[c] # Unsent /\ alone[c] =>
    \A i \in DOMAIN answer[c].structs : answer[c].structs[i].ipv4 = Last(Interfaces)

(* A call that got its answer leaves nothing behind: its connection is     *)
(* closed, its entry is gone and the copy is freed; and no copy is ever    *)
(* out of reach, also not one that comes after the call has given up.      *)
NothingLeftAfterAnswer ==
  /\ \A t \in Threads : result[t].conn # NoConn => link[result[t].conn] = "closed"
  /\ \A c \in Conns : link[c] = "closed" => s_enum[c] = "absent"
  /\ \A c \in copies : s_enum[c] = "full"

(* "assumes old bindy is alive" (bindy_init): whatever threw in earlier    *)
(* calls, a call that goes on has an instance whose handler is set, and    *)
(* that instance was made with a key ("can't work without key set").       *)
InitMeansInstance ==
  \A t \in Threads : /\ pc[t] \in Enumerating => instance = "ready"
                     /\ pc[t] = "make" => keyfile

(* No call, callback or request ends with a mutex locked, whichever way it *)
(* ends: global_mutex of the client is held from one step to the next only *)
(* by a callback that is about to store its answer, and global_mutex of    *)
(* the server only by a request that asks libximc for the devices.         *)
MutexesInside ==
  /\ global_mutex # NoConn => global_mutex \in Conns /\ callback[global_mutex] = "store"
  /\ library_mutex # NoConn => handler[library_mutex] = "enumerate"
=============================================================================
