-------------------------- MODULE EnumerationProofs --------------------------
(***************************************************************************)
(* Theorems about Enumeration, for every number of threads, connections,   *)
(* controllers and network interfaces.                                     *)
(***************************************************************************)
EXTENDS EnumerationInv, TLAPS, SequenceTheorems, FiniteSetTheorems

(* The steps of a thread of the program, of the client's callback, and of  *)
(* the callback of the server, each for one connection.                    *)
Program(t) == CallEnumerate(t) \/ CallSetKey(t) \/ ThreadStep(t)
Received(c) == AnswerReceived(c) \/ AnswerStored(c)
Served(c) == ReceiveEnumerate(c) \/ EnumerateStep(c) \/ Exit(c)

-----------------------------------------------------------------------------
(* Sequences and the sets of their members. *)

(* What a sequence begins with, and what is left of it.                    *)
LEMMA TailFacts ==
  ASSUME NEW S, NEW q \in Seq(S), q # <<>>
  PROVE  /\ Head(q) \in S /\ Tail(q) \in Seq(S)
         /\ ToSet(q) = {Head(q)} \cup ToSet(Tail(q))
         /\ IsInjective(q) => IsInjective(Tail(q)) /\ Head(q) \notin ToSet(Tail(q))
<1>1. PICK n \in Nat \ {0} : n = Len(q)
  BY EmptySeq
<1>2. /\ Head(q) = q[1] /\ Head(q) \in S /\ Tail(q) \in Seq(S)
      /\ DOMAIN q = 1 .. n /\ DOMAIN Tail(q) = 1 .. n - 1
      /\ \A i \in 1 .. n - 1 : Tail(q)[i] = q[i + 1] /\ i + 1 \in 1 .. n
  BY <1>1
<1>3. \A i \in 1 .. n : i = 1 \/ (i - 1 \in 1 .. n - 1 /\ q[i] = Tail(q)[i - 1])
  BY <1>1, <1>2
<1>4. ToSet(q) = {Head(q)} \cup ToSet(Tail(q))
  <2>1. 1 \in 1 .. n
    BY <1>1
  <2>2. ASSUME NEW i \in 1 .. n PROVE q[i] = Head(q) \/ q[i] \in ToSet(Tail(q))
    <3>1. CASE i = 1
      BY <1>2, <3>1
    <3>2. CASE i - 1 \in 1 .. n - 1 /\ q[i] = Tail(q)[i - 1]
      BY <1>2, <3>2 DEF ToSet
    <3> QED
      BY <1>3, <3>1, <3>2
  <2>3. {Head(q)} \cup ToSet(Tail(q)) \subseteq ToSet(q)
    BY <1>2, <2>1 DEF ToSet
  <2>4. \A x \in ToSet(q) : \E i \in 1 .. n : x = q[i]
    BY <1>2 DEF ToSet
  <2> QED
    BY <2>2, <2>3, <2>4
<1>5. ASSUME IsInjective(q)
      PROVE  IsInjective(Tail(q)) /\ Head(q) \notin ToSet(Tail(q))
  <2>1. \A i, j \in 1 .. n : q[i] = q[j] => i = j
    BY <1>1, <1>2, <1>5 DEF IsInjective
  <2>2. \A i, j \in 1 .. n - 1 : i + 1 = j + 1 => i = j
    BY <1>1
  <2>3. \A i \in 1 .. n - 1 : i + 1 # 1 /\ 1 \in 1 .. n
    BY <1>1
  <2>4. IsInjective(Tail(q))
    BY <1>2, <2>1, <2>2 DEF IsInjective
  <2>5. Head(q) \notin ToSet(Tail(q))
    BY <1>2, <2>1, <2>3 DEF ToSet
  <2> QED
    BY <2>4, <2>5
<1> QED
  BY <1>2, <1>4, <1>5

(* What a sequence holds when something is added.                          *)
LEMMA AppendFacts ==
  ASSUME NEW S, NEW q \in Seq(S), NEW e \in S
  PROVE  /\ Append(q, e) \in Seq(S) /\ Len(Append(q, e)) = Len(q) + 1
         /\ ToSet(Append(q, e)) = ToSet(q) \cup {e}
         /\ IsInjective(q) /\ e \notin ToSet(q) => IsInjective(Append(q, e))
<1>1. PICK n \in Nat : n = Len(q)
  OBVIOUS
<1>2. /\ Append(q, e) \in Seq(S) /\ Len(Append(q, e)) = n + 1
      /\ DOMAIN q = 1 .. n /\ DOMAIN Append(q, e) = 1 .. n + 1
      /\ \A i \in 1 .. n : Append(q, e)[i] = q[i]
      /\ Append(q, e)[n + 1] = e
  BY <1>1
<1>3. \A i \in 1 .. n + 1 : i \in 1 .. n \/ i = n + 1
  BY <1>1
<1>4. n + 1 \in 1 .. n + 1 /\ 1 .. n \subseteq 1 .. n + 1
  BY <1>1
<1>5. ToSet(Append(q, e)) = ToSet(q) \cup {e}
  BY <1>2, <1>3, <1>4 DEF ToSet
<1>6. IsInjective(q) /\ e \notin ToSet(q) => IsInjective(Append(q, e))
  BY <1>2, <1>3, <1>4 DEF ToSet, IsInjective
<1> QED
  BY <1>1, <1>2, <1>5, <1>6

(* The controllers that structs speak of, one for each.                    *)
LEMMA NamedFacts ==
  ASSUME NEW structs \in Seq(Descriptions), NEW desc \in Descriptions
  PROVE  /\ Named(structs) \in Seq(Serials)
         /\ Named(Append(structs, desc)) = Append(Named(structs), desc.serial)
         /\ Named(<<>>) = <<>>
<1>1. PICK n \in Nat : n = Len(structs)
  OBVIOUS
<1>2. /\ DOMAIN structs = 1 .. n /\ \A i \in 1 .. n : structs[i] \in Descriptions
      /\ DOMAIN Append(structs, desc) = 1 .. n + 1
      /\ \A i \in 1 .. n : Append(structs, desc)[i] = structs[i]
      /\ Append(structs, desc)[n + 1] = desc
  BY <1>1
<1>3. Named(structs) \in Seq(Serials)
  BY <1>1, <1>2 DEF Named, Descriptions
<1>4. Named(Append(structs, desc)) = Append(Named(structs), desc.serial)
  <2>1. Len(Named(structs)) = n
    BY <1>1, <1>2 DEF Named
  <2> QED
    BY <1>1, <1>2, <1>3, <2>1 DEF Named
<1>5. Named(<<>>) = <<>>
  BY DEF Named
<1> QED
  BY <1>3, <1>4, <1>5

(* An order of the members of a finite set has every one of them, once.    *)
LEMMA ListFacts ==
  ASSUME NEW S \in SUBSET Serials, NEW list \in SetToSeqs(S)
  PROVE  list \in Seq(Serials) /\ ToSet(list) = S /\ IsInjective(list)
<1>1. IsFiniteSet(S)
  BY EnumServerAssumption, FS_Subset
<1>2. PICK n \in Nat : n = Cardinality(S)
  BY <1>1, FS_CardinalityType
<1>3. list \in [1 .. n -> S] /\ IsInjective(list)
  BY <1>2 DEF SetToSeqs, IsInjective
<1>4. list \in Injection(1 .. n, S)
  BY <1>3 DEF Injection
<1>5. Cardinality(1 .. n) = n
  <2>1. 1 \in Int /\ n \in Int /\ (IF 1 > n THEN 0 ELSE n - 1 + 1) = n
    BY <1>2
  <2> QED
    BY <2>1, FS_Interval
<1>6. list \in Surjection(1 .. n, S)
  BY <1>1, <1>2, <1>4, <1>5, FS_Injection
<1>7. ToSet(list) = S
  BY <1>3, <1>6 DEF Surjection, ToSet
<1> QED
  BY <1>2, <1>3, <1>7

-----------------------------------------------------------------------------
(* Type correctness. *)

(* A step of the program keeps the types.                                  *)
LEMMA ProgramTypes ==
  ASSUME TypeOK, ConnInv, EntryInv, OnceInv, NEW t \in Threads, Program(t)
  PROVE  TypeOK'
<1> USE DEF TypeOK, ServerTypeOK, serverVars, handlerVars, initVars, enumVars, Goto, Inits,
        ReturnNothing, Initializing, Enumerating
<1>1. CASE CallEnumerate(t) \/ CallSetKey(t)
  BY <1>1 DEF CallEnumerate, CallSetKey
<1>2. CASE FreeResult(t)
  <2>1. NoResult \in [conn : Conns \cup {NoConn}, devices : Nat, structs : Seq(Descriptions)]
    BY DEF NoResult
  <2> QED
    BY <1>2, <2>1 DEF FreeResult
<1>3. CASE InitDone(t) \/ SetKey(t) \/ SetKeyFails(t)
  BY <1>3 DEF InitDone, SetKey, SetKeyFails
<1>4. CASE MakeInstance(t) \/ SetHandler(t) \/ InitThrows(t)
  BY <1>4 DEF MakeInstance, SetHandler, InitThrows
<1>5. CASE ConnectThrows(t) \/ SendThrows(t)
  BY <1>5 DEF ConnectThrows, SendThrows
<1>6. CASE \E c \in Conns : Connect(t, c)
  BY <1>6 DEF Connect
<1>7. CASE SendRequest(t)
  BY <1>7 DEF SendRequest
<1>8. CASE CollectNothing(t)
  BY <1>8 DEF CollectNothing, NothingReceived
<1>9. CASE CollectAnswer(t)
  <2>1. conn_id[t] \in Conns
    BY <1>9 DEF CollectAnswer, TakeAnswer, ConnInv
  <2>2. PICK new \in [conn : Conns \cup {NoConn}, devices : Nat, structs : Seq(Descriptions)] :
               result' = [result EXCEPT ![t] = new]
    <3>1. conn_id[t] \in copies => answer[conn_id[t]] # Unsent
      BY <2>1 DEF EntryInv, OnceInv
    <3>2. /\ (IF conn_id[t] \in copies THEN answer[conn_id[t]].count ELSE 0) \in Nat
          /\ (IF conn_id[t] \in copies THEN answer[conn_id[t]].structs ELSE <<>>) \in Seq(Descriptions)
      BY <2>1, <3>1
    <3> QED
      BY <1>9, <2>1, <3>2 DEF CollectAnswer, TakeAnswer
  <2> QED
    BY <1>9, <2>1, <2>2 DEF CollectAnswer, TakeAnswer
<1> QED
  BY <1>1, <1>2, <1>3, <1>4, <1>5, <1>6, <1>7, <1>8, <1>9 DEF Program, ThreadStep

(* So does a step of the client's callback.                                *)
LEMMA ReceivedTypes ==
  ASSUME TypeOK, NEW c \in Conns, Received(c)
  PROVE  TypeOK'
BY DEF TypeOK, ServerTypeOK, serverVars, handlerVars, initVars, Received, AnswerReceived,
   AnswerStored

(* So does a step of the server's callback.                                *)
LEMMA ServedTypes ==
  ASSUME ServerTypeOK, ListInv, NEW c \in Conns, Served(c)
  PROVE  ServerTypeOK'
<1> USE DEF ServerTypeOK, handlerVars, Handling, Step
<1>1. CASE ReceiveEnumerate(c)
  BY <1>1 DEF ReceiveEnumerate
<1>2. CASE LockLibrary(c)
  BY <1>2 DEF LockLibrary
<1>3. CASE EnumerateDevices(c)
  <2>1. PICK list \in Seq(Serials) : dev_enum' = [dev_enum EXCEPT ![c] = list]
    BY <1>3, ListFacts DEF EnumerateDevices
  <2> QED
    BY <1>3, <2>1 DEF EnumerateDevices
<1>4. CASE OpenFails(c)
  <2>1. Tail(dev_enum[c]) \in Seq(Serials) /\ Head(dev_enum[c]) \in Serials
    BY <1>4, TailFacts DEF OpenFails
  <2> QED
    BY <1>4, <2>1 DEF OpenFails
<1>5. CASE OpenDevice(c)
  <2>1. Head(dev_enum[c]) \in Serials
    BY <1>5, TailFacts DEF OpenDevice
  <2> QED
    BY <1>5, <2>1 DEF OpenDevice, Occupies
<1>6. CASE ParseThrows(c)
  BY <1>6 DEF ParseThrows, Finish
<1>7. CASE QueryDevice(c)
  BY <1>7 DEF QueryDevice, Query
<1>8. CASE \E address \in Addresses : NextInterface(c, address)
  <2>1. ifa[c] # Len(Interfaces) => ifa[c] + 1 \in DOMAIN Interfaces
    BY EnumServerAssumption
  <2>2. 1 \in DOMAIN Interfaces
    BY EnumServerAssumption
  <2> QED
    BY <1>8, <2>1, <2>2 DEF NextInterface, WriteAddress, WalkUntil
<1>9. CASE Push(c)
  <2>1. Head(dev_enum[c]) \in Serials /\ Tail(dev_enum[c]) \in Seq(Serials)
    BY <1>9, TailFacts DEF Push, ListInv, ListOK, Looking
  <2>2. PICK desc \in Descriptions :
               descriptions' = [descriptions EXCEPT ![c] = Append(@, desc)]
    BY <1>9, <2>1 DEF Push, Descriptions
  <2>3. Append(descriptions[c], desc) \in Seq(Descriptions)
    OBVIOUS
  <2> QED
    BY <1>9, <2>1, <2>2, <2>3 DEF Push
<1>10. CASE SendAnswer(c)
  <2>1. PICK new \in [count : Nat, structs : Seq(Descriptions)] : new = EnumerateAnswer(c)
    <3>1. EnumerateAnswer(c) \in [count : Nat, structs : Seq(Descriptions)]
      BY DEF EnumerateAnswer
    <3> QED
      BY <3>1
  <2>2. answer' \in {answer, [answer EXCEPT ![c] = new]}
    BY <1>10, <2>1 DEF SendAnswer
  <2>3. answer' \in [Conns -> [count : Nat, structs : Seq(Descriptions)] \cup {Unsent}]
    BY <2>2
  <2>4. <<>> \in Seq(Serials) /\ <<>> \in Seq(Descriptions)
    OBVIOUS
  <2> QED
    BY <1>10, <2>3, <2>4 DEF SendAnswer, Finish
<1>11. CASE Exit(c)
  BY <1>11 DEF Exit
<1> QED
  BY <1>1, <1>2, <1>3, <1>4, <1>5, <1>6, <1>7, <1>8, <1>9, <1>10, <1>11
     DEF Served, EnumerateStep

(* So does what happens to the devices elsewhere.                          *)
LEMMA OutsideTypes ==
  ASSUME ServerTypeOK, NEW s \in Serials, Outside(s)
  PROVE  ServerTypeOK'
<1>1. PICK to \in {"free", "absent", "session"} :
             /\ node' = [node EXCEPT ![s] = to]
             /\ Occupies(s, NoConn)
             /\ changes' = changes + 1
             /\ UNCHANGED <<running, big, library_mutex, ext_ip, handlerVars, request, answer,
                            alone>>
  BY DEF Outside, SessionOpens, SessionCloses, Unplug, Plug, Elsewhere
<1> QED
  BY <1>1 DEF ServerTypeOK, Occupies, handlerVars

(* The first state has the types.                                          *)
LEMMA InitTypes ==
  ASSUME Init
  PROVE  TypeOK
<1>1. Last(Interfaces) \in Addresses /\ 1 \in DOMAIN Interfaces
  <2>1. Len(Interfaces) \in DOMAIN Interfaces /\ 1 \in DOMAIN Interfaces
    BY EnumServerAssumption
  <2> QED
    BY <2>1 DEF Last, Addresses, ToSet
<1>2. NoResult \in [conn : Conns \cup {NoConn}, devices : Nat, structs : Seq(Descriptions)]
  BY DEF NoResult
<1>3. <<>> \in Seq(Serials) /\ <<>> \in Seq(Descriptions)
  OBVIOUS
<1>4. ServerTypeOK
  BY <1>1, <1>3 DEF Init, ServerInit, ServerTypeOK
<1> QED
  BY <1>2, <1>4 DEF Init, TypeOK

-----------------------------------------------------------------------------
(* What a step leaves alone. *)

(* A thread of the program touches neither the server, but for a request   *)
(* to it, nor the callback, and no other thread.                           *)
LEMMA ProgramFrame ==
  ASSUME TypeOK, NEW t \in Threads, Program(t)
  PROVE  /\ UNCHANGED <<running, big, node, library_mutex, ext_ip, handler, dev_enum, ifa,
                        descriptions, answer, changes, busy, alone, callback, global_mutex>>
         /\ \A u \in Threads \ {t} :
              pc'[u] = pc[u] /\ conn_id'[u] = conn_id[u] /\ result'[u] = result[u]
<1> USE DEF TypeOK, serverVars, handlerVars, initVars, enumVars, Goto, Inits, ReturnNothing
<1>1. CASE CallEnumerate(t) \/ CallSetKey(t) \/ FreeResult(t)
  BY <1>1 DEF CallEnumerate, CallSetKey, FreeResult
<1>2. CASE InitDone(t) \/ SetKey(t) \/ SetKeyFails(t)
  BY <1>2 DEF InitDone, SetKey, SetKeyFails
<1>3. CASE MakeInstance(t) \/ SetHandler(t) \/ InitThrows(t)
  BY <1>3 DEF MakeInstance, SetHandler, InitThrows
<1>4. CASE ConnectThrows(t) \/ SendThrows(t) \/ SendRequest(t)
  BY <1>4 DEF ConnectThrows, SendThrows, SendRequest
<1>5. CASE \E c \in Conns : Connect(t, c)
  BY <1>5 DEF Connect
<1>6. CASE CollectNothing(t) \/ CollectAnswer(t)
  BY <1>6 DEF CollectNothing, NothingReceived, CollectAnswer, TakeAnswer
<1> QED
  BY <1>1, <1>2, <1>3, <1>4, <1>5, <1>6 DEF Program, ThreadStep

(* It works on its own connection, ...                                     *)
LEMMA ProgramKeepsToItsConn ==
  ASSUME TypeOK, NEW t \in Threads, Program(t), NEW c \in Conns, c # conn_id[t]
  PROVE  /\ request'[c] = request[c] /\ s_enum'[c] = s_enum[c]
         /\ c \in copies' <=> c \in copies
         /\ link'[c] = link[c] \/ Connect(t, c)
<1> USE DEF TypeOK, ServerTypeOK, serverVars, handlerVars, initVars, enumVars, Goto, Inits,
        ReturnNothing
<1>1. CASE CallEnumerate(t) \/ CallSetKey(t) \/ FreeResult(t)
  BY <1>1 DEF CallEnumerate, CallSetKey, FreeResult
<1>2. CASE InitDone(t) \/ SetKey(t) \/ SetKeyFails(t)
  BY <1>2 DEF InitDone, SetKey, SetKeyFails
<1>3. CASE MakeInstance(t) \/ SetHandler(t) \/ InitThrows(t)
  BY <1>3 DEF MakeInstance, SetHandler, InitThrows
<1>4. CASE ConnectThrows(t) \/ SendThrows(t) \/ SendRequest(t)
  BY <1>4 DEF ConnectThrows, SendThrows, SendRequest
<1>5. ASSUME NEW d \in Conns, Connect(t, d)
      PROVE  /\ request' = request /\ s_enum' = s_enum /\ copies' = copies
             /\ link'[c] = link[c] \/ c = d
  BY <1>5 DEF Connect
<1>6. CASE CollectNothing(t) \/ CollectAnswer(t)
  BY <1>6 DEF CollectNothing, NothingReceived, CollectAnswer, TakeAnswer
<1> QED
  BY <1>1, <1>2, <1>3, <1>4, <1>5, <1>6 DEF Program, ThreadStep

(* ... from the time it has one until it returns.                          *)
LEMMA ProgramConn ==
  ASSUME TypeOK, ConnInv, NEW t \in Threads, Program(t)
  PROVE  \/ \E c \in Conns : Connect(t, c) /\ conn_id'[t] = c /\ pc'[t] = "send"
         \/ SendRequest(t) /\ conn_id'[t] = conn_id[t] /\ pc'[t] = "wait"
         \/ conn_id'[t] = NoConn /\ pc'[t] \notin {"send", "wait"}
<1> USE DEF TypeOK, Goto, ReturnNothing
<1>1. CASE CallEnumerate(t) \/ CallSetKey(t) \/ FreeResult(t)
  BY <1>1 DEF CallEnumerate, CallSetKey, FreeResult, ConnInv
<1>2. CASE InitDone(t) \/ SetKey(t) \/ SetKeyFails(t)
  BY <1>2 DEF InitDone, SetKey, SetKeyFails, ConnInv
<1>3. CASE MakeInstance(t) \/ SetHandler(t) \/ InitThrows(t)
  BY <1>3 DEF MakeInstance, SetHandler, InitThrows, ConnInv
<1>4. CASE ConnectThrows(t) \/ SendThrows(t) \/ SendRequest(t)
  BY <1>4 DEF ConnectThrows, SendThrows, SendRequest
<1>5. CASE \E c \in Conns : Connect(t, c)
  BY <1>5 DEF Connect
<1>6. CASE CollectNothing(t) \/ CollectAnswer(t)
  BY <1>6 DEF CollectNothing, NothingReceived, CollectAnswer, TakeAnswer
<1> QED
  BY <1>1, <1>2, <1>3, <1>4, <1>5, <1>6 DEF Program, ThreadStep

(* What it does to its own connection.                                     *)
LEMMA ProgramOwnConn ==
  ASSUME TypeOK, ConnInv, NEW t \in Threads, Program(t), NEW c \in Conns, c = conn_id[t]
  PROVE  \/ SendRequest(t) /\ UNCHANGED <<s_enum, copies, link>>
         \/ CollectNothing(t) /\ UNCHANGED <<request, copies, link>>
         \/ CollectAnswer(t) /\ request' = request
         \/ UNCHANGED <<request, s_enum, copies, link>>
<1>0. c # NoConn
  BY EnumerationAssumption
<1> USE DEF serverVars, handlerVars, initVars, enumVars, Goto, Inits, ReturnNothing
<1>1. CASE CallEnumerate(t) \/ CallSetKey(t) \/ FreeResult(t)
  BY <1>1 DEF CallEnumerate, CallSetKey, FreeResult
<1>2. CASE InitDone(t) \/ SetKey(t) \/ SetKeyFails(t)
  BY <1>2 DEF InitDone, SetKey, SetKeyFails
<1>3. CASE MakeInstance(t) \/ SetHandler(t) \/ InitThrows(t)
  BY <1>3 DEF MakeInstance, SetHandler, InitThrows
<1>4. CASE ConnectThrows(t) \/ SendThrows(t) \/ SendRequest(t)
  BY <1>4 DEF ConnectThrows, SendThrows, SendRequest
<1>5. ~\E d \in Conns : Connect(t, d)
  BY <1>0 DEF Connect, ConnInv
<1>6. CASE CollectNothing(t) \/ CollectAnswer(t)
  BY <1>6 DEF CollectNothing, NothingReceived, CollectAnswer, TakeAnswer
<1> QED
  BY <1>1, <1>2, <1>3, <1>4, <1>5, <1>6 DEF Program, ThreadStep

(* The client's callback touches the entry of its connection only.         *)
LEMMA ReceivedFrame ==
  ASSUME TypeOK, NEW c \in Conns, Received(c)
  PROVE  /\ UNCHANGED <<serverVars, initVars, pc, conn_id, result, link>>
         /\ \A d \in Conns \ {c} : /\ callback'[d] = callback[d]
                                   /\ s_enum'[d] = s_enum[d]
                                   /\ d \in copies' <=> d \in copies
BY DEF TypeOK, Received, AnswerReceived, AnswerStored

(* The server's callback touches its own connection, but that others may   *)
(* not be alone any more, and that a device may be busy for them.          *)
LEMMA ServedFrame ==
  ASSUME ServerTypeOK, NEW c \in Conns, Served(c)
  PROVE  /\ UNCHANGED <<big, changes>>
         /\ \A d \in Conns \ {c} :
              /\ handler'[d] = handler[d] /\ dev_enum'[d] = dev_enum[d]
              /\ descriptions'[d] = descriptions[d]
              /\ request'[d] = request[d] /\ answer'[d] = answer[d]
              /\ alone'[d] => alone[d]
              /\ busy[d] \subseteq busy'[d]
         /\ busy[c] \subseteq busy'[c] \/ ReceiveEnumerate(c)
<1> USE DEF ServerTypeOK, handlerVars, Step
<1>1. CASE ReceiveEnumerate(c)
  BY <1>1 DEF ReceiveEnumerate
<1>2. CASE LockLibrary(c)
  BY <1>2 DEF LockLibrary
<1>3. CASE EnumerateDevices(c)
  BY <1>3 DEF EnumerateDevices
<1>4. CASE OpenDevice(c)
  BY <1>4 DEF OpenDevice, Occupies
<1>8. CASE OpenFails(c)
  BY <1>8 DEF OpenFails
<1>5. CASE ParseThrows(c) \/ SendAnswer(c)
  BY <1>5 DEF ParseThrows, SendAnswer, Finish
<1>6. CASE QueryDevice(c) \/ \E address \in Addresses : NextInterface(c, address)
  BY <1>6 DEF QueryDevice, Query, NextInterface, WriteAddress, WalkUntil
<1>7. CASE Push(c) \/ Exit(c)
  BY <1>7 DEF Push, Exit
<1> QED
  BY <1>1, <1>2, <1>3, <1>4, <1>5, <1>6, <1>7, <1>8 DEF Served, EnumerateStep

(* What happens to a device elsewhere.                                     *)
LEMMA OutsideFrame ==
  ASSUME NEW s \in Serials, Outside(s)
  PROVE  /\ \E to \in {"free", "absent", "session"} : node' = [node EXCEPT ![s] = to]
         /\ Occupies(s, NoConn)
         /\ UNCHANGED <<running, big, library_mutex, ext_ip, handlerVars, request, answer, alone>>
BY DEF Outside, SessionOpens, SessionCloses, Unplug, Plug, Elsewhere

-----------------------------------------------------------------------------
(* The mutexes. *)

(* A thread has let go of global_mutex when its step ends.                 *)
LEMMA ProgramLocks ==
  ASSUME TypeOK, LockInv, NEW t \in Threads, Program(t)
  PROVE  LockInv'
BY ProgramFrame DEF LockInv

(* The callback of the client has it while it stores the answer.           *)
LEMMA ReceivedLocks ==
  ASSUME TypeOK, LockInv, NEW c \in Conns, Received(c)
  PROVE  LockInv'
<1>1. NoConn \notin Threads \cup Conns /\ c \notin Threads
  BY EnumerationAssumption
<1>2. library_mutex' = library_mutex /\ handler' = handler
  BY ReceivedFrame DEF serverVars, handlerVars
<1>3. CASE AnswerReceived(c)
  BY <1>1, <1>2, <1>3 DEF AnswerReceived, LockInv, TypeOK
<1>4. CASE AnswerStored(c)
  BY <1>1, <1>2, <1>4 DEF AnswerStored, LockInv, TypeOK
<1> QED
  BY <1>3, <1>4 DEF Received

(* A request has global_mutex of the server while it asks for the devices. *)
LEMMA ServedLocks ==
  ASSUME TypeOK, LockInv, NEW c \in Conns, Served(c), UNCHANGED clientVars
  PROVE  LockInv'
<1>1. /\ NoConn \notin Conns
      /\ handler \in [Conns -> Handling \cup {"idle"}]
      /\ UNCHANGED <<global_mutex, callback>>
  BY EnumerationAssumption DEF clientVars, TypeOK, ServerTypeOK
<1> USE DEF Step
<1>2. CASE LockLibrary(c)
  BY <1>1, <1>2 DEF LockLibrary, LockInv
<1>3. CASE EnumerateDevices(c)
  BY <1>1, <1>3 DEF EnumerateDevices, LockInv
<1>4. ~LockLibrary(c) /\ ~EnumerateDevices(c) =>
        /\ library_mutex' = library_mutex
        /\ \A d \in Conns : handler'[d] = "enumerate" <=> handler[d] = "enumerate"
  BY <1>1 DEF Served, EnumerateStep, ReceiveEnumerate, OpenFails, OpenDevice, ParseThrows,
     QueryDevice, Query, NextInterface, WriteAddress, WalkUntil, Push, SendAnswer, Finish, Exit,
     handlerVars
<1> QED
  BY <1>1, <1>2, <1>3, <1>4 DEF LockInv

-----------------------------------------------------------------------------
(* Connections. *)

(* The connection of a new call is one that nobody has.                    *)
LEMMA ProgramConnInv ==
  ASSUME TypeOK, ConnInv, NEW t \in Threads, Program(t)
  PROVE  ConnInv'
<1>0. NoConn \notin Conns /\ conn_id \in [Threads -> Conns \cup {NoConn}]
  BY EnumerationAssumption DEF TypeOK
<1>1. ASSUME NEW u \in Threads, u # t, conn_id[u] # NoConn
      PROVE  /\ conn_id'[u] = conn_id[u] /\ link'[conn_id[u]] = "up"
             /\ conn_id'[t] # conn_id[u]
  <2>1. conn_id'[u] = conn_id[u] /\ conn_id[u] \in Conns
    BY <1>0, <1>1, ProgramFrame
  <2>2. link[conn_id[u]] = "up" /\ conn_id[u] # conn_id[t]
    BY <1>1 DEF ConnInv
  <2>3. ~Connect(t, conn_id[u])
    BY <2>2 DEF Connect
  <2>4. link'[conn_id[u]] = "up"
    BY <2>1, <2>2, <2>3, ProgramKeepsToItsConn
  <2> QED
    BY <1>1, <2>1, <2>2, <2>3, <2>4, ProgramConn
<1>2. /\ conn_id'[t] # NoConn <=> pc'[t] \in {"send", "wait"}
      /\ conn_id'[t] # NoConn => link'[conn_id'[t]] = "up"
  <2>1. ASSUME NEW c \in Conns, Connect(t, c)
        PROVE  link'[c] = "up"
    BY <2>1 DEF Connect, TypeOK
  <2>2. CASE SendRequest(t) /\ conn_id'[t] = conn_id[t] /\ pc'[t] = "wait"
    BY <2>2 DEF SendRequest, ConnInv, Goto
  <2> QED
    BY <1>0, <2>1, <2>2, ProgramConn
<1>3. ASSUME NEW u \in Threads, u # t
      PROVE  conn_id'[u] # NoConn <=> pc'[u] \in {"send", "wait"}
  BY <1>3, ProgramFrame DEF ConnInv
<1>4. ASSUME NEW u \in Threads, conn_id'[u] # NoConn
      PROVE  /\ link'[conn_id'[u]] = "up"
             /\ \A v \in Threads : conn_id'[v] = conn_id'[u] => v = u
  <2>1. \A v \in Threads \ {t} : conn_id'[v] = conn_id[v]
    BY ProgramFrame
  <2> QED
    BY <1>1, <1>2, <1>4, <2>1 DEF ConnInv
<1> QED
  BY <1>2, <1>3, <1>4 DEF ConnInv

(* A request goes out on a connection that has carried none.               *)
LEMMA ProgramOnce ==
  ASSUME TypeOK, ConnInv, OnceInv, NEW t \in Threads, Program(t)
  PROVE  OnceInv'
<1>0. /\ NoConn \notin Conns /\ conn_id \in [Threads -> Conns \cup {NoConn}]
      /\ UNCHANGED <<handler, answer, callback>>
  BY EnumerationAssumption, ProgramFrame DEF TypeOK
<1>1. ASSUME NEW c \in Conns, Fresh(c), ~SendRequest(t) \/ c # conn_id[t],
             c = conn_id[t] => pc[t] # "wait"
      PROVE  Fresh(c)'
  <2>1. CASE c # conn_id[t]
    BY <1>0, <1>1, <2>1, ProgramKeepsToItsConn DEF Fresh
  <2>2. CASE c = conn_id[t]
    BY <1>0, <1>1, <2>2, ProgramOwnConn DEF Fresh, CollectNothing, NothingReceived, CollectAnswer,
       TakeAnswer
  <2> QED
    BY <2>1, <2>2
<1>2. ASSUME NEW c \in Conns, request'[c]
      PROVE  handler[c] = "idle" /\ answer[c] = Unsent
  <2>1. CASE request[c]
    BY <2>1 DEF OnceInv
  <2>2. CASE ~request[c]
    <3>1. c = conn_id[t] /\ SendRequest(t)
      <4>1. c = conn_id[t]
        BY <1>2, <2>2, ProgramKeepsToItsConn
      <4> QED
        BY <1>2, <2>2, <4>1, ProgramOwnConn DEF CollectNothing, NothingReceived
    <3> QED
      BY <3>1 DEF SendRequest, Goto, OnceInv, Fresh
  <2> QED
    BY <2>1, <2>2
<1>3. ASSUME NEW c \in Conns, link'[c] = "none"
      PROVE  Fresh(c)'
  <2>1. ~Connect(t, c)
    BY <1>3 DEF Connect, TypeOK
  <2>2. link[c] = "none"
    <3>1. CASE c # conn_id[t]
      BY <1>3, <2>1, <3>1, ProgramKeepsToItsConn
    <3>2. CASE c = conn_id[t]
      BY <1>3, <3>2, ProgramOwnConn DEF CollectAnswer, TakeAnswer, TypeOK
    <3> QED
      BY <3>1, <3>2
  <2>3. c # conn_id[t]
    BY <1>0, <2>2 DEF ConnInv
  <2> QED
    BY <1>1, <2>2, <2>3 DEF OnceInv
<1>4. ASSUME NEW u \in Threads, pc'[u] = "send"
      PROVE  Fresh(conn_id[u])'
  <2>1. CASE u # t
    <3>1. pc[u] = "send" /\ conn_id'[u] = conn_id[u] /\ Fresh(conn_id[u])
      BY <1>4, <2>1, ProgramFrame DEF OnceInv
    <3>2. conn_id[u] \in Conns /\ conn_id[u] # conn_id[t]
      BY <1>0, <2>1, <3>1 DEF ConnInv
    <3>3. Fresh(conn_id[u]) /\ ~(conn_id[u] = conn_id[t])
      BY <3>1, <3>2
    <3>4. PICK c \in Conns : c = conn_id[u]
      BY <3>2
    <3>5. Fresh(c)'
      BY <1>1, <3>2, <3>3, <3>4
    <3> QED
      BY <3>1, <3>4, <3>5 DEF Fresh
  <2>2. CASE u = t
    <3>1. PICK c \in Conns : Connect(t, c) /\ conn_id'[t] = c
      BY <1>4, <2>2, ProgramConn
    <3>2. Fresh(c)
      BY <3>1 DEF Connect, OnceInv
    <3> QED
      BY <2>2, <3>1, <3>2 DEF Connect, Fresh, serverVars, handlerVars, enumVars
  <2> QED
    BY <2>1, <2>2
<1> QED
  BY <1>0, <1>2, <1>3, <1>4 DEF OnceInv

(* What has been answered stays so while the answer is handed over.        *)
LEMMA ReceivedOnce ==
  ASSUME TypeOK, OnceInv, ConnInv, EntryInv, NEW c \in Conns, Received(c)
  PROVE  OnceInv'
<1>0. UNCHANGED <<request, handler, answer, pc, conn_id, link>>
  BY ReceivedFrame DEF serverVars, handlerVars
<1>1. answer[c] # Unsent
  BY DEF Received, AnswerReceived, AnswerStored, OnceInv
<1>2. ASSUME NEW d \in Conns, Fresh(d)
      PROVE  Fresh(d)'
  BY <1>0, <1>1, <1>2, ReceivedFrame DEF Fresh
<1>3. \A d \in Conns : callback'[d] # "none" => answer[d] # Unsent
  BY <1>1, ReceivedFrame DEF OnceInv
<1>4. ASSUME NEW t \in Threads, pc[t] = "send"
      PROVE  Fresh(conn_id[t])'
  <2>1. PICK d \in Conns : d = conn_id[t]
    BY <1>4 DEF ConnInv, TypeOK
  <2>2. Fresh(d)'
    BY <1>2, <1>4, <2>1 DEF OnceInv
  <2> QED
    BY <1>0, <2>1, <2>2 DEF Fresh
<1> QED
  BY <1>0, <1>2, <1>3, <1>4 DEF OnceInv

(* The server takes a request once, and answers it once.                   *)
LEMMA ServedOnce ==
  ASSUME TypeOK, OnceInv, ConnInv, NEW c \in Conns, Served(c), UNCHANGED clientVars
  PROVE  OnceInv'
<1> USE DEF Step
<1>0. /\ request \in [Conns -> BOOLEAN] /\ handler \in [Conns -> Handling \cup {"idle"}]
      /\ UNCHANGED <<pc, conn_id, link, callback, s_enum>>
      /\ answer \in [Conns -> [count : Nat, structs : Seq(Descriptions)] \cup {Unsent}]
  BY DEF TypeOK, ServerTypeOK, clientVars, enumVars
<1>1. ~Fresh(c) /\ answer[c] = Unsent
  BY DEF Served, EnumerateStep, ReceiveEnumerate, LockLibrary, EnumerateDevices, OpenFails,
     OpenDevice, ParseThrows, QueryDevice, Query, NextInterface, WriteAddress, Push, SendAnswer,
     Finish, Exit, Fresh, OnceInv
<1>2. /\ ~request'[c]
      /\ answer'[c] # Unsent => handler'[c] = "idle"
  <2>1. CASE ReceiveEnumerate(c)
    BY <1>0, <1>1, <2>1 DEF ReceiveEnumerate
  <2>2. CASE ~ReceiveEnumerate(c)
    <3>1. handler[c] # "idle" /\ ~request[c] /\ request' = request
      BY <2>2 DEF Served, EnumerateStep, LockLibrary, EnumerateDevices, OpenFails,
         OpenDevice, ParseThrows, QueryDevice, Query, NextInterface, WriteAddress, Push,
         SendAnswer, Finish, Exit, OnceInv
    <3>2. answer' = answer \/ SendAnswer(c)
      BY <2>2 DEF Served, EnumerateStep, LockLibrary, EnumerateDevices, OpenFails,
         OpenDevice, ParseThrows, QueryDevice, Query, NextInterface, WriteAddress, Push, Exit
    <3> QED
      BY <1>0, <1>1, <3>1, <3>2 DEF SendAnswer, Finish
  <2> QED
    BY <2>1, <2>2
<1>3. ASSUME NEW d \in Conns, Fresh(d)
      PROVE  Fresh(d)'
  BY <1>0, <1>1, <1>3, ServedFrame DEF Fresh, TypeOK
<1>4. ASSUME NEW d \in Conns
      PROVE  /\ handler'[d] # "idle" \/ answer'[d] # Unsent => ~request'[d]
             /\ answer'[d] # Unsent => handler'[d] = "idle"
             /\ callback'[d] # "none" => answer'[d] # Unsent
             /\ link'[d] = "none" => Fresh(d)'
  BY <1>0, <1>1, <1>2, <1>3, ServedFrame DEF OnceInv, TypeOK
<1>5. ASSUME NEW t \in Threads, pc[t] = "send"
      PROVE  Fresh(conn_id[t])'
  <2>1. PICK d \in Conns : d = conn_id[t]
    BY <1>5 DEF ConnInv, TypeOK
  <2>2. Fresh(d)'
    BY <1>3, <1>5, <2>1 DEF OnceInv
  <2> QED
    BY <1>0, <2>1, <2>2 DEF Fresh
<1> QED
  BY <1>0, <1>4, <1>5 DEF OnceInv

-----------------------------------------------------------------------------
(* The answer on its way to the program. *)

(* A link is closed by the call that has taken its answer.                 *)
LEMMA ProgramCloses ==
  ASSUME TypeOK, ConnInv, NEW t \in Threads, Program(t), NEW c \in Conns
  PROVE  /\ link[c] = "closed" => link'[c] = "closed" /\ c # conn_id[t]
         /\ link'[c] = "closed" => \/ link[c] = "closed"
                                   \/ CollectAnswer(t) /\ c = conn_id[t]
<1>0. c # NoConn
  BY EnumerationAssumption
<1>1. CASE c # conn_id[t]
  <2>1. Connect(t, c) => link[c] = "none" /\ link'[c] = "up"
    BY DEF Connect, TypeOK
  <2> QED
    BY <1>1, <2>1, ProgramKeepsToItsConn
<1>2. CASE c = conn_id[t]
  BY <1>0, <1>2, ProgramOwnConn DEF ConnInv
<1> QED
  BY <1>1, <1>2

(* What there is to take is the whole answer.                              *)
LEMMA AnswerIsThere ==
  ASSUME TypeOK, LockInv, OnceInv, ConnInv, EntryInv, NEW t \in Threads, CollectAnswer(t)
  PROVE  /\ conn_id[t] \in Conns /\ conn_id[t] \in copies
         /\ callback[conn_id[t]] = "done" /\ answer[conn_id[t]] # Unsent
         /\ result' = [result EXCEPT ![t] =
              [conn |-> conn_id[t], devices |-> answer[conn_id[t]].count,
               structs |-> answer[conn_id[t]].structs]]
         /\ answer[conn_id[t]].count = Len(answer[conn_id[t]].structs)
<1>1. /\ conn_id[t] \in Conns /\ global_mutex # conn_id[t]
      /\ s_enum[conn_id[t]] \in {"flagged", "full"}
  BY EnumerationAssumption DEF CollectAnswer, TakeAnswer, ConnInv, TypeOK
<1>2. s_enum[conn_id[t]] = "full"
  BY <1>1 DEF LockInv, EntryInv
<1>3. /\ conn_id[t] \in copies /\ callback[conn_id[t]] = "done"
      /\ answer[conn_id[t]] # Unsent
      /\ answer[conn_id[t]].count = Len(answer[conn_id[t]].structs)
  BY <1>1, <1>2 DEF EntryInv, OnceInv
<1> QED
  BY <1>1, <1>3 DEF CollectAnswer, TakeAnswer

(* A call changes its entry when it has nothing to store any more.         *)
LEMMA ProgramEntry ==
  ASSUME TypeOK, LockInv, OnceInv, ConnInv, EntryInv, NEW t \in Threads, Program(t)
  PROVE  EntryInv'
<1>0. UNCHANGED <<answer, callback>>
  BY ProgramFrame
<1>1. ASSUME NEW c \in Conns, c # conn_id[t]
      PROVE  /\ s_enum'[c] = s_enum[c] /\ (c \in copies' <=> c \in copies)
             /\ link'[c] = "closed" => link[c] = "closed"
  BY <1>1, ProgramKeepsToItsConn, ProgramCloses
<1>2. ASSUME NEW c \in Conns, c = conn_id[t]
      PROVE  /\ s_enum'[c] = "flagged" <=> callback[c] = "store"
             /\ s_enum'[c] = "full" <=> c \in copies'
             /\ s_enum'[c] = "full" \/ link'[c] = "closed" => callback[c] = "done"
  <2>1. CASE CollectNothing(t) /\ UNCHANGED <<request, copies, link>>
    BY <1>2, <2>1 DEF CollectNothing, NothingReceived, EntryInv, TypeOK
  <2>2. CASE CollectAnswer(t)
    <3>1. callback[c] = "done" /\ s_enum'[c] = "absent" /\ c \notin copies'
      BY <1>2, <2>2, AnswerIsThere DEF CollectAnswer, TakeAnswer, TypeOK
    <3> QED
      BY <3>1
  <2>3. CASE UNCHANGED <<s_enum, copies, link>>
    BY <2>3 DEF EntryInv
  <2> QED
    BY <1>2, <2>1, <2>2, <2>3, ProgramOwnConn
<1> QED
  BY <1>0, <1>1, <1>2 DEF EntryInv

(* The callback sets recv first, then it stores the copy.                  *)
LEMMA ReceivedEntry ==
  ASSUME TypeOK, EntryInv, NEW c \in Conns, Received(c)
  PROVE  EntryInv'
<1>0. UNCHANGED <<answer, link>>
  BY ReceivedFrame DEF serverVars
<1>1. CASE AnswerReceived(c)
  BY <1>0, <1>1 DEF AnswerReceived, EntryInv, TypeOK
<1>2. CASE AnswerStored(c)
  BY <1>0, <1>2 DEF AnswerStored, EntryInv, TypeOK
<1> QED
  BY <1>1, <1>2 DEF Received

(* An answer says how many structs it has.                                 *)
LEMMA ServedEntry ==
  ASSUME TypeOK, EntryInv, NEW c \in Conns, Served(c), UNCHANGED clientVars
  PROVE  EntryInv'
<1>0. /\ UNCHANGED <<callback, s_enum, copies, link>>
      /\ answer \in [Conns -> [count : Nat, structs : Seq(Descriptions)] \cup {Unsent}]
  BY DEF TypeOK, ServerTypeOK, clientVars, enumVars
<1>1. CASE SendAnswer(c)
  <2>1. ASSUME NEW d \in Conns
        PROVE  answer'[d] = answer[d] \/ answer'[d] = EnumerateAnswer(c)
    BY <1>0, <1>1 DEF SendAnswer
  <2>2. EnumerateAnswer(c).count = Len(EnumerateAnswer(c).structs)
    BY DEF EnumerateAnswer
  <2>3. \A d \in Conns : answer'[d] # Unsent => answer'[d].count = Len(answer'[d].structs)
    BY <2>1, <2>2 DEF EntryInv
  <2> QED
    BY <1>0, <2>3 DEF EntryInv
<1>2. ~SendAnswer(c) => answer' = answer
  BY DEF Served, EnumerateStep, ReceiveEnumerate, LockLibrary, EnumerateDevices, OpenFails,
     OpenDevice, ParseThrows, QueryDevice, Query, NextInterface, WriteAddress, Push, Exit
<1> QED
  BY <1>0, <1>1, <1>2 DEF EntryInv

(* A call that takes its answer takes all of it, and cleans up.            *)
LEMMA ProgramResult ==
  ASSUME TypeOK, LockInv, OnceInv, ConnInv, EntryInv, ResultInv, ResultIsAnswer,
         NothingLeftAfterAnswer, NEW t \in Threads, Program(t)
  PROVE  ResultInv' /\ ResultIsAnswer' /\ NothingLeftAfterAnswer'
<1>0. /\ UNCHANGED <<answer, callback>>
      /\ \A u \in Threads \ {t} : result'[u] = result[u]
      /\ result \in [Threads -> [conn : Conns \cup {NoConn}, devices : Nat,
                                 structs : Seq(Descriptions)]]
  BY ProgramFrame DEF TypeOK
<1>1. CASE CollectAnswer(t)
  <2>1. PICK c \in Conns : c = conn_id[t]
    BY <1>1, AnswerIsThere
  <2>2. /\ callback[c] = "done" /\ answer[c] # Unsent
        /\ answer[c].count = Len(answer[c].structs)
        /\ result'[t] = [conn |-> c, devices |-> answer[c].count, structs |-> answer[c].structs]
    BY <1>0, <1>1, <2>1, AnswerIsThere
  <2>3. /\ result'[t].conn = c /\ result'[t].structs = answer[c].structs
        /\ result'[t].devices = Len(answer[c].structs)
    BY <2>2
  <2>4. link' = [link EXCEPT ![c] = "closed"] /\ s_enum' = [s_enum EXCEPT ![c] = "absent"]
    BY <1>1, <2>1 DEF CollectAnswer, TakeAnswer
  <2>5. ResultInv'
    BY <1>0, <2>2, <2>3 DEF ResultInv
  <2>6. ResultIsAnswer'
    BY <1>0, <2>3 DEF ResultIsAnswer
  <2>7. \A u \in Threads : result'[u].conn # NoConn => link'[result'[u].conn] = "closed"
    <3>1. link'[c] = "closed" /\ \A d \in Conns : link[d] = "closed" => link'[d] = "closed"
      BY <2>4 DEF TypeOK
    <3>2. \A u \in Threads \ {t} : result[u].conn # NoConn =>
            result[u].conn \in Conns /\ link[result[u].conn] = "closed"
      BY <1>0 DEF NothingLeftAfterAnswer
    <3> QED
      BY <1>0, <2>3, <3>1, <3>2
  <2>8. \A d \in Conns : link'[d] = "closed" => s_enum'[d] = "absent"
    BY <2>4 DEF NothingLeftAfterAnswer, TypeOK
  <2>9. \A d \in copies' : s_enum'[d] = "full"
    BY ProgramEntry, ProgramTypes DEF EntryInv, TypeOK
  <2> QED
    BY <2>5, <2>6, <2>7, <2>8, <2>9 DEF NothingLeftAfterAnswer
<1>2. CASE ~CollectAnswer(t)
  <2>1. result'[t] = result[t] \/ result'[t].conn = NoConn
    BY <1>0, <1>2 DEF Program, ThreadStep, CallEnumerate, CallSetKey, FreeResult, InitDone, SetKey,
       SetKeyFails, MakeInstance, SetHandler, InitThrows, ConnectThrows, SendThrows, SendRequest,
       Connect, CollectNothing, NothingReceived, Inits, NoResult
  <2>2. \A u \in Threads : result'[u] = result[u] \/ result'[u].conn = NoConn
    BY <1>0, <2>1
  <2>3. \A d \in Conns : link'[d] = "closed" <=> link[d] = "closed"
    BY <1>2, ProgramCloses
  <2>4. \A d \in Conns : link[d] = "closed" => s_enum'[d] = s_enum[d]
    BY ProgramCloses, ProgramKeepsToItsConn
  <2>5. \A d \in copies' : d \in Conns /\ s_enum'[d] = "full"
    BY ProgramEntry, ProgramTypes DEF EntryInv, TypeOK
  <2>6. NothingLeftAfterAnswer'
    BY <1>0, <2>2, <2>3, <2>4, <2>5 DEF NothingLeftAfterAnswer
  <2>7. ResultInv' /\ ResultIsAnswer'
    BY <1>0, <2>2 DEF ResultInv, ResultIsAnswer
  <2> QED
    BY <2>6, <2>7
<1> QED
  BY <1>1, <1>2

(* The callback of the client touches no answer that has been taken.       *)
LEMMA ReceivedResult ==
  ASSUME TypeOK, EntryInv, ResultInv, ResultIsAnswer, NothingLeftAfterAnswer,
         NEW c \in Conns, Received(c)
  PROVE  ResultInv' /\ ResultIsAnswer' /\ NothingLeftAfterAnswer'
<1>0. UNCHANGED <<answer, result, link>>
  BY ReceivedFrame DEF serverVars
<1>1. callback[c] # "done" /\ link[c] # "closed"
  BY DEF Received, AnswerReceived, AnswerStored, EntryInv
<1>2. ResultInv' /\ ResultIsAnswer'
  BY <1>0, <1>1, ReceivedFrame DEF ResultInv, ResultIsAnswer, TypeOK
<1>3. \A d \in Conns : link[d] = "closed" => s_enum'[d] = "absent"
  BY <1>1, ReceivedFrame DEF NothingLeftAfterAnswer
<1>4. \A d \in copies' : d \in Conns /\ s_enum'[d] = "full"
  BY ReceivedEntry, ReceivedTypes DEF EntryInv, TypeOK
<1> QED
  BY <1>0, <1>2, <1>3, <1>4 DEF NothingLeftAfterAnswer

(* Nor does the server answer again.                                       *)
LEMMA ServedResult ==
  ASSUME TypeOK, OnceInv, ResultInv, ResultIsAnswer, NothingLeftAfterAnswer,
         NEW c \in Conns, Served(c), UNCHANGED clientVars
  PROVE  ResultInv' /\ ResultIsAnswer' /\ NothingLeftAfterAnswer'
<1>0. UNCHANGED <<result, link, callback, s_enum, copies>>
  BY DEF clientVars, enumVars
<1>1. ASSUME NEW t \in Threads, result[t].conn # NoConn
      PROVE  answer'[result[t].conn] = answer[result[t].conn]
  <2>1. PICK d \in Conns : d = result[t].conn
    BY <1>1 DEF TypeOK
  <2>2. handler[d] = "idle" /\ ~request[d]
    BY <1>1, <2>1 DEF ResultInv, OnceInv
  <2>3. d # c \/ Exit(c)
    BY <2>2 DEF Served, EnumerateStep, ReceiveEnumerate, LockLibrary, EnumerateDevices, OpenFails,
       OpenDevice, ParseThrows, QueryDevice, Query, NextInterface, WriteAddress, Push, SendAnswer,
       Finish, Step
  <2> QED
    BY <2>1, <2>3, ServedFrame DEF Exit, TypeOK
<1> QED
  BY <1>0, <1>1 DEF ResultInv, ResultIsAnswer, NothingLeftAfterAnswer

-----------------------------------------------------------------------------
(* bindy_init. *)

(* Until an instance is ready, the call that makes it is alone.            *)
LEMMA ProgramInit ==
  ASSUME TypeOK, InitInv, InitMeansInstance, NEW t \in Threads, Program(t)
  PROVE  InitInv' /\ InitMeansInstance'
<1> USE DEF initVars, Goto, Inits, ReturnNothing, Initializing, Enumerating
<1>0. /\ pc \in [Threads -> {"idle"} \cup Initializing \cup Enumerating]
      /\ instance \in {"null", "made", "ready"}
  BY DEF TypeOK
<1>1. CASE CallEnumerate(t)
  BY <1>0, <1>1 DEF CallEnumerate, FirstCallAlone, InitInv, InitMeansInstance
<1>2. CASE CallSetKey(t)
  BY <1>0, <1>2 DEF CallSetKey, FirstCallAlone, InitInv, InitMeansInstance
<1>3. CASE InitDone(t)
  BY <1>0, <1>3 DEF InitDone, InitInv, InitMeansInstance
<1>4. CASE SetKey(t) \/ SetKeyFails(t)
  BY <1>0, <1>4 DEF SetKey, SetKeyFails, InitInv, InitMeansInstance
<1>5. CASE MakeInstance(t) \/ SetHandler(t)
  BY <1>0, <1>5 DEF MakeInstance, SetHandler, InitInv, InitMeansInstance
<1>6. CASE InitThrows(t)
  BY <1>0, <1>6 DEF InitThrows, InitInv, InitMeansInstance
<1>7. ASSUME UNCHANGED initVars, pc[t] \in {"idle"} \cup Enumerating,
             \E label \in {"idle", "send", "wait"} :
               pc' = [pc EXCEPT ![t] = label] /\ (label = "idle" \/ pc[t] # "idle")
      PROVE  InitInv' /\ InitMeansInstance'
  BY <1>0, <1>7 DEF InitInv, InitMeansInstance
<1>8. CASE FreeResult(t)
  BY <1>8 DEF FreeResult, InitInv, InitMeansInstance
<1>9. CASE \/ ConnectThrows(t) \/ SendThrows(t) \/ SendRequest(t)
           \/ CollectNothing(t) \/ CollectAnswer(t) \/ \E c \in Conns : Connect(t, c)
  BY <1>7, <1>9 DEF ConnectThrows, SendThrows, SendRequest, CollectNothing, NothingReceived,
     CollectAnswer, TakeAnswer, Connect
<1> QED
  BY <1>1, <1>2, <1>3, <1>4, <1>5, <1>6, <1>8, <1>9 DEF Program, ThreadStep

-----------------------------------------------------------------------------
(* The devices. *)

(* Whoever takes a device makes it busy for the others.                    *)
LEMMA ServedBusy ==
  ASSUME ServerTypeOK, BusyInv, NEW c \in Conns, Served(c)
  PROVE  BusyInv'
<1> USE DEF Step
<1>0. /\ node \in [Serials -> Conns \cup {"free", "absent", "session"}]
      /\ handler \in [Conns -> Handling \cup {"idle"}]
      /\ busy \in [Conns -> SUBSET Serials]
      /\ dev_enum \in [Conns -> Seq(Serials)]
  BY DEF ServerTypeOK
<1>1. ASSUME node' = node, busy[c] \subseteq busy'[c], handler[c] # "idle", handler[c] # "query"
      PROVE  BusyInv'
  BY <1>1, ServedFrame DEF BusyInv
<1>2. CASE ReceiveEnumerate(c)
  BY <1>0, <1>2, ServedFrame DEF ReceiveEnumerate, BusyInv
<1>3. CASE \/ LockLibrary(c) \/ EnumerateDevices(c) \/ OpenFails(c) \/ Push(c)
           \/ \E address \in Addresses : NextInterface(c, address)
  BY <1>0, <1>1, <1>3 DEF LockLibrary, EnumerateDevices, OpenFails, Push, NextInterface,
     WriteAddress
<1>4. CASE OpenDevice(c)
  <2>1. Head(dev_enum[c]) \in Serials /\ dev_enum' = dev_enum
    BY <1>0, <1>4, TailFacts DEF OpenDevice
  <2> QED
    BY <1>0, <1>4, <2>1 DEF OpenDevice, Occupies, BusyInv
<1>5. CASE ParseThrows(c) \/ SendAnswer(c)
  <2>1. handler'[c] = "idle" /\ UNCHANGED <<node, busy>>
    BY <1>0, <1>5 DEF ParseThrows, SendAnswer, Finish
  <2> QED
    BY <2>1, ServedFrame DEF BusyInv
<1>6. CASE QueryDevice(c)
  BY <1>0, <1>6 DEF QueryDevice, Query, BusyInv
<1>7. CASE Exit(c)
  BY <1>0, <1>7 DEF Exit, BusyInv, handlerVars
<1> QED
  BY <1>2, <1>3, <1>4, <1>5, <1>6, <1>7 DEF Served, EnumerateStep

(* So does whoever takes it elsewhere.                                     *)
LEMMA OutsideBusy ==
  ASSUME ServerTypeOK, BusyInv, NEW s \in Serials, Outside(s)
  PROVE  BusyInv'
<1>1. NoConn \notin Conns
  BY EnumerationAssumption
<1>2. UNCHANGED <<handler, dev_enum>>
  BY OutsideFrame DEF handlerVars
<1>3. ASSUME NEW c \in Conns, handler[c] # "idle"
      PROVE  busy'[c] = busy[c] \cup {s}
  <2>1. c # NoConn
    BY <1>1
  <2> QED
    BY <1>3, <2>1, OutsideFrame DEF Occupies
<1>4. \A r \in Serials \ {s} : node'[r] = node[r]
  BY OutsideFrame DEF ServerTypeOK
<1> QED
  BY <1>2, <1>3, <1>4 DEF BusyInv

(* A device leaves the list when it is described or when it is busy.       *)
LEMMA ServedList ==
  ASSUME ServerTypeOK, BusyInv, ListInv, NEW c \in Conns, Served(c)
  PROVE  ListInv'
<1> USE DEF Step
<1>0. /\ node \in [Serials -> Conns \cup {"free", "absent", "session"}]
      /\ handler \in [Conns -> Handling \cup {"idle"}]
      /\ busy \in [Conns -> SUBSET Serials]
      /\ dev_enum \in [Conns -> Seq(Serials)]
      /\ descriptions \in [Conns -> Seq(Descriptions)]
      /\ ListOK(c)
      /\ ToSet(Named(<<>>)) = {} /\ IsInjective(Named(<<>>))
  BY DEF ServerTypeOK, ListInv, Named, ToSet, IsInjective
<1>1. ASSUME NEW d \in Conns, d # c
      PROVE  ListOK(d)'
  BY <1>1, ServedFrame DEF ListInv, ListOK
<1>2. CASE ReceiveEnumerate(c) \/ LockLibrary(c)
  <2>1. ListOK(c)'
    BY <1>0, <1>2 DEF ReceiveEnumerate, LockLibrary, ListOK, Looking
  <2> QED
    BY <1>1, <2>1 DEF ListInv
<1>3. CASE EnumerateDevices(c)
  <2>1. PICK list \in SetToSeqs({s \in Serials : node[s] # "absent"}) :
               dev_enum' = [dev_enum EXCEPT ![c] = list]
    BY <1>3 DEF EnumerateDevices
  <2>2. ToSet(list) = {s \in Serials : node[s] # "absent"} /\ IsInjective(list)
    BY <2>1, ListFacts
  <2>3. Serials \ busy[c] \subseteq ToSet(list)
    BY <1>3, <2>2 DEF EnumerateDevices, BusyInv
  <2>4. /\ dev_enum'[c] = list /\ descriptions'[c] = <<>>
        /\ handler'[c] = "open" /\ busy'[c] = busy[c]
    BY <1>0, <1>3, <2>1 DEF EnumerateDevices, ListOK, Looking
  <2>5. ListOK(c)'
    BY <1>0, <2>2, <2>3, <2>4 DEF ListOK, Looking
  <2> QED
    BY <1>1, <2>5 DEF ListInv
<1>4. CASE OpenFails(c)
  <2>1. PICK rest \in Seq(Serials) : rest = dev_enum[c]
    BY <1>0
  <2>2. /\ rest # <<>> /\ handler[c] = "open"
        /\ dev_enum'[c] = Tail(rest) /\ UNCHANGED descriptions
        /\ handler'[c] = "open"
    BY <1>0, <1>4, <2>1 DEF OpenFails
  <2>3. Head(rest) \in busy'[c] /\ busy[c] \subseteq busy'[c]
    BY <1>0, <1>4, <2>1 DEF OpenFails
  <2>4. ListOK(c)'
    BY <1>0, <2>1, <2>2, <2>3, TailFacts DEF ListOK, Looking
  <2> QED
    BY <1>1, <2>4 DEF ListInv
<1>5. CASE OpenDevice(c)
  <2>1. ListOK(c)'
    BY <1>0, <1>5 DEF OpenDevice, Occupies, ListOK, Looking
  <2> QED
    BY <1>1, <2>1 DEF ListInv
<1>6. CASE ParseThrows(c) \/ SendAnswer(c)
  <2>1. handler'[c] = "idle" /\ descriptions'[c] = <<>>
    BY <1>0, <1>6 DEF ParseThrows, SendAnswer, Finish
  <2>2. ListOK(c)'
    BY <2>1 DEF ListOK, Looking
  <2> QED
    BY <1>1, <2>2 DEF ListInv
<1>7. CASE QueryDevice(c) \/ \E address \in Addresses : NextInterface(c, address)
  <2>1. /\ UNCHANGED <<dev_enum, descriptions, busy>>
        /\ handler[c] \in Looking \ {"open"} /\ handler'[c] \in Looking
    BY <1>0, <1>7 DEF QueryDevice, Query, NextInterface, WriteAddress, WalkUntil, Looking
  <2>2. ListOK(c)'
    BY <1>0, <2>1 DEF ListOK
  <2> QED
    BY <1>1, <2>2 DEF ListInv
<1>8. CASE Push(c)
  <2>1. PICK rest \in Seq(Serials) : rest = dev_enum[c]
    BY <1>0
  <2>2. /\ rest # <<>> /\ handler[c] = "push" /\ handler'[c] = "open" /\ busy' = busy
        /\ dev_enum'[c] = Tail(rest)
    BY <1>0, <1>8, <2>1 DEF Push, ListOK, Looking
  <2>3. Head(rest) \in Serials
    BY <2>1, <2>2, TailFacts
  <2>4. PICK desc \in Descriptions :
               desc.serial = Head(rest) /\ descriptions'[c] = Append(descriptions[c], desc)
    <3>1. PICK desc \in Descriptions : desc = [serial |-> Head(rest), ipv4 |-> ext_ip]
      BY <2>3 DEF Descriptions, ServerTypeOK
    <3> QED
      BY <1>0, <1>8, <2>1, <3>1 DEF Push
  <2>5. PICK found \in Seq(Serials) :
               /\ found = Named(descriptions[c])
               /\ Named(descriptions'[c]) = Append(found, Head(rest))
    BY <1>0, <2>4, NamedFacts
  <2>6. /\ Serials \ busy[c] \subseteq ToSet(found) \cup ToSet(rest)
        /\ ToSet(found) \cap ToSet(rest) = {} /\ IsInjective(found) /\ IsInjective(rest)
    BY <1>0, <2>1, <2>2, <2>5 DEF ListOK, Looking
  <2>7. /\ ToSet(rest) = {Head(rest)} \cup ToSet(Tail(rest))
        /\ IsInjective(Tail(rest)) /\ Head(rest) \notin ToSet(Tail(rest))
    BY <2>2, <2>6, TailFacts
  <2>8. /\ ToSet(Append(found, Head(rest))) = ToSet(found) \cup {Head(rest)}
        /\ IsInjective(Append(found, Head(rest)))
    BY <2>3, <2>6, <2>7, AppendFacts
  <2>9. ListOK(c)'
    BY <2>2, <2>5, <2>6, <2>7, <2>8 DEF ListOK, Looking
  <2> QED
    BY <1>1, <2>9 DEF ListInv
<1>9. CASE Exit(c)
  BY <1>0, <1>1, <1>9 DEF Exit, handlerVars, ListInv, ListOK
<1> QED
  BY <1>2, <1>3, <1>4, <1>5, <1>6, <1>7, <1>8, <1>9 DEF Served, EnumerateStep

(* What happens elsewhere makes devices busy and nothing else.             *)
LEMMA OutsideAnswers ==
  ASSUME ServerTypeOK, ListInv, AloneInv, BusyHidesOnlyItself, AddressSettled,
         NEW s \in Serials, Outside(s)
  PROVE  ListInv' /\ AloneInv' /\ BusyHidesOnlyItself' /\ AddressSettled'
<1>1. UNCHANGED <<ext_ip, handler, dev_enum, descriptions, answer, alone>>
  BY OutsideFrame DEF handlerVars
<1>2. \A c \in Conns : busy[c] \subseteq busy'[c]
  <2>1. Occupies(s, NoConn)
    BY OutsideFrame
  <2> QED
    BY <2>1 DEF Occupies
<1>3. ListInv' /\ AloneInv'
  BY <1>1, <1>2 DEF ListInv, ListOK, AloneInv
<1>4. BusyHidesOnlyItself' /\ AddressSettled'
  BY <1>1, <1>2 DEF BusyHidesOnlyItself, AddressSettled
<1> QED
  BY <1>3, <1>4

(* A request has a device open while it asks that device who it is.        *)
LEMMA ServedCloses ==
  ASSUME ServerTypeOK, EnumerationClosesDevices, NEW c \in Conns, running, Served(c)
  PROVE  EnumerationClosesDevices'
<1> USE DEF Step
<1>0. /\ node \in [Serials -> Conns \cup {"free", "absent", "session"}]
      /\ handler \in [Conns -> Handling \cup {"idle"}]
      /\ dev_enum \in [Conns -> Seq(Serials)]
      /\ "free" \notin Conns /\ "absent" \notin Conns
      /\ big' = big
  BY EnumServerAssumption, ServedFrame DEF ServerTypeOK
<1>1. ASSUME node' = node, handler[c] # "query"
      PROVE  EnumerationClosesDevices'
  BY <1>0, <1>1, ServedFrame DEF EnumerationClosesDevices
<1>2. CASE \/ ReceiveEnumerate(c) \/ LockLibrary(c) \/ EnumerateDevices(c) \/ OpenFails(c)
           \/ Push(c) \/ SendAnswer(c) \/ \E address \in Addresses : NextInterface(c, address)
  BY <1>1, <1>2 DEF ReceiveEnumerate, LockLibrary, EnumerateDevices, OpenFails, Push, SendAnswer,
     Finish, NextInterface, WriteAddress
<1>3. CASE OpenDevice(c)
  BY <1>0, <1>3 DEF OpenDevice, EnumerationClosesDevices
<1>4. CASE ParseThrows(c)
  <2>1. node' = node /\ Head(dev_enum[c]) \in big
    BY <1>4 DEF ParseThrows
  <2>2. \A s \in Serials \ big : node[s] # c
    BY <2>1 DEF EnumerationClosesDevices
  <2> QED
    BY <1>0, <2>1, <2>2, ServedFrame DEF EnumerationClosesDevices
<1>5. CASE QueryDevice(c)
  BY <1>0, <1>5 DEF QueryDevice, Query, EnumerationClosesDevices
<1>6. CASE Exit(c)
  BY <1>6 DEF Exit, EnumerationClosesDevices
<1> QED
  BY <1>2, <1>3, <1>4, <1>5, <1>6 DEF Served, EnumerateStep

(* Nobody else opens a device for it.                                      *)
LEMMA OutsideCloses ==
  ASSUME ServerTypeOK, EnumerationClosesDevices, NEW s \in Serials, Outside(s)
  PROVE  EnumerationClosesDevices'
<1>1. UNCHANGED <<running, big, handler, dev_enum>>
  BY OutsideFrame DEF handlerVars
<1>2. \A c \in Conns, r \in Serials : node'[r] = c => node[r] = c
  <2>1. PICK to \in {"free", "absent", "session"} : node' = [node EXCEPT ![s] = to]
    BY OutsideFrame
  <2>2. to \notin Conns /\ node \in [Serials -> Conns \cup {"free", "absent", "session"}]
    BY EnumServerAssumption DEF ServerTypeOK
  <2> QED
    BY <2>1, <2>2
<1> QED
  BY <1>1, <1>2 DEF EnumerationClosesDevices

(* A request that is served alone reads the address it has written.        *)
LEMMA ServedAlone ==
  ASSUME ServerTypeOK, ListInv, AloneInv, NEW c \in Conns, Served(c)
  PROVE  AloneInv'
<1> USE DEF Step
<1>0. /\ handler \in [Conns -> Handling \cup {"idle"}]
      /\ descriptions \in [Conns -> Seq(Descriptions)]
      /\ alone \in [Conns -> BOOLEAN]
      /\ \A d \in Conns \ {c} : handler'[d] = handler[d]
      /\ Settled(<<>>)
  BY ServedFrame DEF ServerTypeOK, Settled
<1>1. CASE ReceiveEnumerate(c)
  <2>1. handler'[c] = "lock" /\ descriptions' = descriptions /\ descriptions[c] = <<>>
    BY <1>0, <1>1 DEF ReceiveEnumerate, ListInv, ListOK, Looking
  <2>2. alone'[c] => \A d \in Conns \ {c} : handler[d] = "idle"
    BY <1>1 DEF ReceiveEnumerate
  <2>3. \A d \in Conns \ {c} : alone'[d] => handler[d] = "idle"
    BY <1>1 DEF ReceiveEnumerate
  <2> QED
    BY <1>0, <2>1, <2>2, <2>3 DEF AloneInv
<1>2. ASSUME handler[c] # "idle", alone' = alone,
             alone[c] /\ handler'[c] # "idle" =>
               /\ Settled(descriptions'[c])
               /\ handler'[c] = "push" => ext_ip' = Last(Interfaces)
      PROVE  AloneInv'
  BY <1>0, <1>2 DEF AloneInv
<1>3. CASE \/ LockLibrary(c) \/ EnumerateDevices(c) \/ OpenFails(c) \/ OpenDevice(c)
           \/ QueryDevice(c)
  <2>1. /\ handler[c] # "idle" /\ handler'[c] # "push"
        /\ alone' = alone /\ descriptions' = descriptions
    BY <1>0, <1>3 DEF LockLibrary, EnumerateDevices, OpenFails, OpenDevice, QueryDevice, Query
  <2> QED
    BY <1>2, <2>1 DEF AloneInv
<1>4. CASE ParseThrows(c) \/ SendAnswer(c)
  <2>1. handler[c] # "idle" /\ handler'[c] = "idle" /\ alone' = alone
    BY <1>0, <1>4 DEF ParseThrows, SendAnswer, Finish
  <2> QED
    BY <1>2, <2>1
<1>5. ASSUME NEW address \in Addresses, NextInterface(c, address)
      PROVE  AloneInv'
  <2>1. /\ handler[c] = "address" /\ alone' = alone /\ descriptions' = descriptions
        /\ ext_ip' = address
    BY <1>5 DEF NextInterface, WriteAddress
  <2>2. alone[c] => address = Interfaces[ifa[c]]
    BY <1>5, <2>1 DEF NextInterface, WriteAddress, AloneInv
  <2>3. handler'[c] = "push" => ifa[c] = Len(Interfaces)
    BY <1>0, <1>5 DEF NextInterface, WalkUntil
  <2> QED
    BY <1>2, <2>1, <2>2, <2>3 DEF AloneInv, Last
<1>6. CASE Push(c)
  <2>1. /\ handler[c] = "push" /\ handler'[c] = "open" /\ alone' = alone
        /\ descriptions'[c] = Append(descriptions[c],
                                     [serial |-> Head(dev_enum[c]), ipv4 |-> ext_ip])
    BY <1>0, <1>6 DEF Push
  <2>2. ASSUME alone[c]
        PROVE  Settled(descriptions'[c])
    <3>1. PICK desc : /\ desc.ipv4 = Last(Interfaces)
                      /\ descriptions'[c] = Append(descriptions[c], desc)
      BY <2>1, <2>2 DEF AloneInv
    <3> QED
      BY <1>0, <2>1, <2>2, <3>1 DEF AloneInv, Settled
  <2> QED
    BY <1>2, <2>1, <2>2
<1>7. CASE Exit(c)
  BY <1>7 DEF Exit, handlerVars, AloneInv
<1> QED
  BY <1>1, <1>3, <1>4, <1>5, <1>6, <1>7 DEF Served, EnumerateStep

(* An answer is what the loop has found when it has looked at everything.  *)
LEMMA ServedAnswers ==
  ASSUME ServerTypeOK, OnceInv, ListInv, AloneInv, BusyHidesOnlyItself, AddressSettled,
         NEW c \in Conns, Served(c)
  PROVE  BusyHidesOnlyItself' /\ AddressSettled'
<1> USE DEF Step
<1>1. ASSUME NEW d \in Conns, answer'[d] = answer[d], answer[d] # Unsent
      PROVE  busy[d] \subseteq busy'[d] /\ (alone'[d] => alone[d])
  <2>1. CASE d # c
    BY <2>1, ServedFrame
  <2>2. CASE d = c
    <3>1. handler[c] = "idle" /\ ~request[c]
      BY <1>1, <2>2 DEF OnceInv
    <3>2. Exit(c)
      BY <3>1 DEF Served, EnumerateStep, ReceiveEnumerate, LockLibrary, EnumerateDevices,
         OpenFails, OpenDevice, ParseThrows, QueryDevice, Query, NextInterface, WriteAddress, Push,
         SendAnswer, Finish
    <3> QED
      BY <2>2, <3>2 DEF Exit
  <2> QED
    BY <2>1, <2>2
<1>2. ASSUME SendAnswer(c)
      PROVE  /\ Serials \ busy'[c] \subseteq ToSet(Named(EnumerateAnswer(c).structs))
             /\ IsInjective(Named(EnumerateAnswer(c).structs))
             /\ alone'[c] => Settled(EnumerateAnswer(c).structs)
  <2>1. EnumerateAnswer(c).structs = descriptions[c]
    BY DEF EnumerateAnswer
  <2>2. /\ handler[c] = "open" /\ dev_enum[c] = <<>> /\ UNCHANGED <<busy, alone>>
    BY <1>2 DEF SendAnswer, Finish
  <2>3. ToSet(dev_enum[c]) = {}
    BY <2>2 DEF ToSet
  <2> QED
    BY <2>1, <2>2, <2>3 DEF ListInv, ListOK, Looking, AloneInv
<1>3. ASSUME NEW d \in Conns
      PROVE  \/ answer'[d] = answer[d]
             \/ SendAnswer(c) /\ d = c /\ answer'[d] = EnumerateAnswer(c)
  <2>1. CASE SendAnswer(c)
    <3>1. answer' \in {answer, [answer EXCEPT ![c] = EnumerateAnswer(c)]}
      BY <2>1 DEF SendAnswer
    <3>2. PICK new : new = EnumerateAnswer(c)
      OBVIOUS
    <3>3. DOMAIN answer = Conns
      BY DEF ServerTypeOK
    <3> QED
      BY <2>1, <3>1, <3>2, <3>3
  <2>2. CASE ~SendAnswer(c)
    <3>1. answer' = answer
      BY <2>2 DEF Served, EnumerateStep, ReceiveEnumerate, LockLibrary,
         EnumerateDevices, OpenFails, OpenDevice, ParseThrows, QueryDevice, Query, NextInterface,
         WriteAddress, Push, Exit
    <3> QED
      BY <3>1
  <2> QED
    BY <2>1, <2>2
<1>4. BusyHidesOnlyItself'
  BY <1>1, <1>2, <1>3 DEF BusyHidesOnlyItself
<1>5. AddressSettled'
  BY <1>1, <1>2, <1>3 DEF AddressSettled, Settled
<1> QED
  BY <1>4, <1>5

-----------------------------------------------------------------------------
(* The steps together. *)

(* The first state has all of it.                                          *)
LEMMA InitInvariance ==
  ASSUME Init
  PROVE  IInv
<1> USE DEF Init, ServerInit, NoResult
<1>1. NoConn \notin Threads \cup Conns
  BY EnumerationAssumption
<1>2. TypeOK
  BY InitTypes
<1>3. LockInv /\ ConnInv /\ EntryInv /\ ResultInv /\ InitInv
  BY <1>1 DEF LockInv, ConnInv, EntryInv, ResultInv, InitInv
<1>4. OnceInv
  BY <1>1 DEF OnceInv, Fresh
<1>5. BusyInv /\ AloneInv
  BY DEF BusyInv, AloneInv
<1>6. ListInv
  BY DEF ListInv, ListOK, Looking
<1>7. ResultIsAnswer /\ BusyHidesOnlyItself /\ AddressSettled
  BY DEF ResultIsAnswer, BusyHidesOnlyItself, AddressSettled
<1>8. EnumerationClosesDevices
  BY EnumServerAssumption DEF EnumerationClosesDevices
<1>9. NothingLeftAfterAnswer /\ InitMeansInstance
  BY DEF NothingLeftAfterAnswer, InitMeansInstance, Enumerating
<1> QED
  BY <1>2, <1>3, <1>4, <1>5, <1>6, <1>7, <1>8, <1>9 DEF IInv

(* Nothing in it speaks of the variables that the client's steps leave     *)
(* alone.                                                                  *)
LEMMA ServerUntouched ==
  ASSUME IInv, UNCHANGED <<running, big, node, ext_ip, handler, dev_enum, ifa, descriptions,
                           answer, busy, alone>>
  PROVE  /\ BusyInv' /\ ListInv' /\ AloneInv'
         /\ BusyHidesOnlyItself' /\ EnumerationClosesDevices' /\ AddressSettled'
<1>1. BusyInv'
  BY DEF IInv, BusyInv
<1>2. ListInv'
  BY DEF IInv, ListInv, ListOK
<1>3. AloneInv'
  BY DEF IInv, AloneInv
<1>4. BusyHidesOnlyItself' /\ EnumerationClosesDevices' /\ AddressSettled'
  BY DEF IInv, BusyHidesOnlyItself, EnumerationClosesDevices, AddressSettled
<1> QED
  BY <1>1, <1>2, <1>3, <1>4

(* A step of the program keeps it.                                         *)
LEMMA ProgramInvariance ==
  ASSUME IInv, NEW t \in Threads, Program(t)
  PROVE  IInv'
<1> USE DEF IInv
<1>1. TypeOK' /\ LockInv' /\ ConnInv'
  BY ProgramTypes, ProgramLocks, ProgramConnInv
<1>2. OnceInv' /\ EntryInv' /\ InitInv' /\ InitMeansInstance'
  BY ProgramOnce, ProgramEntry, ProgramInit
<1>3. ResultInv' /\ ResultIsAnswer' /\ NothingLeftAfterAnswer'
  BY ProgramResult
<1>4. UNCHANGED <<running, big, node, ext_ip, handler, dev_enum, ifa, descriptions,
                  answer, busy, alone>>
  BY ProgramFrame
<1>5. /\ BusyInv' /\ ListInv' /\ AloneInv'
      /\ BusyHidesOnlyItself' /\ EnumerationClosesDevices' /\ AddressSettled'
  BY <1>4, ServerUntouched
<1> QED
  BY <1>1, <1>2, <1>3, <1>5

(* So does a step of the client's callback.                                *)
LEMMA ReceivedInvariance ==
  ASSUME IInv, NEW c \in Conns, Received(c)
  PROVE  IInv'
<1>1. /\ TypeOK /\ LockInv /\ OnceInv /\ ConnInv /\ EntryInv /\ ResultInv
      /\ InitInv /\ InitMeansInstance /\ ResultIsAnswer /\ NothingLeftAfterAnswer
  BY DEF IInv
<1>2. TypeOK' /\ LockInv' /\ OnceInv' /\ EntryInv'
  BY <1>1, ReceivedTypes, ReceivedLocks, ReceivedOnce, ReceivedEntry
<1>3. ResultInv' /\ ResultIsAnswer' /\ NothingLeftAfterAnswer'
  BY <1>1, ReceivedResult
<1>4. UNCHANGED <<serverVars, initVars, pc, conn_id, link>>
  BY <1>1, ReceivedFrame
<1>5. ConnInv' /\ InitInv' /\ InitMeansInstance'
  BY <1>1, <1>4 DEF initVars, ConnInv, InitInv, InitMeansInstance
<1>6. UNCHANGED <<running, big, node, ext_ip, handler, dev_enum, ifa, descriptions,
                  answer, busy, alone>>
  BY <1>4 DEF serverVars, handlerVars
<1>7. /\ BusyInv' /\ ListInv' /\ AloneInv'
      /\ BusyHidesOnlyItself' /\ EnumerationClosesDevices' /\ AddressSettled'
  BY <1>6, ServerUntouched
<1> QED
  BY <1>2, <1>3, <1>5, <1>7 DEF IInv

(* So does a step of the server's callback.                                *)
LEMMA ServedInvariance ==
  ASSUME IInv, running, NEW c \in Conns, Served(c), UNCHANGED clientVars
  PROVE  IInv'
<1>1. /\ TypeOK /\ ServerTypeOK /\ LockInv /\ OnceInv /\ ConnInv /\ EntryInv /\ ResultInv
      /\ InitInv /\ BusyInv /\ ListInv /\ AloneInv /\ InitMeansInstance /\ ResultIsAnswer
      /\ NothingLeftAfterAnswer /\ BusyHidesOnlyItself /\ EnumerationClosesDevices
      /\ AddressSettled
  BY DEF IInv, TypeOK
<1>2. ServerTypeOK'
  BY <1>1, ServedTypes
<1>3. TypeOK'
  BY <1>1, <1>2 DEF TypeOK, clientVars, initVars, enumVars
<1>4. LockInv' /\ OnceInv' /\ EntryInv'
  BY <1>1, ServedLocks, ServedOnce, ServedEntry
<1>5. ConnInv' /\ InitInv' /\ InitMeansInstance'
  BY <1>1 DEF clientVars, initVars, ConnInv, InitInv, InitMeansInstance
<1>6. ResultInv' /\ ResultIsAnswer' /\ NothingLeftAfterAnswer'
  BY <1>1, ServedResult
<1>7. BusyInv' /\ ListInv' /\ AloneInv'
  BY <1>1, ServedBusy, ServedList, ServedAlone
<1>8. BusyHidesOnlyItself' /\ EnumerationClosesDevices' /\ AddressSettled'
  BY <1>1, ServedAnswers, ServedCloses
<1> QED
  BY <1>3, <1>4, <1>5, <1>6, <1>7, <1>8 DEF IInv

(* So does what happens to a device from outside.                          *)
LEMMA OutsideInvariance ==
  ASSUME IInv, NEW s \in Serials, Outside(s), UNCHANGED clientVars
  PROVE  IInv'
<1>1. /\ TypeOK /\ ServerTypeOK /\ LockInv /\ OnceInv /\ ConnInv /\ EntryInv /\ ResultInv
      /\ InitInv /\ BusyInv /\ ListInv /\ AloneInv /\ InitMeansInstance /\ ResultIsAnswer
      /\ NothingLeftAfterAnswer /\ BusyHidesOnlyItself /\ EnumerationClosesDevices
      /\ AddressSettled
  BY DEF IInv, TypeOK
<1>2. UNCHANGED <<library_mutex, handlerVars, request, answer>>
  BY OutsideFrame
<1>3. ServerTypeOK'
  BY <1>1, OutsideTypes
<1>4. TypeOK'
  BY <1>1, <1>3 DEF TypeOK, clientVars, initVars, enumVars
<1>5. LockInv' /\ EntryInv'
  BY <1>1, <1>2 DEF handlerVars, clientVars, enumVars, LockInv, EntryInv
<1>6. OnceInv'
  BY <1>1, <1>2 DEF handlerVars, clientVars, enumVars, OnceInv, Fresh
<1>7. ConnInv' /\ InitInv' /\ InitMeansInstance'
  BY <1>1 DEF clientVars, initVars, ConnInv, InitInv, InitMeansInstance
<1>8. ResultInv' /\ ResultIsAnswer' /\ NothingLeftAfterAnswer'
  BY <1>1, <1>2 DEF clientVars, enumVars, ResultInv, ResultIsAnswer, NothingLeftAfterAnswer
<1>9. BusyInv' /\ EnumerationClosesDevices'
  BY <1>1, OutsideBusy, OutsideCloses
<1>10. ListInv' /\ AloneInv' /\ BusyHidesOnlyItself' /\ AddressSettled'
  BY <1>1, OutsideAnswers
<1> QED
  BY <1>4, <1>5, <1>6, <1>7, <1>8, <1>9, <1>10 DEF IInv

-----------------------------------------------------------------------------
(* The inductive invariant holds in every state that the program, its      *)
(* callback, the server and the people who plug, unplug and open devices   *)
(* can bring about, for any number of each.                                *)
THEOREM Invariance == Spec => []IInv
<1>1. Init => IInv
  BY InitInvariance
<1>2. IInv /\ [Next]_vars => IInv'
  <2> SUFFICES ASSUME IInv, [Next]_vars
               PROVE  IInv'
    OBVIOUS
  <2>1. CASE \E t \in Threads : Program(t)
    BY <2>1, ProgramInvariance
  <2>2. CASE \E c \in Conns : Received(c)
    BY <2>2, ReceivedInvariance
  <2>3. CASE ServerStep
    <3>1. running /\ UNCHANGED clientVars
      BY <2>3 DEF ServerStep
    <3>2. (\E c \in Conns : Served(c)) \/ (\E s \in Serials : Outside(s))
      BY <2>3 DEF ServerStep, Served
    <3> QED
      BY <3>1, <3>2, ServedInvariance, OutsideInvariance
  <2>4. CASE UNCHANGED vars
    <3>1. UNCHANGED <<serverVars, clientVars>>
      BY <2>4 DEF vars
    <3>2. UNCHANGED <<running, big, node, library_mutex, ext_ip, handler, dev_enum, ifa,
                      descriptions, request, answer, changes, busy, alone>>
      BY <3>1 DEF serverVars, handlerVars
    <3>3. /\ BusyInv' /\ ListInv' /\ AloneInv'
          /\ BusyHidesOnlyItself' /\ EnumerationClosesDevices' /\ AddressSettled'
      BY <3>2, ServerUntouched
    <3>4. TypeOK' /\ LockInv' /\ ConnInv' /\ EntryInv'
      BY <3>1, <3>2 DEF IInv, clientVars, initVars, enumVars, TypeOK, ServerTypeOK, LockInv,
         ConnInv, EntryInv
    <3>5. OnceInv'
      BY <3>1, <3>2 DEF IInv, clientVars, enumVars, OnceInv, Fresh
    <3>6. /\ ResultInv' /\ InitInv' /\ ResultIsAnswer' /\ NothingLeftAfterAnswer'
          /\ InitMeansInstance'
      BY <3>1, <3>2 DEF IInv, clientVars, initVars, enumVars, ResultInv, InitInv,
         ResultIsAnswer, NothingLeftAfterAnswer, InitMeansInstance
    <3> QED
      BY <3>3, <3>4, <3>5, <3>6 DEF IInv
  <2> QED
    BY <2>1, <2>2, <2>3, <2>4 DEF Next, Program, Received
<1> QED
  BY <1>1, <1>2, PTL DEF Spec

(* Every variable keeps its type.                                          *)
THEOREM TypeCorrect == Spec => []TypeOK
BY Invariance, PTL DEF IInv

(* What bindy_enumerate returns is the whole answer to that call, and the  *)
(* number it returns is the number of structs there are.                   *)
THEOREM ResultsAreAnswers == Spec => []ResultIsAnswer
BY Invariance, PTL DEF IInv

(* A device in use hides itself from EnumerateRequest and no other, in     *)
(* whatever order the library lists the devices.                           *)
THEOREM BusyHidesOne == Spec => []BusyHidesOnlyItself
BY Invariance, PTL DEF IInv

(* The server has a device open only while it asks it who it is.           *)
THEOREM DevicesClosed == Spec => []EnumerationClosesDevices
BY Invariance, PTL DEF IInv

(* A request served alone is answered with the address of the last         *)
(* interface, in every struct.                                             *)
THEOREM AddressIsSettled == Spec => []AddressSettled
BY Invariance, PTL DEF IInv

(* bindy_enumerate cleans up when it returns an answer, and no copy is     *)
(* ever lost.                                                              *)
THEOREM NothingLeft == Spec => []NothingLeftAfterAnswer
BY Invariance, PTL DEF IInv

(* Past bindy_init there is an instance, made with a key, with its handler *)
(* set.                                                                    *)
THEOREM InitializedFirst == Spec => []InitMeansInstance
BY Invariance, PTL DEF IInv

(* Neither global_mutex is kept locked by a call, a callback or a request  *)
(* that is over.                                                           *)
THEOREM MutexesReleased == Spec => []MutexesInside
<1>1. IInv => MutexesInside
  <2> SUFFICES ASSUME IInv
               PROVE  MutexesInside
    OBVIOUS
  <2>1. TypeOK /\ ServerTypeOK /\ LockInv
    BY DEF IInv, TypeOK
  <2>2. global_mutex # NoConn => global_mutex \in Conns /\ callback[global_mutex] = "store"
    BY <2>1 DEF TypeOK, LockInv
  <2>3. library_mutex # NoConn => handler[library_mutex] = "enumerate"
    BY <2>1 DEF ServerTypeOK, LockInv
  <2> QED
    BY <2>2, <2>3 DEF MutexesInside
<1> QED
  BY <1>1, Invariance, PTL
=============================================================================
