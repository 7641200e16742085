--------------------------- MODULE XiSystemProofs ---------------------------
(***************************************************************************)
(* Theorems about XiSystem, the client library and a server, for every     *)
(* value of its constants.                                                 *)
(***************************************************************************)
EXTENDS XiSystemInv, TLAPS, SequenceTheorems

USE DEF progVars

-----------------------------------------------------------------------------
(* Packets on their way. *)

(* A queue holds what it held before a packet was added, and that packet.  *)
LEMMA HasAppend ==
  ASSUME NEW S, NEW q \in Seq(S), NEW new \in S, NEW packet
  PROVE  /\ Has(Append(q, new), packet) <=> Has(q, packet) \/ packet = new
         /\ Append(q, new) \in Seq(S)
<1>1. /\ Append(q, new) \in Seq(S) /\ Len(Append(q, new)) = Len(q) + 1
      /\ \A i \in 1 .. Len(q) : Append(q, new)[i] = q[i]
      /\ Append(q, new)[Len(q) + 1] = new
  BY AppendProperties
<1>2. Len(q) \in Nat
  BY LenProperties
<1>3. ASSUME Has(Append(q, new), packet) PROVE Has(q, packet) \/ packet = new
  <2>1. PICK i \in 1 .. Len(q) + 1 : Append(q, new)[i] = packet
    BY <1>1, <1>3 DEF Has
  <2>2. i = Len(q) + 1 \/ i \in 1 .. Len(q)
    BY <1>2
  <2> QED
    BY <1>1, <2>1, <2>2 DEF Has
<1>4. ASSUME Has(q, packet) \/ packet = new PROVE Has(Append(q, new), packet)
  BY <1>1, <1>2, <1>4 DEF Has
<1> QED
  BY <1>1, <1>3, <1>4

(* The head of a queue is in it, and what is behind it was in it before.   *)
LEMMA HasTail ==
  ASSUME NEW S, NEW q \in Seq(S), q # <<>>
  PROVE  /\ Tail(q) \in Seq(S) /\ Head(q) \in S
         /\ Has(q, Head(q))
         /\ \A packet : Has(q, packet) <=> packet = Head(q) \/ Has(Tail(q), packet)
<1>1. /\ Tail(q) \in Seq(S) /\ Head(q) \in S /\ Len(Tail(q)) = Len(q) - 1
      /\ \A i \in 1 .. Len(Tail(q)) : Tail(q)[i] = q[i + 1]
  BY HeadTailProperties
<1>2. Len(q) \in Nat \ {0}
  BY EmptySeq
<1>3. Head(q) = q[1]
  BY <1>2
<1>4. ASSUME NEW packet, Has(Tail(q), packet) PROVE Has(q, packet)
  <2>1. PICK i \in 1 .. Len(Tail(q)) : Tail(q)[i] = packet
    BY <1>4 DEF Has
  <2>2. i + 1 \in 1 .. Len(q)
    BY <1>1, <1>2
  <2> QED
    BY <1>1, <2>1, <2>2 DEF Has
<1>5. ASSUME NEW packet, Has(q, packet) PROVE packet = Head(q) \/ Has(Tail(q), packet)
  <2>1. PICK i \in 1 .. Len(q) : q[i] = packet
    BY <1>5 DEF Has
  <2>2. CASE i = 1
    BY <1>3, <2>1, <2>2
  <2>3. CASE i # 1
    <3>1. i - 1 \in 1 .. Len(Tail(q)) /\ (i - 1) + 1 = i
      BY <1>1, <1>2, <2>3
    <3> QED
      BY <1>1, <2>1, <3>1 DEF Has
  <2> QED
    BY <2>2, <2>3
<1>6. Has(q, Head(q))
  BY <1>2, <1>3 DEF Has
<1> QED
  BY <1>1, <1>4, <1>5, <1>6

(* Nothing is in an empty queue.                                           *)
LEMMA HasNothing ==
  /\ \A packet : ~Has(<<>>, packet)
  /\ \A answer : ~Tells(<<>>, answer)
BY DEF Has, Tells

(* A queue tells what its packets tell.                                    *)
LEMMA TellsSays ==
  ASSUME NEW q, NEW answer
  PROVE  Tells(q, answer) <=> \E packet : Has(q, packet) /\ packet.kind = answer
BY DEF Tells, Has

(* So one that has got a packet tells what it told, and that; ...          *)
LEMMA TellsAppend ==
  ASSUME NEW q \in Seq(Packets), NEW new \in Packets, NEW answer
  PROVE  /\ Tells(Append(q, new), answer) <=> Tells(q, answer) \/ new.kind = answer
         /\ Append(q, new) \in Seq(Packets)
<1>1. /\ \A packet : Has(Append(q, new), packet) <=> Has(q, packet) \/ packet = new
      /\ Append(q, new) \in Seq(Packets)
  BY HasAppend
<1> QED
  BY <1>1, TellsSays

(* ... and one that gives its head away told that, and what it still tells. *)
LEMMA TellsTail ==
  ASSUME NEW q \in Seq(Packets), q # <<>>, NEW answer
  PROVE  /\ Tail(q) \in Seq(Packets) /\ Head(q) \in Packets
         /\ Tells(q, answer) <=> Head(q).kind = answer \/ Tells(Tail(q), answer)
<1>1. /\ Tail(q) \in Seq(Packets) /\ Head(q) \in Packets
      /\ \A packet : Has(q, packet) <=> packet = Head(q) \/ Has(Tail(q), packet)
  BY HasTail
<1> QED
  BY <1>1, TellsSays

-----------------------------------------------------------------------------
(* Type correctness. *)

(* The connection of a call that has one is a connection.                  *)
LEMMA CallHasConn ==
  ASSUME TypeOK, ConnInv, NEW t \in Threads, pc[t] \notin Unconnected
  PROVE  conn_id[t] \in Conns
BY DEF TypeOK, ClientTypeOK, ConnInv

(* Every step of a call is a label.                                        *)
LEMMA LabelTypes ==
  /\ "idle" \in Labels
  /\ "open_reset" \in Labels /\ "open_connect" \in Labels
  /\ "open_send" \in Labels /\ "open_finish" \in Labels
  /\ "write_find" \in Labels /\ "write_send" \in Labels
  /\ "read_find" \in Labels /\ "read_lock" \in Labels /\ "read_copy" \in Labels
  /\ "close_find" \in Labels /\ "close_return" \in Labels /\ "close_request" \in Labels
  /\ "close_send" \in Labels /\ "close_disconnect" \in Labels /\ "close_erase" \in Labels
BY DEF Labels, Opening, Reading, Closing

(* A step of a thread of the program keeps the types.                      *)
LEMMA ThreadTypes ==
  ASSUME TypeOK, ConnInv, NEW t \in Threads, Call(t) \/ ThreadStep(t), UNCHANGED serverVars
  PROVE  TypeOK'
<1>0. pc[t] \notin {"idle", "open_reset", "open_connect"} => conn_id[t] \in Conns
  BY CallHasConn DEF Unconnected
<1> USE LabelTypes DEF TypeOK, ClientTypeOK, Goto, serverVars
<1>17. Return(t) => /\ pc' \in [Threads -> Labels]
                    /\ conn_id' \in [Threads -> Conns \cup {NoConn}]
  BY DEF Return
<1>18. Die => TypeOK'
  BY DEF Die, callVars, objVars
<1> USE <1>17, <1>18
<1>1. ASSUME NEW s \in Serials, CallOpen(t, s)
      PROVE  TypeOK'
  BY <1>1 DEF CallOpen, objVars, netVars
<1>2. ASSUME NEW c \in Conns, CallWrite(t, c) \/ CallRead(t, c) \/ CallClose(t, c)
      PROVE  TypeOK'
  BY <1>2 DEF CallWrite, CallRead, CallClose, CallOn, objVars, netVars
<1>3. CASE OpenReset(t) \/ OpenConnectFails(t)
  BY <1>3 DEF OpenReset, OpenConnectFails, objVars, netVars
<1>4. ASSUME NEW c \in Conns, OpenConnect(t, c)
      PROVE  TypeOK'
  BY <1>4 DEF OpenConnect, objVars
<1>5. ASSUME conn_id[t] \in Conns, NEW packet \in Requests,
             Transmit(conn_id[t], packet) \/ UNCHANGED toServer
      PROVE  toServer' \in [Conns -> Seq(Requests)]
  <2>1. Append(toServer[conn_id[t]], packet) \in Seq(Requests)
    BY <1>5, HasAppend
  <2> QED
    BY <1>5, <2>1 DEF Transmit
<1>6. CASE OpenSend(t) \/ WriteSend(t) \/ CloseSend(t)
  <2>1. toServer' \in [Conns -> Seq(Requests)]
    BY <1>0, <1>5, <1>6 DEF OpenSend, WriteSend, CloseSend, Requests
  <2>2. CASE OpenSend(t)
    BY <2>1, <2>2 DEF OpenSend, objVars
  <2>3. CASE WriteSend(t)
    BY <2>1, <2>3 DEF WriteSend, objVars
  <2>4. CASE CloseSend(t)
    <3>1. unsent' \in SUBSET Conns
      BY <1>0, <2>4 DEF CloseSend
    <3> QED
      BY <2>1, <2>4, <3>1 DEF CloseSend, objVars
  <2> QED
    BY <1>6, <2>2, <2>3, <2>4
<1>7. CASE OpenSendThrows(t)
  BY <1>7 DEF OpenSendThrows, Disconnect, objVars
<1>8. CASE OpenSucceeds(t) \/ OpenFails(t)
  BY <1>0, <1>8 DEF OpenSucceeds, OpenFails, NewHandle, FinishOpen, Disconnect
<1>9. CASE WriteFind(t)
  BY <1>9 DEF WriteFind, objVars, netVars
<1>14. CASE ReadFind(t)
  BY <1>14 DEF ReadFind, objVars, netVars
<1>15. CASE ReadLock(t)
  BY <1>15 DEF ReadLock, objVars, netVars
<1>10. CASE ReadFreed(t)
  BY <1>10 DEF ReadFreed, objVars, netVars
<1>11. ASSUME conn_id[t] \in device_by_conn,
              NEW k \in 0 .. Len(buffer[conn_id[t]]), ReadCopy(t, k)
       PROVE  TypeOK'
  <2> DEFINE bytes == buffer[conn_id[t]]
  <2>1. bytes \in Seq(Nat) /\ Len(bytes) \in Nat /\ \A i \in 1 .. Len(bytes) : bytes[i] \in Nat
    BY <1>11
  <2>2. SubSeq(bytes, k + 1, Len(bytes)) \in Seq(Nat)
    BY <2>1, SubSeqProperties
  <2>3. k # 0 => bytes[k] \in Nat
    BY <2>1
  <2> QED
    BY <1>11, <2>2, <2>3 DEF ReadCopy, ReadBytes, netVars
<1>12. CASE CloseFind(t) \/ CloseReturn(t)
  BY <1>12 DEF CloseFind, CloseReturn, objVars, netVars
<1>19. CASE CloseRequest(t)
  BY <1>19 DEF CloseRequest, objVars, netVars
<1>20. CASE CloseDisconnect(t)
  BY <1>20 DEF CloseDisconnect, Disconnect, objVars
<1>13. CASE CloseErase(t)
  BY <1>13, EmptySeq DEF CloseErase, DeleteDevice, netVars
<1>16. CASE CloseErased(t)
  BY <1>16 DEF CloseErased, objVars, netVars
<1> QED
  BY <1>1, <1>2, <1>3, <1>4, <1>6, <1>7, <1>8, <1>9, <1>10, <1>11, <1>12, <1>13, <1>14,
     <1>15, <1>16, <1>19, <1>20 DEF Call, ThreadStep

(* The packet that a callback handles is one that has arrived.             *)
LEMMA CallbackPackets ==
  /\ Idle.kind = "idle" /\ Idle.byte = 0
  /\ Idle \in [kind : Answers \cup {"idle", "put"}, byte : Nat]
  /\ \A packet \in Packets :
       /\ packet \in [kind : Answers \cup {"idle", "put"}, byte : Nat]
       /\ packet.kind \in Answers /\ packet.byte \in Nat
BY DEF Idle, Packets

(* A step of a callback, and the loss of a connection, keep the types.     *)
LEMMA CallbackTypes ==
  ASSUME TypeOK, NEW c \in Conns, CallbackStep(c) \/ LinkLost(c), UNCHANGED serverVars
  PROVE  TypeOK'
<1> USE CallbackPackets DEF TypeOK, ClientTypeOK, CallbackDone, serverVars, callVars
<1>1. CASE Deliver(c)
  <2>1. Tail(toClient[c]) \in Seq(Packets) /\ Head(toClient[c]) \in Packets
    BY <1>1, TellsTail DEF Deliver
  <2> QED
    BY <1>1, <2>1 DEF Deliver, objVars
<1>2. CASE OpenDeviceAnswer(c)
  BY <1>2 DEF OpenDeviceAnswer, objVars, netVars
<1>3. CASE DeviceEnds(c)
  <2>1. CASE c \in device_by_conn
    <3>1. <<>> \in Seq(Nat)
      BY EmptySeq
    <3>2. DeleteDevice(c)
      BY <1>3, <2>1 DEF DeviceEnds
    <3>3. /\ device_by_conn' \in SUBSET Conns
          /\ mutex' \in [Conns -> Threads \cup {NoOne}]
          /\ buffer' \in [Conns -> Seq(Nat)]
          /\ UNCHANGED <<arrived, taken>>
      BY <3>1, <3>2 DEF DeleteDevice
    <3> QED
      BY <1>3, <3>3 DEF DeviceEnds, netVars
  <2>2. CASE c \notin device_by_conn
    <3>1. UNCHANGED objVars
      BY <1>3, <2>2 DEF DeviceEnds
    <3> QED
      BY <1>3, <3>1 DEF DeviceEnds, objVars, netVars
  <2> QED
    BY <2>1, <2>2
<1>8. callback[c].byte \in Nat /\ callback[c].kind \in Answers \cup {"idle", "put"}
  OBVIOUS
<1>4. CASE DataLost(c)
  BY <1>4, <1>8 DEF DataLost, netVars
<1>7. CASE DataFind(c)
  <2>1. callback' \in [Conns -> [kind : Answers \cup {"idle", "put"}, byte : Nat]]
    BY <1>7, <1>8 DEF DataFind
  <2> QED
    BY <1>7, <2>1 DEF DataFind, objVars, netVars
<1>5. CASE DataPut(c)
  <2>1. Append(buffer[c], callback[c].byte) \in Seq(Nat)
    BY <1>8, AppendProperties
  <2> QED
    BY <1>5, <1>8, <2>1 DEF DataPut, netVars
<1>6. CASE LinkLost(c)
  BY <1>6 DEF LinkLost, objVars
<1> QED
  BY <1>1, <1>2, <1>3, <1>4, <1>5, <1>6, <1>7 DEF CallbackStep

(* A step of the server keeps the types.                                   *)
LEMMA ServerTypes ==
  ASSUME TypeOK, NEW c \in Conns, ServerStep(c)
  PROVE  TypeOK'
<1> USE DEF TypeOK, ClientTypeOK, ClientUnchanged, callVars, objVars
<1>0. given[c] \in Nat /\ given[c] + 1 \in Nat /\ 0 \in Nat
  BY SystemAssumption DEF SystemAssumption
<1>1. ASSUME NEW answer \in Answers, NEW byte \in Nat,
             Send(c, answer, byte) \/ UNCHANGED toClient
      PROVE  toClient' \in [Conns -> Seq(Packets)]
  <2>1. [kind |-> answer, byte |-> byte] \in Packets
    BY DEF Packets
  <2>2. Append(toClient[c], [kind |-> answer, byte |-> byte]) \in Seq(Packets)
    BY <2>1, TellsAppend
  <2> QED
    BY <1>1, <2>2 DEF Send
<1>2. ASSUME NEW packet, IsNext(c, packet), Taken(c)
      PROVE  toServer' \in [Conns -> Seq(Requests)]
  <2>1. Tail(toServer[c]) \in Seq(Requests)
    BY <1>2, HasTail DEF IsNext
  <2> QED
    BY <1>2, <2>1 DEF Taken
<1>3. CASE AnswerOpen(c) \/ Refuse(c) \/ AnswerClose(c)
  <2>1. toClient' \in [Conns -> Seq(Packets)]
    BY <1>0, <1>1, <1>3 DEF AnswerOpen, Refuse, AnswerClose, Reply, Answers
  <2> QED
    BY <1>2, <1>3, <2>1 DEF AnswerOpen, Refuse, AnswerClose, Serves, serverVars
<1>4. CASE ReceiveRaw(c)
  BY <1>2, <1>4 DEF ReceiveRaw, Serves
<1>5. CASE WriteFails(c)
  <2>1. toClient' \in [Conns -> Seq(Packets)]
    BY <1>0, <1>1, <1>5 DEF WriteFails, Reply, Answers
  <2> QED
    BY <1>5, <2>1 DEF WriteFails
<1>6. CASE ReadDevice(c)
  <2>1. toClient' \in [Conns -> Seq(Packets)]
    BY <1>0, <1>1, <1>6 DEF ReadDevice, Answers
  <2>2. given' \in [Conns -> 0 .. MaxBytes]
    BY <1>6, SystemAssumption DEF ReadDevice, SystemAssumption
  <2>3. dropped' \in [Conns -> SUBSET Nat]
    <3>1. dropped[c] \cup {given[c] + 1} \in SUBSET Nat
      BY <1>0
    <3>2. dropped' = dropped \/ dropped' = [dropped EXCEPT ![c] = dropped[c] \cup {given[c] + 1}]
      BY <1>6 DEF ReadDevice
    <3> QED
      BY <3>1, <3>2
  <2>4. output' \in [Conns -> {"empty", "fed", "failed", "stopped"}]
    BY <1>6 DEF ReadDevice
  <2> QED
    BY <1>6, <2>1, <2>2, <2>3, <2>4 DEF ReadDevice
<1>7. GiveBack(c) => owner' \in [Serials -> Conns \cup {NoConn}]
  BY DEF GiveBack
<1>8. CASE Accept(c) \/ RemoveDevice(c) \/ PeerGone(c)
  BY <1>7, <1>8 DEF Accept, RemoveDevice, PeerGone
<1>10. CASE Grant(c)
  <2>1. owner' \in [Serials -> Conns \cup {NoConn}]
    BY <1>10 DEF Grant
  <2>2. session' \in [Conns -> {"new", "open", "granting", "closing", "over"}]
    BY <1>10 DEF Grant
  <2> QED
    BY <1>10, <2>1, <2>2 DEF Grant
<1>9. CASE Forget(c)
  BY <1>9, EmptySeq DEF Forget
<1> QED
  BY <1>3, <1>4, <1>5, <1>6, <1>8, <1>9, <1>10 DEF ServerStep, Serve

(* A call has a connection exactly while it works on one.                  *)
LEMMA ConnStep ==
  ASSUME TypeOK, ConnInv, NEW t \in Threads, Call(t) \/ ThreadStep(t)
  PROVE  ConnInv'
<1>0. /\ pc \in [Threads -> Labels] /\ conn_id \in [Threads -> Conns \cup {NoConn}]
      /\ conn_id[t] = NoConn <=> pc[t] \in Unconnected
      /\ NoConn \notin Conns
  BY ClientAssumption DEF TypeOK, ClientTypeOK, ConnInv, ClientAssumption
<1> SUFFICES /\ \A u \in Threads \ {t} : pc'[u] = pc[u] /\ conn_id'[u] = conn_id[u]
             /\ conn_id'[t] = NoConn <=> pc'[t] \in Unconnected
  BY DEF ConnInv
<1> USE <1>0 DEF Goto, Return, Unconnected
<1>1. Return(t) \/ Die =>
        /\ \A u \in Threads \ {t} : pc'[u] = pc[u] /\ conn_id'[u] = conn_id[u]
        /\ conn_id'[t] = NoConn <=> pc'[t] \in Unconnected
  BY DEF Die, callVars
<1>2. CASE Call(t)
  BY <1>2 DEF Call, CallOpen, CallWrite, CallRead, CallClose, CallOn
<1>3. CASE OpenReset(t) \/ OpenSend(t) \/ \E c \in Conns : OpenConnect(t, c)
  BY <1>3 DEF OpenReset, OpenSend, OpenConnect
<1>4. CASE OpenConnectFails(t) \/ OpenSendThrows(t) \/ OpenSucceeds(t) \/ OpenFails(t)
  BY <1>1, <1>4 DEF OpenConnectFails, OpenSendThrows, OpenSucceeds, OpenFails, FinishOpen
<1>5. CASE WriteSend(t) \/ ReadFreed(t) \/ \E k \in 0 .. Len(buffer[conn_id[t]]) : ReadCopy(t, k)
  BY <1>1, <1>5 DEF WriteSend, ReadFreed, ReadCopy, ReadBytes
<1>6. CASE WriteFind(t) \/ ReadFind(t) \/ ReadLock(t)
  BY <1>1, <1>6 DEF WriteFind, ReadFind, ReadLock
<1>7. CASE CloseReturn(t) \/ CloseErase(t) \/ CloseErased(t)
  BY <1>1, <1>7 DEF CloseReturn, CloseErase, CloseErased
<1>8. CASE CloseFind(t) \/ CloseSend(t) \/ CloseDisconnect(t)
  BY <1>8 DEF CloseFind, CloseSend, CloseDisconnect
<1>9. CASE CloseRequest(t)
  BY <1>1, <1>9 DEF CloseRequest
<1> QED
  BY <1>2, <1>3, <1>4, <1>5, <1>6, <1>7, <1>8, <1>9 DEF ThreadStep

(* The variables have their types when the program and the server start.   *)
LEMMA InitTypes ==
  ASSUME Init
  PROVE  TypeOK /\ ConnInv
<1>1. /\ buffer \in [Conns -> Seq(Nat)]
      /\ toServer \in [Conns -> Seq(Requests)]
      /\ toClient \in [Conns -> Seq(Packets)]
  BY EmptySeq DEF Init, ClientInit
<1>2. given \in [Conns -> 0 .. MaxBytes]
  BY SystemAssumption DEF Init, SystemAssumption
<1>3. /\ serial \in [Threads -> Serials]
      /\ target \in [Conns -> Serials]
  BY DEF Init, ClientInit
<1>4. pc \in [Threads -> Labels]
  BY DEF Init, ClientInit, Labels
<1>5. ConnInv
  BY DEF Init, ClientInit, ConnInv, Unconnected
<1> QED
  BY <1>1, <1>2, <1>3, <1>4, <1>5, CallbackPackets DEF Init, ClientInit, TypeOK, ClientTypeOK

-----------------------------------------------------------------------------
(* What a step leaves alone. *)

(* A call moves no other call and no callback, and takes no packet that is *)
(* on its way to the client.                                               *)
LEMMA ThreadMovesItself ==
  ASSUME TypeOK, NEW t \in Threads, Call(t) \/ ThreadStep(t)
  PROVE  /\ \A u \in Threads \ {t} : /\ pc'[u] = pc[u]
                                     /\ conn_id'[u] = conn_id[u]
                                     /\ serial'[u] = serial[u]
         /\ UNCHANGED <<callback, toClient, arrived>>
<1> USE DEF Goto, Return
<1>0. /\ pc \in [Threads -> Labels] /\ conn_id \in [Threads -> Conns \cup {NoConn}]
      /\ serial \in [Threads -> Serials]
  BY DEF TypeOK, ClientTypeOK
<1>1. CASE Call(t)
  BY <1>0, <1>1 DEF Call, CallOpen, CallWrite, CallRead, CallClose, CallOn, netVars, objVars
<1>2. CASE OpenReset(t) \/ OpenSend(t) \/ \E c \in Conns : OpenConnect(t, c)
  BY <1>0, <1>2 DEF OpenReset, OpenSend, OpenConnect, netVars, objVars
<1>3. CASE OpenConnectFails(t) \/ OpenSendThrows(t) \/ OpenSucceeds(t) \/ OpenFails(t)
  BY <1>0, <1>3 DEF OpenConnectFails, OpenSendThrows, OpenSucceeds, OpenFails, FinishOpen,
     netVars, objVars
<1>4. CASE WriteFind(t) \/ WriteSend(t) \/ ReadFind(t) \/ ReadLock(t)
  BY <1>0, <1>4 DEF WriteFind, WriteSend, ReadFind, ReadLock, netVars, objVars
<1>5. CASE \E k \in 0 .. Len(buffer[conn_id[t]]) : ReadCopy(t, k)
  BY <1>0, <1>5 DEF ReadCopy, ReadBytes, netVars
<1>6. CASE ReadFreed(t) \/ CloseErased(t)
  BY <1>0, <1>6 DEF ReadFreed, CloseErased, Die, callVars, netVars, objVars
<1>7. CASE CloseFind(t) \/ CloseReturn(t) \/ CloseRequest(t)
  BY <1>0, <1>7 DEF CloseFind, CloseReturn, CloseRequest, Die, callVars, netVars, objVars
<1>8. CASE CloseSend(t) \/ CloseDisconnect(t) \/ CloseErase(t)
  BY <1>0, <1>8 DEF CloseSend, CloseDisconnect, CloseErase, DeleteDevice, netVars, objVars
<1> QED
  BY <1>1, <1>2, <1>3, <1>4, <1>5, <1>6, <1>7, <1>8 DEF ThreadStep

(* A call touches no other connection than its own.                        *)
LEMMA ThreadKeepsToItsConn ==
  ASSUME TypeOK, NEW t \in Threads, Call(t) \/ ThreadStep(t),
         NEW c \in Conns, c # conn_id[t]
  PROVE  /\ c \in device_by_conn' <=> c \in device_by_conn
         /\ buffer'[c] = buffer[c] /\ taken'[c] = taken[c]
         /\ toServer'[c] = toServer[c]
<1>0. /\ buffer \in [Conns -> Seq(Nat)] /\ taken \in [Conns -> Nat]
      /\ toServer \in [Conns -> Seq(Requests)]
  BY DEF TypeOK, ClientTypeOK
<1>1. CASE Call(t)
  BY <1>0, <1>1 DEF Call, CallOpen, CallWrite, CallRead, CallClose, CallOn, netVars, objVars
<1>2. CASE OpenReset(t) \/ OpenSend(t) \/ \E d \in Conns : OpenConnect(t, d)
  BY <1>0, <1>2 DEF OpenReset, OpenSend, OpenConnect, Transmit, netVars, objVars
<1>3. CASE OpenConnectFails(t) \/ OpenSendThrows(t) \/ OpenSucceeds(t) \/ OpenFails(t)
  BY <1>0, <1>3 DEF OpenConnectFails, OpenSendThrows, OpenSucceeds, OpenFails, FinishOpen,
     netVars, objVars
<1>4. CASE WriteFind(t) \/ WriteSend(t) \/ ReadFind(t) \/ ReadLock(t)
  BY <1>0, <1>4 DEF WriteFind, WriteSend, ReadFind, ReadLock, Transmit, netVars, objVars
<1>5. CASE \E k \in 0 .. Len(buffer[conn_id[t]]) : ReadCopy(t, k)
  BY <1>0, <1>5 DEF ReadCopy, ReadBytes, netVars
<1>6. CASE ReadFreed(t) \/ CloseErased(t)
  BY <1>0, <1>6 DEF ReadFreed, CloseErased, Die, netVars, objVars
<1>7. CASE CloseFind(t) \/ CloseReturn(t) \/ CloseRequest(t)
  BY <1>0, <1>7 DEF CloseFind, CloseReturn, CloseRequest, Die, netVars, objVars
<1>8. CASE CloseSend(t) \/ CloseDisconnect(t) \/ CloseErase(t)
  BY <1>0, <1>8 DEF CloseSend, CloseDisconnect, CloseErase, Transmit, DeleteDevice, netVars,
     objVars
<1> QED
  BY <1>1, <1>2, <1>3, <1>4, <1>5, <1>6, <1>7, <1>8 DEF ThreadStep

(* A connection is made by bindy_open; apart from this a call only ends    *)
(* connections, and the serial that their packets name stays.              *)
LEMMA ThreadLinks ==
  ASSUME TypeOK, UnusedInv, NEW t \in Threads, Call(t) \/ ThreadStep(t), NEW c \in Conns
  PROVE  \/ OpenConnect(t, c)
         \/ /\ link'[c] = "none" <=> link[c] = "none"
            /\ link'[c] = "up" => link[c] = "up"
            /\ target'[c] = target[c]
<1>0. link \in [Conns -> {"none", "up", "closed", "lost"}] /\ target \in [Conns -> Serials]
  BY DEF TypeOK, ClientTypeOK
<1>9. link[c] = "none" => conn_id[t] # c
  BY DEF UnusedInv, Unused
<1>1. CASE Call(t)
  BY <1>0, <1>1 DEF Call, CallOpen, CallWrite, CallRead, CallClose, CallOn, netVars
<1>2. CASE OpenReset(t) \/ OpenSend(t) \/ \E d \in Conns : OpenConnect(t, d)
  BY <1>0, <1>2 DEF OpenReset, OpenSend, OpenConnect, netVars
<1>3. CASE OpenConnectFails(t) \/ OpenSucceeds(t) \/ OpenFails(t)
  BY <1>0, <1>3, <1>9 DEF OpenConnectFails, OpenSucceeds, OpenFails, FinishOpen, Disconnect, netVars
<1>4. CASE WriteFind(t) \/ WriteSend(t) \/ ReadFind(t) \/ ReadLock(t)
  BY <1>0, <1>4 DEF WriteFind, WriteSend, ReadFind, ReadLock, netVars
<1>5. CASE \E k \in 0 .. Len(buffer[conn_id[t]]) : ReadCopy(t, k)
  BY <1>0, <1>5 DEF ReadCopy, ReadBytes, netVars
<1>6. CASE ReadFreed(t) \/ CloseErased(t)
  BY <1>0, <1>6 DEF ReadFreed, CloseErased, Die, netVars
<1>7. CASE CloseFind(t) \/ CloseReturn(t) \/ CloseRequest(t)
  BY <1>0, <1>7 DEF CloseFind, CloseReturn, CloseRequest, Die, netVars
<1>8. CASE CloseSend(t) \/ CloseDisconnect(t) \/ CloseErase(t) \/ OpenSendThrows(t)
  BY <1>0, <1>8, <1>9 DEF CloseSend, CloseDisconnect, CloseErase, OpenSendThrows, Disconnect, netVars
<1> QED
  BY <1>1, <1>2, <1>3, <1>4, <1>5, <1>6, <1>7, <1>8 DEF ThreadStep

(* A handle is returned by bindy_open and given to bindy_close; what the   *)
(* program has got to know so it knows for ever.                           *)
LEMMA ThreadHandles ==
  ASSUME NEW t \in Threads, Call(t) \/ ThreadStep(t), NEW c
  PROVE  \/ (c \in handles' <=> c \in handles) /\ (c \in known' <=> c \in known)
         \/ OpenSucceeds(t) /\ c = conn_id[t] /\ c \in handles'
         \/ CallClose(t, c) /\ c \notin handles' /\ c \in Conns /\ c \in known
<1>1. CASE Call(t)
  BY <1>1 DEF Call, CallOpen, CallWrite, CallRead, CallClose, CallOn
<1>2. CASE OpenReset(t) \/ OpenSend(t) \/ \E d \in Conns : OpenConnect(t, d)
  BY <1>2 DEF OpenReset, OpenSend, OpenConnect
<1>3. CASE OpenConnectFails(t) \/ OpenSendThrows(t) \/ OpenSucceeds(t) \/ OpenFails(t)
  BY <1>3 DEF OpenConnectFails, OpenSendThrows, OpenSucceeds, OpenFails, NewHandle, FinishOpen
<1>4. CASE WriteFind(t) \/ WriteSend(t) \/ ReadFind(t) \/ ReadLock(t)
  BY <1>4 DEF WriteFind, WriteSend, ReadFind, ReadLock
<1>5. CASE \E k \in 0 .. Len(buffer[conn_id[t]]) : ReadCopy(t, k)
  BY <1>5 DEF ReadCopy, ReadBytes
<1>6. CASE ReadFreed(t) \/ CloseErased(t)
  BY <1>6 DEF ReadFreed, CloseErased, Die
<1>7. CASE CloseFind(t) \/ CloseReturn(t) \/ CloseRequest(t)
  BY <1>7 DEF CloseFind, CloseReturn, CloseRequest, Die
<1>8. CASE CloseSend(t) \/ CloseDisconnect(t) \/ CloseErase(t)
  BY <1>8 DEF CloseSend, CloseDisconnect, CloseErase
<1> QED
  BY <1>1, <1>2, <1>3, <1>4, <1>5, <1>6, <1>7, <1>8 DEF ThreadStep

(* A call gets its connection from the program, which has got a handle of  *)
(* it once, or makes it; and it keeps it to its end.                                *)
LEMMA ThreadConn ==
  ASSUME TypeOK, NEW t \in Threads, Call(t) \/ ThreadStep(t)
  PROVE  \/ conn_id'[t] = conn_id[t]
         \/ conn_id'[t] = NoConn /\ pc'[t] = "idle"
         \/ \E c \in Conns : /\ conn_id'[t] = c
                             /\ OpenConnect(t, c) \/ CallOn(t, c, pc'[t])
<1> USE DEF Goto, Return
<1>0. pc \in [Threads -> Labels] /\ conn_id \in [Threads -> Conns \cup {NoConn}]
  BY DEF TypeOK, ClientTypeOK
<1>1. CASE Call(t)
  <2>1. ASSUME NEW c \in Conns, NEW label, CallOn(t, c, label)
        PROVE  conn_id'[t] = c /\ CallOn(t, c, pc'[t])
    BY <1>0, <2>1 DEF CallOn
  <2> QED
    BY <1>1, <2>1 DEF Call, CallOpen, CallWrite, CallRead, CallClose
<1>2. CASE OpenReset(t) \/ OpenSend(t) \/ \E d \in Conns : OpenConnect(t, d)
  BY <1>0, <1>2 DEF OpenReset, OpenSend, OpenConnect
<1>3. CASE OpenConnectFails(t) \/ OpenSendThrows(t) \/ OpenSucceeds(t) \/ OpenFails(t)
  BY <1>0, <1>3 DEF OpenConnectFails, OpenSendThrows, OpenSucceeds, OpenFails, FinishOpen
<1>4. CASE WriteFind(t) \/ WriteSend(t) \/ ReadFind(t) \/ ReadLock(t)
  BY <1>0, <1>4 DEF WriteFind, WriteSend, ReadFind, ReadLock
<1>5. CASE \E k \in 0 .. Len(buffer[conn_id[t]]) : ReadCopy(t, k)
  BY <1>0, <1>5 DEF ReadCopy, ReadBytes
<1>6. CASE ReadFreed(t) \/ CloseErased(t)
  BY <1>0, <1>6 DEF ReadFreed, CloseErased, Die, callVars
<1>7. CASE CloseFind(t) \/ CloseReturn(t) \/ CloseRequest(t)
  BY <1>0, <1>7 DEF CloseFind, CloseReturn, CloseRequest, Die, callVars
<1>8. CASE CloseSend(t) \/ CloseDisconnect(t) \/ CloseErase(t)
  BY <1>0, <1>8 DEF CloseSend, CloseDisconnect, CloseErase
<1> QED
  BY <1>1, <1>2, <1>3, <1>4, <1>5, <1>6, <1>7, <1>8 DEF ThreadStep

(* Only bindy_open enters a Device, for its own connection.                *)
LEMMA ThreadDevices ==
  ASSUME NEW t \in Threads, Call(t) \/ ThreadStep(t), NEW c \in device_by_conn' \ device_by_conn
  PROVE  OpenSucceeds(t) /\ c = conn_id[t]
<1>1. CASE Call(t)
  BY <1>1 DEF Call, CallOpen, CallWrite, CallRead, CallClose, CallOn, objVars
<1>2. CASE OpenReset(t) \/ OpenSend(t) \/ \E d \in Conns : OpenConnect(t, d)
  BY <1>2 DEF OpenReset, OpenSend, OpenConnect, objVars
<1>3. CASE OpenConnectFails(t) \/ OpenSendThrows(t) \/ OpenSucceeds(t) \/ OpenFails(t)
  BY <1>3 DEF OpenConnectFails, OpenSendThrows, OpenSucceeds, OpenFails, objVars
<1>4. CASE WriteFind(t) \/ WriteSend(t) \/ ReadFind(t) \/ ReadLock(t)
  BY <1>4 DEF WriteFind, WriteSend, ReadFind, ReadLock, objVars
<1>5. CASE \E k \in 0 .. Len(buffer[conn_id[t]]) : ReadCopy(t, k)
  BY <1>5 DEF ReadCopy, ReadBytes
<1>6. CASE ReadFreed(t) \/ CloseErased(t) \/ CloseRequest(t)
  BY <1>6 DEF ReadFreed, CloseErased, CloseRequest, Die, objVars
<1>7. CASE \/ CloseFind(t) \/ CloseReturn(t) \/ CloseSend(t) \/ CloseDisconnect(t)
           \/ CloseErase(t)
  BY <1>7 DEF CloseFind, CloseReturn, CloseSend, CloseDisconnect, CloseErase, DeleteDevice,
     objVars
<1> QED
  BY <1>1, <1>2, <1>3, <1>4, <1>5, <1>6, <1>7 DEF ThreadStep

(* How a call gets to where it is: to the wait of bindy_open by way of the *)
(* connection, and to bindy_close when the program calls it.               *)
LEMMA ThreadLabels ==
  ASSUME TypeOK, NEW t \in Threads, Call(t) \/ ThreadStep(t)
  PROVE  /\ pc'[t] \in Connecting => OpenSend(t) \/ \E c \in Conns : OpenConnect(t, c)
         /\ pc'[t] \in Closing =>
              \/ \E c \in Conns : CallClose(t, c) /\ conn_id'[t] = c
              \/ pc[t] \in Closing /\ conn_id'[t] = conn_id[t]
         /\ pc'[t] \in Asking =>
              /\ conn_id'[t] = conn_id[t]
              /\ \/ pc[t] = "close_find" /\ conn_id[t] \in device_by_conn
                 \/ pc[t] \in Asking
         /\ pc'[t] = "close_return" => /\ pc[t] = "close_find"
                                       /\ conn_id[t] \notin device_by_conn
<1> USE DEF Goto, Return, Connecting, Closing, Asking
<1>0. pc \in [Threads -> Labels] /\ conn_id \in [Threads -> Conns \cup {NoConn}]
  BY DEF TypeOK, ClientTypeOK
<1>1. CASE Call(t)
  BY <1>0, <1>1 DEF Call, CallOpen, CallWrite, CallRead, CallClose, CallOn
<1>2. CASE OpenReset(t) \/ OpenSend(t) \/ \E d \in Conns : OpenConnect(t, d)
  BY <1>0, <1>2 DEF OpenReset, OpenSend, OpenConnect
<1>3. CASE OpenConnectFails(t) \/ OpenSendThrows(t) \/ OpenSucceeds(t) \/ OpenFails(t)
  BY <1>0, <1>3 DEF OpenConnectFails, OpenSendThrows, OpenSucceeds, OpenFails, FinishOpen
<1>4. CASE WriteFind(t) \/ WriteSend(t) \/ ReadFind(t) \/ ReadLock(t)
  BY <1>0, <1>4 DEF WriteFind, WriteSend, ReadFind, ReadLock
<1>5. CASE \E k \in 0 .. Len(buffer[conn_id[t]]) : ReadCopy(t, k)
  BY <1>0, <1>5 DEF ReadCopy, ReadBytes
<1>6. CASE ReadFreed(t) \/ CloseErased(t)
  BY <1>0, <1>6 DEF ReadFreed, CloseErased, Die, callVars
<1>7. CASE CloseFind(t) \/ CloseReturn(t) \/ CloseRequest(t)
  BY <1>0, <1>7 DEF CloseFind, CloseReturn, CloseRequest, Die, callVars
<1>8. CASE CloseSend(t) \/ CloseDisconnect(t) \/ CloseErase(t)
  BY <1>0, <1>8 DEF CloseSend, CloseDisconnect, CloseErase
<1> QED
  BY <1>1, <1>2, <1>3, <1>4, <1>5, <1>6, <1>7, <1>8 DEF ThreadStep

(* A call sends the one packet of its kind, on a connection that is up.    *)
LEMMA ThreadSends ==
  ASSUME TypeOK, ConnInv, NEW t \in Threads, Call(t) \/ ThreadStep(t), NEW c \in Conns,
         toServer'[c] # toServer[c]
  PROVE  /\ c = conn_id[t] /\ link[c] = "up"
         /\ \E packet \in Requests :
              /\ toServer'[c] = Append(toServer[c], packet)
              /\ \/ OpenSend(t) /\ packet = "open"
                 \/ WriteSend(t) /\ packet = "raw"
                 \/ CloseSend(t) /\ packet = "close" /\ pc'[t] = "close_disconnect"
<1>0. /\ c = conn_id[t]
      /\ toServer \in [Conns -> Seq(Requests)] /\ pc \in [Threads -> Labels]
  BY ThreadKeepsToItsConn DEF TypeOK, ClientTypeOK
<1>1. CASE Call(t)
  BY <1>1 DEF Call, CallOpen, CallWrite, CallRead, CallClose, CallOn, netVars
<1>2. CASE OpenReset(t) \/ \E d \in Conns : OpenConnect(t, d)
  BY <1>2 DEF OpenReset, OpenConnect, netVars
<1>3. CASE OpenConnectFails(t) \/ OpenSendThrows(t) \/ OpenSucceeds(t) \/ OpenFails(t)
  BY <1>3 DEF OpenConnectFails, OpenSendThrows, OpenSucceeds, OpenFails, FinishOpen, netVars
<1>4. CASE WriteFind(t) \/ ReadFind(t) \/ ReadLock(t)
  BY <1>4 DEF WriteFind, ReadFind, ReadLock, netVars
<1>5. CASE \E k \in 0 .. Len(buffer[conn_id[t]]) : ReadCopy(t, k)
  BY <1>5 DEF ReadCopy, ReadBytes, netVars
<1>6. CASE ReadFreed(t) \/ CloseErased(t)
  BY <1>6 DEF ReadFreed, CloseErased, Die, netVars
<1>7. CASE CloseFind(t) \/ CloseReturn(t) \/ CloseRequest(t)
  BY <1>7 DEF CloseFind, CloseReturn, CloseRequest, Die, netVars
<1>8. CASE CloseDisconnect(t) \/ CloseErase(t)
  BY <1>8 DEF CloseDisconnect, CloseErase, netVars
<1>9. CASE OpenSend(t)
  BY <1>0, <1>9 DEF OpenSend, Transmit, Requests
<1>10. CASE WriteSend(t)
  BY <1>0, <1>10 DEF WriteSend, Transmit, Requests
<1>11. CASE CloseSend(t)
  BY <1>0, <1>11 DEF CloseSend, Transmit, Requests, Goto
<1> QED
  BY <1>1, <1>2, <1>3, <1>4, <1>5, <1>6, <1>7, <1>8, <1>9, <1>10, <1>11 DEF ThreadStep

(* A close is asked for by bindy_close only.                               *)
LEMMA ThreadCloseSent ==
  ASSUME TypeOK, ConnInv, NEW t \in Threads, Call(t) \/ ThreadStep(t), UNCHANGED serverVars,
         NEW c \in Conns, ~CloseSent(c), CloseSent(c)'
  PROVE  CloseSend(t) /\ c = conn_id[t] /\ pc'[t] = "close_disconnect"
<1>1. UNCHANGED <<callback, toClient, session>>
  BY ThreadMovesItself DEF serverVars
<1>2. Has(toServer'[c], "close") /\ ~Has(toServer[c], "close")
  BY <1>1 DEF CloseSent, Told
<1>3. toServer[c] \in Seq(Requests)
  BY DEF TypeOK, ClientTypeOK
<1>4. toServer'[c] # toServer[c]
  BY <1>2
<1>5. PICK packet \in Requests :
             /\ toServer'[c] = Append(toServer[c], packet)
             /\ \/ OpenSend(t) /\ packet = "open"
                \/ WriteSend(t) /\ packet = "raw"
                \/ CloseSend(t) /\ packet = "close" /\ pc'[t] = "close_disconnect"
  BY <1>4, ThreadSends
<1>6. packet = "close"
  BY <1>2, <1>3, <1>5, HasAppend
<1> QED
  BY <1>4, <1>5, <1>6, ThreadSends

(* A callback and the network leave the calls, the handles and what is on  *)
(* its way to the server alone.                                            *)
LEMMA CallbackFrame ==
  ASSUME NEW c \in Conns, CallbackStep(c) \/ LinkLost(c)
  PROVE  /\ UNCHANGED <<pc, conn_id, serial, progVars, target, toServer>>
         /\ device_by_conn' \subseteq device_by_conn
         /\ CallbackStep(c) => UNCHANGED link
BY DEF CallbackStep, Deliver, OpenDeviceAnswer, DeviceEnds, DeleteDevice, DataLost, DataFind,
   DataPut, LinkLost, callVars, objVars, netVars

(* ... and other connections than their own.                               *)
LEMMA CallbackKeepsToItsConn ==
  ASSUME TypeOK, NEW c \in Conns, CallbackStep(c) \/ LinkLost(c), NEW d \in Conns, d # c
  PROVE  /\ d \in device_by_conn' <=> d \in device_by_conn
         /\ callback'[d] = callback[d]
         /\ link'[d] = link[d]
         /\ toClient'[d] = toClient[d]
         /\ buffer'[d] = buffer[d] /\ taken'[d] = taken[d] /\ arrived'[d] = arrived[d]
<1>0. /\ callback \in [Conns -> [kind : Answers \cup {"idle", "put"}, byte : Nat]]
      /\ toClient \in [Conns -> Seq(Packets)]
      /\ buffer \in [Conns -> Seq(Nat)] /\ taken \in [Conns -> Nat] /\ arrived \in [Conns -> Nat]
      /\ link \in [Conns -> {"none", "up", "closed", "lost"}]
  BY DEF TypeOK, ClientTypeOK
<1>1. CASE Deliver(c) \/ OpenDeviceAnswer(c)
  BY <1>0, <1>1 DEF Deliver, OpenDeviceAnswer, CallbackDone, objVars, netVars
<1>2. CASE DeviceEnds(c)
  BY <1>0, <1>2 DEF DeviceEnds, DeleteDevice, CallbackDone, objVars, netVars
<1>3. CASE DataLost(c) \/ DataFind(c) \/ DataPut(c) \/ LinkLost(c)
  BY <1>0, <1>3 DEF DataLost, DataFind, DataPut, LinkLost, CallbackDone, objVars, netVars
<1> QED
  BY <1>1, <1>2, <1>3 DEF CallbackStep

(* A connection that has nothing to deliver and no callback is left alone. *)
LEMMA CallbackNeedsPacket ==
  ASSUME TypeOK, NEW c \in Conns, CallbackStep(c)
  PROVE  callback[c] # Idle \/ toClient[c] # <<>>
BY DEF CallbackStep, Deliver, OpenDeviceAnswer, DeviceEnds, DataLost, DataFind, DataPut,
   Idle, Answers

(* A callback is run for an answer that has arrived.                       *)
LEMMA CallbackTold ==
  ASSUME TypeOK, NEW c \in Conns, CallbackStep(c) \/ LinkLost(c),
         NEW d \in Conns, NEW answer \in Answers, Told(d, answer)'
  PROVE  Told(d, answer)
<1>0. /\ callback \in [Conns -> [kind : Answers \cup {"idle", "put"}, byte : Nat]]
      /\ toClient \in [Conns -> Seq(Packets)]
  BY DEF TypeOK, ClientTypeOK
<1>1. CASE Deliver(c)
  <2>1. CASE d # c
    BY <2>1, CallbackKeepsToItsConn DEF Told
  <2>2. CASE d = c
    <3>1. /\ toClient[c] # <<>> /\ toClient[c] \in Seq(Packets)
          /\ toClient'[c] = Tail(toClient[c]) /\ callback'[c] = Head(toClient[c])
      BY <1>0, <1>1 DEF Deliver
    <3> QED
      BY <2>2, <3>1, TellsTail DEF Told
  <2> QED
    BY <2>1, <2>2
<1>2. CASE callback'[d].kind \in {callback[d].kind, "idle", "put"} /\ toClient' = toClient
  BY <1>2 DEF Told, Answers
<1>3. CASE OpenDeviceAnswer(c) \/ DeviceEnds(c)
  BY <1>0, <1>2, <1>3, CallbackPackets DEF OpenDeviceAnswer, DeviceEnds, CallbackDone, netVars
<1>4. CASE DataLost(c) \/ DataFind(c) \/ DataPut(c) \/ LinkLost(c)
  BY <1>0, <1>2, <1>4, CallbackPackets DEF DataLost, DataFind, DataPut, LinkLost, CallbackDone, netVars
<1> QED
  BY <1>1, <1>3, <1>4 DEF CallbackStep

(* What the server does leaves everything of the client alone but what is  *)
(* on its way, to the server and to the client.                            *)
LEMMA ServerFrame ==
  ASSUME NEW c \in Conns, ServerStep(c)
  PROVE  /\ ClientUnchanged
         /\ UNCHANGED <<pc, conn_id, serial, callback, progVars, open_ok, global_mutex,
                        device_by_conn, mutex, buffer, arrived, taken, link, target>>
BY DEF ServerStep, Serve, Accept, Grant, AnswerOpen, Refuse, ReceiveRaw, AnswerClose,
   RemoveDevice, WriteFails, ReadDevice, PeerGone, Forget, ClientUnchanged, callVars, objVars

(* It sends at most one answer, to the peer it serves, while the           *)
(* connection is up.                                                       *)
LEMMA ServerAnswers ==
  ASSUME TypeOK, NEW c \in Conns, ServerStep(c), NEW d \in Conns, toClient'[d] # toClient[d]
  PROVE  /\ d = c /\ link[c] = "up"
         /\ \E packet \in Packets :
              /\ toClient'[c] = Append(toClient[c], packet)
              /\ \/ AnswerOpen(c) /\ packet.kind = "granted"
                 \/ Refuse(c) /\ packet.kind = "refused"
                 \/ AnswerClose(c) /\ packet.kind = "closed"
                 \/ WriteFails(c) /\ packet.kind = "failed"
                 \/ /\ ReadDevice(c) /\ dropped' = dropped
                    /\ packet = [kind |-> "data", byte |-> given[c] + 1]
<1>0. /\ toClient \in [Conns -> Seq(Packets)]
      /\ given[c] + 1 \in Nat /\ 0 \in Nat
  BY SystemAssumption DEF TypeOK, ClientTypeOK, SystemAssumption
<1>1. CASE \/ Accept(c) \/ Grant(c) \/ ReceiveRaw(c) \/ RemoveDevice(c) \/ PeerGone(c)
           \/ Forget(c)
  BY <1>1 DEF Accept, Grant, ReceiveRaw, RemoveDevice, PeerGone, Forget
<1>2. ASSUME NEW answer \in Answers, NEW byte \in Nat, Send(c, answer, byte)
      PROVE  /\ d = c /\ link[c] = "up"
             /\ [kind |-> answer, byte |-> byte] \in Packets
             /\ toClient'[c] = Append(toClient[c], [kind |-> answer, byte |-> byte])
  BY <1>0, <1>2 DEF Send, Packets
<1>3. CASE AnswerOpen(c)
  <2>1. Send(c, "granted", 0)
    BY <1>3 DEF AnswerOpen, Reply
  <2> QED
    BY <1>0, <1>2, <1>3, <2>1 DEF Answers
<1>4. CASE Refuse(c)
  <2>1. Send(c, "refused", 0)
    BY <1>4 DEF Refuse, Reply
  <2> QED
    BY <1>0, <1>2, <1>4, <2>1 DEF Answers
<1>5. CASE AnswerClose(c)
  <2>1. Send(c, "closed", 0)
    BY <1>5 DEF AnswerClose, Reply
  <2> QED
    BY <1>0, <1>2, <1>5, <2>1 DEF Answers
<1>6. CASE WriteFails(c)
  <2>1. Send(c, "failed", 0)
    BY <1>6 DEF WriteFails, Reply
  <2> QED
    BY <1>0, <1>2, <1>6, <2>1 DEF Answers
<1>7. CASE ReadDevice(c)
  <2>1. Send(c, "data", given[c] + 1) /\ dropped' = dropped
    BY <1>7 DEF ReadDevice
  <2> QED
    BY <1>0, <1>2, <1>7, <2>1 DEF Answers
<1> QED
  BY <1>1, <1>3, <1>4, <1>5, <1>6, <1>7 DEF ServerStep, Serve

(* It takes packets from the queue of that peer, and adds none.            *)
LEMMA ServerTakes ==
  ASSUME TypeOK, NEW c \in Conns, ServerStep(c), NEW d \in Conns, toServer'[d] # toServer[d]
  PROVE  /\ d = c /\ toServer[c] # <<>> /\ session[c] \in {"open", "granting"}
         /\ toServer'[c] = Tail(toServer[c]) \/ toServer'[c] = <<>>
<1>0. toServer \in [Conns -> Seq(Requests)]
  BY DEF TypeOK, ClientTypeOK
<1>1. CASE \/ Accept(c) \/ Grant(c) \/ RemoveDevice(c) \/ PeerGone(c) \/ WriteFails(c)
           \/ ReadDevice(c)
  BY <1>1 DEF Accept, Grant, RemoveDevice, PeerGone, WriteFails, ReadDevice
<1>2. CASE AnswerOpen(c) \/ Refuse(c) \/ AnswerClose(c) \/ ReceiveRaw(c)
  BY <1>0, <1>2 DEF AnswerOpen, Refuse, AnswerClose, ReceiveRaw, Serves, IsNext, Taken
<1>3. CASE Forget(c)
  BY <1>0, <1>3 DEF Forget
<1> QED
  BY <1>1, <1>2, <1>3 DEF ServerStep, Serve

(* So no request is new to the server because of what the server does.     *)
LEMMA ServerHas ==
  ASSUME TypeOK, NEW c \in Conns, ServerStep(c), NEW d \in Conns,
         NEW packet, Has(toServer'[d], packet)
  PROVE  Has(toServer[d], packet)
<1>1. toServer[d] \in Seq(Requests)
  BY DEF TypeOK, ClientTypeOK
<1>2. CASE toServer'[d] # toServer[d]
  BY <1>1, <1>2, ServerTakes, HasTail, HasNothing
<1> QED
  BY <1>2

(* An answer that the client is told of had been sent before, or is sent   *)
(* by this step.                                                           *)
LEMMA ServerTold ==
  ASSUME TypeOK, NEW c \in Conns, ServerStep(c),
         NEW d \in Conns, NEW answer \in Answers, Told(d, answer)', ~Told(d, answer)
  PROVE  /\ d = c
         /\ \/ AnswerOpen(c) /\ answer = "granted"
            \/ Refuse(c) /\ answer = "refused"
            \/ AnswerClose(c) /\ answer = "closed"
            \/ WriteFails(c) /\ answer = "failed"
            \/ ReadDevice(c) /\ answer = "data"
<1>1. toClient[d] \in Seq(Packets) /\ toClient[c] \in Seq(Packets)
  BY DEF TypeOK, ClientTypeOK
<1>2. toClient'[d] # toClient[d] /\ Tells(toClient'[d], answer) /\ ~Tells(toClient[d], answer)
  BY ServerFrame DEF Told
<1>3. d = c
  BY <1>2, ServerAnswers
<1>4. PICK new \in Packets :
             /\ toClient'[c] = Append(toClient[c], new)
             /\ \/ AnswerOpen(c) /\ new.kind = "granted"
                \/ Refuse(c) /\ new.kind = "refused"
                \/ AnswerClose(c) /\ new.kind = "closed"
                \/ WriteFails(c) /\ new.kind = "failed"
                \/ ReadDevice(c) /\ new.kind = "data"
  BY <1>2, ServerAnswers
<1>5. answer = new.kind
  BY <1>1, <1>2, <1>3, <1>4, TellsAppend
<1> QED
  BY <1>3, <1>4, <1>5

(* No callback and no loss of a connection makes it look as if a close     *)
(* had been asked for.                                                     *)
LEMMA CallbackCloseSent ==
  ASSUME TypeOK, NEW c \in Conns, CallbackStep(c) \/ LinkLost(c), UNCHANGED serverVars,
         NEW d \in Conns, CloseSent(d)'
  PROVE  CloseSent(d)
BY CallbackFrame, CallbackTold DEF CloseSent, serverVars, Answers

(* The close that the server is about to answer, the answer and the        *)
(* removal that follows it are one close that has been sent.               *)
LEMMA ServerCloseSent ==
  ASSUME TypeOK, NEW c \in Conns, ServerStep(c), NEW d \in Conns, CloseSent(d)'
  PROVE  CloseSent(d)
<1>0. session \in [Conns -> {"new", "open", "granting", "closing", "over"}] /\ toServer[c] \in Seq(Requests)
  BY DEF TypeOK, ClientTypeOK
<1>1. Has(toServer'[d], "close") => Has(toServer[d], "close")
  BY ServerHas
<1>2. AnswerClose(c) => Has(toServer[c], "close")
  BY <1>0, HasTail DEF AnswerClose, Serves, IsNext
<1>3. Told(d, "closed")' => Told(d, "closed") \/ (d = c /\ AnswerClose(c))
  BY ServerTold DEF Answers
<1>4. session'[d] = "closing" => session[d] = "closing" \/ (d = c /\ AnswerClose(c))
  BY <1>0 DEF ServerStep, Serve, Accept, Grant, AnswerOpen, Refuse, ReceiveRaw, AnswerClose,
     RemoveDevice, WriteFails, ReadDevice, PeerGone, Forget, serverVars
<1> QED
  BY <1>1, <1>2, <1>3, <1>4 DEF CloseSent

(* An answer is due only if an open has been asked for.                    *)
LEMMA ThreadAnswerDue ==
  ASSUME TypeOK, ConnInv, NEW t \in Threads, Call(t) \/ ThreadStep(t),
         NEW c \in Conns, ~AnswerDue(c), AnswerDue(c)'
  PROVE  OpenSend(t) /\ c = conn_id[t]
<1>1. UNCHANGED <<callback, toClient>>
  BY ThreadMovesItself
<1>2. Has(toServer'[c], "open") /\ ~Has(toServer[c], "open")
  BY <1>1 DEF AnswerDue, Told
<1>3. toServer[c] \in Seq(Requests)
  BY DEF TypeOK, ClientTypeOK
<1>4. toServer'[c] # toServer[c]
  BY <1>2
<1>5. PICK packet \in Requests :
             /\ toServer'[c] = Append(toServer[c], packet)
             /\ \/ OpenSend(t) /\ packet = "open"
                \/ WriteSend(t) /\ packet = "raw"
                \/ CloseSend(t) /\ packet = "close" /\ pc'[t] = "close_disconnect"
  BY <1>4, ThreadSends
<1>6. packet = "open"
  BY <1>2, <1>3, <1>5, HasAppend
<1> QED
  BY <1>4, <1>5, <1>6, ThreadSends

(* A callback brings no new answer, ...                                    *)
LEMMA CallbackAnswerDue ==
  ASSUME TypeOK, NEW c \in Conns, CallbackStep(c) \/ LinkLost(c), NEW d \in Conns, AnswerDue(d)'
  PROVE  AnswerDue(d)
BY CallbackFrame, CallbackTold DEF AnswerDue, Answers

(* ... and the server answers an open that it has been sent.               *)
LEMMA ServerAnswerDue ==
  ASSUME TypeOK, NEW c \in Conns, ServerStep(c), NEW d \in Conns, AnswerDue(d)'
  PROVE  AnswerDue(d)
<1>1. Has(toServer'[d], "open") => Has(toServer[d], "open")
  BY ServerHas
<1>2. toServer[c] \in Seq(Requests)
  BY DEF TypeOK, ClientTypeOK
<1>3. AnswerOpen(c) \/ Refuse(c) => Has(toServer[c], "open")
  BY <1>2, HasTail DEF AnswerOpen, Refuse, Serves, IsNext
<1> QED
  BY <1>1, <1>3, ServerTold DEF AnswerDue, Answers

-----------------------------------------------------------------------------
(* Each part of the invariant, step by step. *)

(* Threads, connections and nobody are told apart as holders of a mutex.   *)
LEMMA Holders ==
  /\ \A t \in Threads : t # NoOne /\ t \notin Conns
  /\ \A c \in Conns : c # NoOne /\ c \notin Threads /\ c # NoConn
BY ClientAssumption DEF ClientAssumption

(* A call lets go of global_mutex between two steps only to take the mutex *)
(* of the Device that it reads.                                            *)
LEMMA ThreadGlobal ==
  ASSUME TypeOK, GlobalMutexInside, NEW t \in Threads, Call(t) \/ ThreadStep(t)
  PROVE  GlobalMutexInside'
<1>0. /\ pc \in [Threads -> Labels] /\ conn_id \in [Threads -> Conns \cup {NoConn}]
      /\ global_mutex = t <=> pc[t] = "read_lock"
      /\ pc[t] = "read_lock" => conn_id[t] \in device_by_conn
  BY DEF TypeOK, ClientTypeOK, GlobalMutexInside
<1>1. /\ \A u \in Threads \ {t} : pc'[u] = pc[u] /\ conn_id'[u] = conn_id[u]
      /\ UNCHANGED callback
  BY ThreadMovesItself
<1>2. SUFFICES /\ \/ /\ global_mutex' = global_mutex
                     /\ pc'[t] = "read_lock" <=> pc[t] = "read_lock"
                  \/ global_mutex \in {NoOne, t} /\ global_mutex' = NoOne /\ pc'[t] # "read_lock"
                  \/ global_mutex = NoOne /\ global_mutex' = t /\ pc'[t] = "read_lock"
               /\ global_mutex # NoOne => device_by_conn \subseteq device_by_conn'
               /\ pc'[t] = "read_lock" => conn_id'[t] \in device_by_conn'
  <2>5. \A x \in (Threads \cup Conns) \ {t} : global_mutex' = x <=> global_mutex = x
    BY <1>0, <1>2, Holders
  <2>6. global_mutex' = t <=> pc'[t] = "read_lock"
    BY <1>0, <1>2, Holders
  <2>1. ASSUME NEW u \in Threads
        PROVE  global_mutex' = u <=> pc'[u] = "read_lock"
    <3>1. CASE u = t
      BY <2>6, <3>1
    <3>2. CASE u # t
      BY <1>1, <2>5, <3>2 DEF GlobalMutexInside
    <3> QED
      BY <3>1, <3>2
  <2>2. ASSUME NEW c \in Conns
        PROVE  global_mutex' = c <=> callback'[c].kind = "put"
    BY <1>1, <2>5, Holders DEF GlobalMutexInside
  <2>3. \A u \in Threads : pc'[u] = "read_lock" => conn_id'[u] \in device_by_conn'
    BY <1>1, <1>2, Holders DEF GlobalMutexInside
  <2>4. \A c \in Conns : callback'[c].kind = "put" => c \in device_by_conn'
    BY <1>1, <1>2, Holders DEF GlobalMutexInside
  <2> QED
    BY <2>1, <2>2, <2>3, <2>4 DEF GlobalMutexInside
<1> USE <1>0, Holders DEF Goto, Return
<1>3. CASE Call(t)
  BY <1>3 DEF Call, CallOpen, CallWrite, CallRead, CallClose, CallOn, objVars
<1>4. CASE OpenReset(t) \/ OpenSend(t) \/ \E c \in Conns : OpenConnect(t, c)
  BY <1>4 DEF OpenReset, OpenSend, OpenConnect, objVars
<1>5. CASE OpenConnectFails(t) \/ OpenSendThrows(t) \/ OpenSucceeds(t) \/ OpenFails(t)
  BY <1>5 DEF OpenConnectFails, OpenSendThrows, OpenSucceeds, OpenFails, FinishOpen, objVars
<1>6. CASE WriteFind(t) \/ WriteSend(t) \/ ReadFind(t) \/ ReadLock(t)
  BY <1>6 DEF WriteFind, WriteSend, ReadFind, ReadLock, objVars
<1>7. CASE \E k \in 0 .. Len(buffer[conn_id[t]]) : ReadCopy(t, k)
  BY <1>7 DEF ReadCopy, ReadBytes
<1>8. CASE ReadFreed(t) \/ CloseErased(t)
  BY <1>8 DEF ReadFreed, CloseErased, Die, callVars, objVars
<1>9. CASE CloseFind(t) \/ CloseReturn(t) \/ CloseRequest(t)
  BY <1>9 DEF CloseFind, CloseReturn, CloseRequest, Die, callVars, objVars
<1>10. CASE CloseSend(t) \/ CloseDisconnect(t) \/ CloseErase(t)
  BY <1>10 DEF CloseSend, CloseDisconnect, CloseErase, DeleteDevice, objVars
<1> QED
  BY <1>3, <1>4, <1>5, <1>6, <1>7, <1>8, <1>9, <1>10 DEF ThreadStep

(* A callback lets go of it only to take the mutex of its Device.          *)
LEMMA CallbackGlobal ==
  ASSUME TypeOK, GlobalMutexInside, NEW c \in Conns, CallbackStep(c) \/ LinkLost(c)
  PROVE  GlobalMutexInside'
<1>0. /\ callback \in [Conns -> [kind : Answers \cup {"idle", "put"}, byte : Nat]]
      /\ toClient \in [Conns -> Seq(Packets)]
      /\ UNCHANGED <<pc, conn_id>>
      /\ global_mutex = c <=> callback[c].kind = "put"
      /\ callback[c].kind = "put" => c \in device_by_conn
  BY CallbackFrame DEF TypeOK, ClientTypeOK, GlobalMutexInside
<1>1. \A d \in Conns \ {c} : callback'[d] = callback[d]
  BY CallbackKeepsToItsConn
<1>2. SUFFICES /\ \/ /\ global_mutex' = global_mutex
                     /\ callback'[c].kind = "put" <=> callback[c].kind = "put"
                  \/ global_mutex = c /\ global_mutex' = NoOne /\ callback'[c].kind # "put"
                  \/ global_mutex = NoOne /\ global_mutex' = c /\ callback'[c].kind = "put"
               /\ global_mutex # NoOne => device_by_conn \subseteq device_by_conn'
               /\ callback'[c].kind = "put" => c \in device_by_conn'
  <2>5. \A x \in (Threads \cup Conns) \ {c} : global_mutex' = x <=> global_mutex = x
    BY <1>0, <1>2, Holders
  <2>6. global_mutex' = c <=> callback'[c].kind = "put"
    BY <1>0, <1>2, Holders
  <2>1. ASSUME NEW u \in Threads
        PROVE  global_mutex' = u <=> pc'[u] = "read_lock"
    BY <1>0, <2>5, Holders DEF GlobalMutexInside
  <2>2. ASSUME NEW d \in Conns
        PROVE  global_mutex' = d <=> callback'[d].kind = "put"
    <3>1. CASE d = c
      BY <2>6, <3>1
    <3>2. CASE d # c
      BY <1>1, <2>5, <3>2 DEF GlobalMutexInside
    <3> QED
      BY <3>1, <3>2
  <2>3. \A u \in Threads : pc'[u] = "read_lock" => conn_id'[u] \in device_by_conn'
    BY <1>0, <1>2, Holders DEF GlobalMutexInside
  <2>4. \A d \in Conns : callback'[d].kind = "put" => d \in device_by_conn'
    BY <1>1, <1>2, Holders DEF GlobalMutexInside
  <2> QED
    BY <2>1, <2>2, <2>3, <2>4 DEF GlobalMutexInside
<1> USE <1>0, Holders DEF CallbackDone
<1>3. CASE Deliver(c)
  <2>1. Head(toClient[c]).kind \in Answers
    BY <1>3, TellsTail, CallbackPackets DEF Deliver
  <2> QED
    BY <1>3, <2>1, CallbackPackets DEF Deliver, Answers, objVars
<1>4. CASE OpenDeviceAnswer(c) \/ DeviceEnds(c)
  BY <1>4, CallbackPackets DEF OpenDeviceAnswer, DeviceEnds, DeleteDevice, objVars
<1>5. CASE DataLost(c) \/ DataFind(c) \/ DataPut(c) \/ LinkLost(c)
  BY <1>5, CallbackPackets DEF DataLost, DataFind, DataPut, LinkLost, objVars
<1> QED
  BY <1>3, <1>4, <1>5 DEF CallbackStep

(* What is unused stays so until it is connected.                          *)
LEMMA ThreadUnused ==
  ASSUME TypeOK, UnusedInv, NEW t \in Threads, Call(t) \/ ThreadStep(t), UNCHANGED serverVars
  PROVE  UnusedInv'
<1> SUFFICES ASSUME NEW c \in Conns, link'[c] = "none" PROVE Unused(c)'
  BY DEF UnusedInv
<1>1. ~OpenConnect(t, c)
  BY DEF OpenConnect, TypeOK, ClientTypeOK
<1>2. link[c] = "none" /\ Unused(c)
  BY <1>1, ThreadLinks DEF UnusedInv
<1>3. c # conn_id[t] /\ c # conn_id'[t]
  BY <1>1, <1>2, ThreadConn, Holders DEF Unused, CallOn
<1>4. c \notin handles' /\ c \notin known'
  BY <1>2, <1>3, ThreadHandles DEF Unused
<1>5. /\ c \notin device_by_conn'
      /\ buffer'[c] = <<>> /\ taken'[c] = 0 /\ toServer'[c] = <<>>
  BY <1>2, <1>3, ThreadKeepsToItsConn DEF Unused
<1>6. /\ \A u \in Threads : conn_id'[u] # c
      /\ UNCHANGED <<callback, toClient>>
  BY <1>2, <1>3, ThreadMovesItself DEF Unused
<1> QED
  BY <1>2, <1>4, <1>5, <1>6 DEF Unused, serverVars

(* Nor does a callback or the network know it.                             *)
LEMMA CallbackUnused ==
  ASSUME TypeOK, UnusedInv, NEW c \in Conns, CallbackStep(c) \/ LinkLost(c),
         UNCHANGED serverVars
  PROVE  UnusedInv'
<1> SUFFICES ASSUME NEW d \in Conns, link'[d] = "none" PROVE Unused(d)'
  BY DEF UnusedInv
<1>1. link[d] = "none"
  <2>1. CASE d # c
    BY <2>1, CallbackKeepsToItsConn
  <2>2. CASE LinkLost(c) /\ d = c
    BY <2>2 DEF LinkLost, TypeOK, ClientTypeOK
  <2> QED
    BY <2>1, <2>2, CallbackFrame
<1>2. Unused(d)
  BY <1>1 DEF UnusedInv
<1>3. d # c
  BY <1>1, <1>2, CallbackNeedsPacket DEF Unused, LinkLost
<1> QED
  BY <1>2, <1>3, CallbackKeepsToItsConn, CallbackFrame DEF Unused, serverVars

(* Nor does the server, which accepts a connection that is there.          *)
LEMMA ServerUnused ==
  ASSUME TypeOK, UnusedInv, NEW c \in Conns, ServerStep(c)
  PROVE  UnusedInv'
<1> SUFFICES ASSUME NEW d \in Conns, link'[d] = "none" PROVE Unused(d)'
  BY DEF UnusedInv
<1>1. Unused(d)
  BY ServerFrame DEF UnusedInv
<1>2. d # c
  <2>1. owner[target[c]] = c => ~Unused(c)
    BY DEF Unused, TypeOK, ClientTypeOK
  <2>2. Accept(c) => link[c] # "none"
    BY DEF Accept
  <2> QED
    BY <1>1, <2>1, <2>2, ServerFrame DEF ServerStep, Serve, Grant, AnswerOpen, Refuse,
       ReceiveRaw, AnswerClose, RemoveDevice, WriteFails, ReadDevice, PeerGone, Forget, Serves,
       IsNext, Owns, Unused
<1>3. \A s \in Serials : owner'[s] # d
  BY <1>1, <1>2, Holders DEF ServerStep, Serve, Accept, Grant, AnswerOpen, Refuse, ReceiveRaw, AnswerClose,
     RemoveDevice, WriteFails, ReadDevice, PeerGone, Forget, GiveBack, Unused, TypeOK, serverVars
<1>4. session'[d] = session[d]
  BY <1>2 DEF ServerStep, Serve, Accept, Grant, AnswerOpen, Refuse, ReceiveRaw, AnswerClose,
     RemoveDevice, WriteFails, ReadDevice, PeerGone, Forget, TypeOK, serverVars
<1>5. toServer'[d] = toServer[d] /\ toClient'[d] = toClient[d]
  BY <1>2, ServerTakes, ServerAnswers
<1> QED
  BY <1>1, <1>3, <1>4, <1>5, ServerFrame DEF Unused

(* bindy_open stays alone with its connection: it starts with one that     *)
(* nobody knows, and no other call can have got hold of it.                *)
LEMMA ThreadConnecting ==
  ASSUME TypeOK, ConnInv, UnusedInv, CallInv,
         NEW t \in Threads, Call(t) \/ ThreadStep(t), UNCHANGED serverVars,
         NEW u \in Threads, pc'[u] \in Connecting
  PROVE  ConnectingOK(u)'
<1>c. PICK c : c = conn_id'[u]
  OBVIOUS
<1> USE <1>c DEF Connecting
<1>1. CASE u # t
  <2>1. pc'[u] = pc[u] /\ conn_id'[u] = conn_id[u] /\ serial'[u] = serial[u]
    BY <1>1, ThreadMovesItself
  <2>2. ConnectingOK(u) /\ c = conn_id[u] /\ c \in Conns
    BY <2>1, CallHasConn DEF CallInv, Unconnected
  <2>3. c # conn_id[t]
    BY <1>1, <2>2 DEF ConnectingOK
  <2>4. ~OpenConnect(t, c)
    BY <2>2 DEF OpenConnect, UnusedInv, Unused
  <2>5. c \notin handles' /\ c \notin known'
    BY <2>2, <2>3, ThreadHandles DEF ConnectingOK
  <2>6. c \notin device_by_conn' /\ buffer'[c] = <<>> /\ taken'[c] = 0
    BY <2>2, <2>3, ThreadKeepsToItsConn DEF ConnectingOK
  <2>7. target'[c] = serial'[u]
    BY <2>1, <2>2, <2>4, ThreadLinks DEF ConnectingOK
  <2>8. ~CloseSent(c)'
    BY <2>2, <2>3, ThreadCloseSent DEF ConnectingOK
  <2>9. \A v \in Threads : conn_id'[v] = c => v = u
    <3>1. conn_id'[t] # c
      BY <2>2, <2>3, <2>4, ThreadConn, Holders DEF CallOn, ConnectingOK
    <3> QED
      BY <2>2, <3>1, ThreadMovesItself DEF ConnectingOK
  <2>10. pc'[u] = "open_send" => toServer'[c] = <<>> /\ ~AnswerDue(c)'
    BY <2>1, <2>2, <2>3, ThreadKeepsToItsConn, ThreadAnswerDue DEF ConnectingOK
  <2> QED
    BY <2>5, <2>6, <2>7, <2>8, <2>9, <2>10 DEF ConnectingOK
<1>2. CASE u = t
  <2>0. pc \in [Threads -> Labels] /\ conn_id \in [Threads -> Conns \cup {NoConn}]
    BY DEF TypeOK, ClientTypeOK
  <2>1. OpenSend(t) \/ \E d \in Conns : OpenConnect(t, d)
    BY <1>2, ThreadLabels
  <2>2. CASE OpenSend(t)
    <3>1. ConnectingOK(t) /\ conn_id[t] \in Conns
      BY <2>2, CallHasConn DEF OpenSend, CallInv, Unconnected
    <3>2. /\ UNCHANGED <<conn_id, serial, handles, known, device_by_conn, buffer, taken, target>>
          /\ pc'[t] = "open_finish"
      BY <2>0, <2>2 DEF OpenSend, Goto, objVars
    <3>3. ~CloseSent(conn_id[t])'
      BY <2>2, <3>1, ThreadCloseSent DEF ConnectingOK, OpenSend, CloseSend
    <3> QED
      BY <1>2, <3>1, <3>2, <3>3 DEF ConnectingOK
  <2>3. ASSUME NEW d \in Conns, OpenConnect(t, d) PROVE ConnectingOK(t)'
    <3>1. Unused(d)
      BY <2>3 DEF OpenConnect, UnusedInv
    <3>2. /\ conn_id' = [conn_id EXCEPT ![t] = d] /\ target' = [target EXCEPT ![d] = serial[t]]
          /\ UNCHANGED <<serial, callback, handles, known, device_by_conn, buffer, taken, toServer,
                         toClient, session>>
      BY <2>3 DEF OpenConnect, objVars, serverVars
    <3>3. target'[d] = serial[t]
      BY <3>2 DEF TypeOK, ClientTypeOK
    <3>4. ~CloseSent(d)' /\ ~AnswerDue(d)'
      BY <3>1, <3>2, HasNothing, CallbackPackets DEF Unused, CloseSent, AnswerDue, Told
    <3> QED
      BY <2>0, <3>1, <3>2, <3>3, <3>4 DEF Unused, ConnectingOK
  <2> QED
    BY <1>2, <2>1, <2>2, <2>3
<1> QED
  BY <1>1, <1>2

(* What was given to bindy_close does not come back as a handle, and gets  *)
(* no Device: bindy_open returns connections that are new.                 *)
LEMMA ThreadClosing ==
  ASSUME TypeOK, ConnInv, CallInv,
         NEW t \in Threads, Call(t) \/ ThreadStep(t),
         NEW u \in Threads, pc'[u] \in Closing
  PROVE  ClosingOK(u)'
<1>c. PICK c : c = conn_id'[u]
  OBVIOUS
<1> USE <1>c DEF Closing
<1>0. pc \in [Threads -> Labels] /\ conn_id \in [Threads -> Conns \cup {NoConn}]
  BY DEF TypeOK, ClientTypeOK
<1>1. ASSUME pc[u] \in Closing, conn_id[u] = c,
             pc'[u] = "close_return" => c \notin device_by_conn
      PROVE  ClosingOK(u)'
  <2>1. ClosingOK(u)
    BY <1>1 DEF CallInv
  <2>2. ~(OpenSucceeds(t) /\ c = conn_id[t])
    BY <1>1 DEF OpenSucceeds, FinishOpen, CallInv, Connecting, ConnectingOK
  <2>3. c \notin handles'
    BY <1>1, <2>1, <2>2, ThreadHandles DEF ClosingOK
  <2>4. c \in device_by_conn' => c \in device_by_conn
    BY <2>2, ThreadDevices
  <2> QED
    BY <1>1, <2>3, <2>4 DEF ClosingOK
<1>2. CASE u # t
  <2>1. pc'[u] = pc[u] /\ conn_id'[u] = conn_id[u]
    BY <1>2, ThreadMovesItself
  <2>2. ClosingOK(u)
    BY <2>1 DEF CallInv
  <2> QED
    BY <1>1, <2>1, <2>2 DEF ClosingOK
<1>3. ASSUME u = t, c \in Conns, CallClose(t, c)
      PROVE  ClosingOK(t)'
  <2>1. c \notin handles' /\ pc'[t] = "close_find"
    BY <1>0, <1>3 DEF CallClose, CallOn, Goto
  <2> QED
    BY <1>3, <2>1 DEF ClosingOK
<1>4. CASE u = t /\ pc[t] \in Closing /\ c = conn_id[t]
  <2>1. pc'[t] = "close_return" => c \notin device_by_conn
    BY <1>4, ThreadLabels
  <2> QED
    BY <1>1, <1>4, <2>1
<1> QED
  BY <1>2, <1>3, <1>4, ThreadLabels

(* A callback or the network takes nothing from the calls.                 *)
LEMMA CallbackCalls ==
  ASSUME TypeOK, ConnInv, CallInv, GlobalMutexInside,
         NEW c \in Conns, CallbackStep(c) \/ LinkLost(c), UNCHANGED serverVars
  PROVE  CallInv'
<1>1. \A d \in Conns : CloseSent(d)' => CloseSent(d)
  BY CallbackFrame, CallbackTold DEF CloseSent, serverVars, Answers
<1>2. /\ UNCHANGED <<pc, conn_id, serial, handles, known, target, toServer>>
      /\ device_by_conn' \subseteq device_by_conn
      /\ \A d \in Conns : AnswerDue(d)' => AnswerDue(d)
  BY CallbackFrame, CallbackAnswerDue
<1>3. ASSUME NEW t \in Threads, pc[t] \in Connecting
      PROVE  ConnectingOK(t)'
  <2>1. ConnectingOK(t) /\ conn_id[t] \in Conns
    BY <1>3, CallHasConn DEF CallInv, Connecting, Unconnected
  <2>2. buffer'[conn_id[t]] = <<>> /\ taken'[conn_id[t]] = 0
    <3>1. CASE conn_id[t] # c
      BY <2>1, <3>1, CallbackKeepsToItsConn DEF ConnectingOK
    <3>2. CASE conn_id[t] = c /\ c \notin device_by_conn
      <4>1. UNCHANGED <<buffer, taken>>
        BY <3>2 DEF GlobalMutexInside, CallbackStep, Deliver, OpenDeviceAnswer, DeviceEnds,
           DataLost, DataFind, DataPut, LinkLost, objVars
      <4> QED
        BY <2>1, <4>1 DEF ConnectingOK
    <3> QED
      BY <2>1, <3>1, <3>2 DEF ConnectingOK
  <2> QED
    BY <1>1, <1>2, <2>1, <2>2 DEF ConnectingOK
<1>4. ASSUME NEW t \in Threads, pc[t] \in Closing
      PROVE  ClosingOK(t)'
  <2>1. ClosingOK(t) /\ conn_id[t] \in Conns
    BY <1>4, CallHasConn DEF CallInv, Closing, Unconnected
  <2> QED
    BY <1>1, <1>2, <2>1 DEF ClosingOK
<1> QED
  BY <1>2, <1>3, <1>4 DEF CallInv

(* Nor does the server.                                                    *)
LEMMA ServerCalls ==
  ASSUME TypeOK, ConnInv, CallInv, NEW c \in Conns, ServerStep(c)
  PROVE  CallInv'
<1>1. \A d \in Conns : CloseSent(d)' => CloseSent(d)
  BY ServerCloseSent
<1>2. UNCHANGED <<pc, conn_id, serial, handles, known, target, device_by_conn, buffer, taken>>
  BY ServerFrame
<1>3. \A t \in Threads : pc[t] \in Connecting \cup Closing => conn_id[t] \in Conns
  BY CallHasConn DEF Connecting, Closing, Unconnected
<1>4. \A d \in Conns :
        /\ AnswerDue(d)' => AnswerDue(d)
        /\ toServer[d] = <<>> => toServer'[d] = <<>>
  BY ServerAnswerDue, ServerTakes
<1> QED
  BY <1>1, <1>2, <1>3, <1>4 DEF CallInv, ConnectingOK, ClosingOK

(* Where a handle is, no close has been sent: bindy_open returns a handle  *)
(* of a connection that is new, and bindy_close has the handle first.      *)
LEMMA ThreadHandleInv ==
  ASSUME TypeOK, ConnInv, CallInv, HandleInv,
         NEW t \in Threads, Call(t) \/ ThreadStep(t), UNCHANGED serverVars
  PROVE  HandleInv'
<1> SUFFICES ASSUME NEW c \in handles', CloseSent(c)' PROVE FALSE
  BY DEF HandleInv
<1>1. CASE OpenSucceeds(t) /\ c = conn_id[t]
  <2>1. ConnectingOK(t) /\ c \in Conns
    BY <1>1, CallHasConn DEF OpenSucceeds, FinishOpen, CallInv, Connecting, Unconnected
  <2> QED
    BY <1>1, <2>1, ThreadCloseSent DEF ConnectingOK, OpenSucceeds, FinishOpen, CloseSend
<1>2. CASE c \in handles
  <2>1. ~CloseSent(c) /\ c \in Conns
    BY <1>2 DEF HandleInv, TypeOK, ClientTypeOK
  <2>2. CloseSend(t) /\ c = conn_id[t]
    BY <2>1, ThreadCloseSent
  <2> QED
    BY <1>2, <2>2 DEF CloseSend, CallInv, ClosingOK, Closing
<1> QED
  BY <1>1, <1>2, ThreadHandles

(* A Device that bindy_close works on goes away before the call returns.   *)
LEMMA ThreadClosesDevice ==
  ASSUME TypeOK, ConnInv, CallInv, NEW t \in Threads, Call(t) \/ ThreadStep(t),
         pc[t] \in Closing, conn_id[t] \in device_by_conn'
  PROVE  /\ pc'[t] \in Closing /\ conn_id'[t] = conn_id[t]
         /\ pc[t] \in Asked => pc'[t] \in Asked
<1> USE DEF Closing, Asked, Goto
<1>0. /\ pc \in [Threads -> Labels] /\ conn_id \in [Threads -> Conns \cup {NoConn}]
      /\ conn_id[t] \in Conns
  BY CallHasConn DEF TypeOK, ClientTypeOK, Unconnected
<1>1. Die => pc' = pc /\ conn_id' = conn_id
  BY DEF Die, callVars
<1>2. ~Call(t)
  BY DEF Call, CallOpen, CallWrite, CallRead, CallClose, CallOn
<1>3. \/ CloseFind(t) \/ CloseReturn(t) \/ CloseRequest(t) \/ CloseSend(t)
      \/ CloseDisconnect(t) \/ CloseErase(t) \/ CloseErased(t)
  BY <1>2 DEF ThreadStep, OpenReset, OpenConnectFails, OpenSend, OpenSendThrows, OpenConnect,
     OpenSucceeds, OpenFails, FinishOpen, WriteFind, WriteSend, ReadFind, ReadLock,
     ReadFreed, ReadCopy, ReadBytes
<1>4. CASE CloseReturn(t)
  BY <1>4 DEF CloseReturn, CallInv, ClosingOK, objVars
<1>5. CASE CloseErase(t)
  BY <1>5 DEF CloseErase, DeleteDevice
<1>6. CASE CloseErased(t)
  BY <1>0, <1>1, <1>6 DEF CloseErased, objVars
<1>7. CASE CloseFind(t) \/ CloseRequest(t)
  BY <1>0, <1>1, <1>7 DEF CloseFind, CloseRequest
<1>8. CASE CloseSend(t) \/ CloseDisconnect(t)
  BY <1>0, <1>8 DEF CloseSend, CloseDisconnect
<1> QED
  BY <1>3, <1>4, <1>5, <1>6, <1>7, <1>8

(* A Device has a handle or is being closed, and the server is asked to    *)
(* close by a call that deletes it next.                                   *)
LEMMA ThreadDeviceInv ==
  ASSUME TypeOK, ConnInv, CallInv, DeviceInv,
         NEW t \in Threads, Call(t) \/ ThreadStep(t), UNCHANGED serverVars
  PROVE  DeviceInv'
<1> SUFFICES ASSUME NEW c \in device_by_conn'
             PROVE  /\ c \notin handles' =>
                         \E u \in Threads : conn_id'[u] = c /\ pc'[u] \in Closing
                    /\ CloseSent(c)' =>
                         \E u \in Threads : conn_id'[u] = c /\ pc'[u] \in Asked
  BY DEF DeviceInv
<1>0. pc \in [Threads -> Labels] /\ conn_id \in [Threads -> Conns \cup {NoConn}]
  BY DEF TypeOK, ClientTypeOK
<1>1. CASE c \notin device_by_conn
  <2>1. OpenSucceeds(t) /\ c = conn_id[t] /\ pc[t] = "open_finish"
    BY <1>1, ThreadDevices DEF OpenSucceeds, FinishOpen
  <2>2. c \in Conns /\ ConnectingOK(t)
    BY <2>1, CallHasConn DEF CallInv, Connecting, Unconnected
  <2>3. ~CloseSent(c)'
    BY <2>1, <2>2, ThreadCloseSent DEF ConnectingOK, CloseSend
  <2> QED
    BY <2>1, <2>3 DEF OpenSucceeds, NewHandle
<1>2. CASE c \in device_by_conn
  <2>0. c \in Conns
    BY <1>2 DEF TypeOK, ClientTypeOK
  <2>1. ASSUME NEW u \in Threads, conn_id[u] = c, pc[u] \in Closing
        PROVE  /\ conn_id'[u] = c /\ pc'[u] \in Closing
               /\ pc[u] \in Asked => pc'[u] \in Asked
    BY <2>1, ThreadMovesItself, ThreadClosesDevice
  <2>2. c \notin handles' => \E u \in Threads : conn_id'[u] = c /\ pc'[u] \in Closing
    <3>1. CASE CallClose(t, c)
      BY <1>0, <3>1 DEF CallClose, CallOn, Goto, Closing
    <3>2. CASE c \notin handles
      BY <1>2, <2>1, <3>2 DEF DeviceInv
    <3> QED
      BY <3>1, <3>2, ThreadHandles
  <2>3. CloseSent(c)' => \E u \in Threads : conn_id'[u] = c /\ pc'[u] \in Asked
    <3>1. CASE CloseSent(c)
      <4>1. PICK u \in Threads : conn_id[u] = c /\ pc[u] \in Asked
        BY <1>2, <3>1 DEF DeviceInv
      <4> QED
        BY <2>1, <4>1 DEF Asked, Closing
    <3>2. CASE ~CloseSent(c) /\ CloseSent(c)'
      <4>1. CloseSend(t) /\ c = conn_id[t] /\ pc'[t] = "close_disconnect"
        BY <2>0, <3>2, ThreadCloseSent
      <4> QED
        BY <4>1 DEF CloseSend, Asked
    <3> QED
      BY <3>1, <3>2
  <2> QED
    BY <2>2, <2>3
<1> QED
  BY <1>1, <1>2

(* An error is reported only when the writer has failed.                   *)
LEMMA ServerFailureInv ==
  ASSUME TypeOK, FailureInv, NEW c \in Conns, ServerStep(c)
  PROVE  /\ FailureInv'
         /\ \A d \in Conns : Failed(d) => Failed(d)'
<1>0. output \in [Conns -> {"empty", "fed", "failed", "stopped"}]
  BY DEF TypeOK
<1>1. \A d \in Conns : Failed(d) => Failed(d)'
  <2>1. CASE UNCHANGED output
    BY <2>1 DEF Failed
  <2>2. CASE ReceiveRaw(c) \/ WriteFails(c) \/ ReadDevice(c)
    BY <1>0, <2>2 DEF ReceiveRaw, WriteFails, ReadDevice, Failed
  <2> QED
    BY <2>1, <2>2 DEF ServerStep, Serve, Accept, Grant, AnswerOpen, Refuse, AnswerClose,
       RemoveDevice, PeerGone, Forget, serverVars
<1>2. WriteFails(c) => Failed(c)'
  BY <1>0 DEF WriteFails, Failed
<1> QED
  BY <1>1, <1>2, ServerTold DEF FailureInv, Answers

(* Who has a controller has asked for that one.                            *)
LEMMA ThreadOwnerInv ==
  ASSUME TypeOK, UnusedInv, OwnerInv,
         NEW t \in Threads, Call(t) \/ ThreadStep(t), UNCHANGED serverVars
  PROVE  OwnerInv'
<1> SUFFICES ASSUME NEW s \in Serials, owner[s] \in Conns PROVE target'[owner[s]] = s
  BY DEF OwnerInv, serverVars
<1>1. ~OpenConnect(t, owner[s])
  BY DEF OpenConnect, UnusedInv, Unused
<1> QED
  BY <1>1, ThreadLinks DEF OwnerInv

(* And the server gives a controller to the connection that names it.      *)
LEMMA ServerOwnerInv ==
  ASSUME TypeOK, OwnerInv, NEW c \in Conns, ServerStep(c)
  PROVE  OwnerInv'
<1>0. owner \in [Serials -> Conns \cup {NoConn}] /\ target[c] \in Serials /\ NoConn \notin Conns
  BY Holders DEF TypeOK, ClientTypeOK
<1>1. UNCHANGED target
  BY ServerFrame
<1>2. CASE UNCHANGED owner
  BY <1>1, <1>2 DEF OwnerInv
<1>3. CASE owner' = [owner EXCEPT ![target[c]] = c]
  BY <1>0, <1>1, <1>3 DEF OwnerInv
<1>4. CASE owner' = [owner EXCEPT ![target[c]] = NoConn]
  BY <1>0, <1>1, <1>4 DEF OwnerInv
<1> QED
  BY <1>2, <1>3, <1>4 DEF ServerStep, Serve, Accept, Grant, AnswerOpen, Refuse, ReceiveRaw, AnswerClose,
     RemoveDevice, WriteFails, ReadDevice, PeerGone, Forget, GiveBack, serverVars

(* A handle loses its Device to bindy_close, which has the handle first,   *)
(* or to a callback: one that answers a close, which has not been sent, or *)
(* one that reports an error.                                              *)
LEMMA ThreadHandleMeansDevice ==
  ASSUME TypeOK, CallInv, HandleMeansDevice, ConnInv,
         NEW t \in Threads, Call(t) \/ ThreadStep(t), UNCHANGED serverVars
  PROVE  HandleMeansDevice'
<1> SUFFICES ASSUME NEW c \in handles' PROVE c \in device_by_conn' \/ Failed(c)
  BY DEF Failed, HandleMeansDevice, serverVars
<1>1. CASE OpenSucceeds(t) /\ c = conn_id[t]
  BY <1>1 DEF OpenSucceeds
<1>2. CASE c \in handles
  <2>1. CASE c = conn_id[t] /\ pc[t] \in Closing
    BY <1>2, <2>1 DEF CallInv, ClosingOK
  <2>2. CASE c # conn_id[t]
    BY <1>2, <2>2, ThreadKeepsToItsConn DEF HandleMeansDevice, TypeOK, ClientTypeOK
  <2>3. CASE pc[t] \notin Closing
    <3>1. device_by_conn \subseteq device_by_conn'
      BY <2>3 DEF Call, CallOpen, CallWrite, CallRead, CallClose, CallOn, ThreadStep, OpenReset,
         OpenConnectFails, OpenSend, OpenSendThrows, OpenConnect, OpenSucceeds, OpenFails,
         WriteFind, WriteSend, ReadFind, ReadLock, ReadFreed, ReadCopy, ReadBytes, CloseFind,
         CloseReturn, CloseRequest, CloseSend, CloseDisconnect, CloseErase, CloseErased,
         Die, objVars, Closing
    <3> QED
      BY <1>2, <3>1 DEF HandleMeansDevice
  <2> QED
    BY <2>1, <2>2, <2>3
<1> QED
  BY <1>1, <1>2, ThreadHandles

(* A callback deletes the Device of a handle only to report that the       *)
(* writer of the server has failed.                                        *)
LEMMA CallbackHandleMeansDevice ==
  ASSUME TypeOK, HandleInv, FailureInv, HandleMeansDevice,
         NEW c \in Conns, CallbackStep(c) \/ LinkLost(c), UNCHANGED serverVars
  PROVE  HandleMeansDevice'
<1> SUFFICES ASSUME NEW d \in handles, d \in device_by_conn, d \notin device_by_conn'
             PROVE  Failed(d)
  BY CallbackFrame DEF Failed, HandleMeansDevice, serverVars
<1>1. d = c /\ d \in Conns
  BY CallbackKeepsToItsConn DEF TypeOK, ClientTypeOK
<1>2. callback[c].kind \in {"closed", "failed"}
  BY <1>1 DEF CallbackStep, Deliver, OpenDeviceAnswer, DeviceEnds, DataLost, DataFind, DataPut,
     LinkLost, objVars
<1> QED
  BY <1>1, <1>2 DEF HandleInv, FailureInv, CloseSent, Told

(* A queue with "open" at most in its front has none behind it; it stays   *)
(* such a queue unless an "open" is put behind something.                  *)
LEMMA OpenFirstFacts ==
  ASSUME NEW q \in Seq(Requests), NEW packet \in Requests, OpenFirst(q)
  PROVE  /\ q = <<>> \/ packet # "open" => OpenFirst(Append(q, packet))
         /\ q # <<>> => ~Has(Tail(q), "open") /\ OpenFirst(Tail(q))
<1>1. /\ Len(Append(q, packet)) = Len(q) + 1 /\ Len(q) \in Nat
      /\ \A i \in 1 .. Len(q) : Append(q, packet)[i] = q[i]
      /\ Append(q, packet)[Len(q) + 1] = packet
      /\ q = <<>> => Len(q) = 0
  BY AppendProperties, LenProperties, EmptySeq
<1>2. q = <<>> \/ packet # "open" => OpenFirst(Append(q, packet))
  BY <1>1 DEF OpenFirst
<1>3. ASSUME q # <<>>
      PROVE  ~Has(Tail(q), "open")
  <2>1. /\ Len(Tail(q)) = Len(q) - 1
        /\ \A i \in 1 .. Len(Tail(q)) : Tail(q)[i] = q[i + 1]
    BY <1>3, HeadTailProperties
  <2>2. \A i \in 1 .. Len(Tail(q)) : i + 1 \in 1 .. Len(q) /\ i + 1 # 1
    BY <1>1, <2>1
  <2> QED
    BY <2>1, <2>2 DEF OpenFirst, Has
<1> QED
  BY <1>2, <1>3 DEF Has, OpenFirst

(* A queue with at most one answer to an open gets no second one if a      *)
(* packet is put behind it that is none, or when it has none; and what is  *)
(* behind such an answer is none.                                          *)
LEMMA SettledFacts ==
  ASSUME NEW q \in Seq(Packets), NEW new \in Packets, SettledOnce(q)
  PROVE  /\ new.kind \notin Settled \/ (\A answer \in Settled : ~Tells(q, answer))
            => SettledOnce(Append(q, new))
         /\ q # <<>> => SettledOnce(Tail(q))
         /\ q # <<>> /\ Head(q).kind \in Settled =>
              \A answer \in Settled : ~Tells(Tail(q), answer)
<1>1. /\ Len(Append(q, new)) = Len(q) + 1 /\ Len(q) \in Nat
      /\ \A i \in 1 .. Len(q) : Append(q, new)[i] = q[i]
      /\ Append(q, new)[Len(q) + 1] = new
  BY AppendProperties, LenProperties
<1>2. ASSUME new.kind \notin Settled \/ (\A answer \in Settled : ~Tells(q, answer))
      PROVE  SettledOnce(Append(q, new))
  <2> SUFFICES ASSUME NEW i \in 1 .. Len(q) + 1, NEW j \in 1 .. Len(q) + 1,
                      Append(q, new)[i].kind \in Settled, Append(q, new)[j].kind \in Settled
               PROVE  i = j
    BY <1>1 DEF SettledOnce
  <2>1. \A k \in 1 .. Len(q) + 1 : k \in 1 .. Len(q) \/ k = Len(q) + 1
    BY <1>1
  <2>2. CASE new.kind \notin Settled
    <3>1. i \in 1 .. Len(q) /\ j \in 1 .. Len(q)
      BY <1>1, <2>1, <2>2
    <3> QED
      BY <1>1, <3>1 DEF SettledOnce
  <2>3. CASE \A answer \in Settled : ~Tells(q, answer)
    <3>1. i \notin 1 .. Len(q) /\ j \notin 1 .. Len(q)
      BY <1>1, <2>3 DEF Tells
    <3> QED
      BY <2>1, <3>1
  <2> QED
    BY <1>2, <2>2, <2>3
<1>3. ASSUME q # <<>>
      PROVE  /\ SettledOnce(Tail(q))
             /\ Head(q).kind \in Settled => \A answer \in Settled : ~Tells(Tail(q), answer)
  <2>1. /\ Len(Tail(q)) = Len(q) - 1 /\ Head(q) = q[1] /\ 1 \in 1 .. Len(q)
        /\ \A i \in 1 .. Len(Tail(q)) : Tail(q)[i] = q[i + 1]
    BY <1>1, <1>3, HeadTailProperties, EmptySeq
  <2>2. \A i \in 1 .. Len(Tail(q)) : i \in Int /\ i + 1 \in 1 .. Len(q) /\ i + 1 # 1
    BY <1>1, <2>1
  <2>3. SettledOnce(Tail(q))
    BY <2>1, <2>2 DEF SettledOnce
  <2>4. Head(q).kind \in Settled => \A answer \in Settled : ~Tells(Tail(q), answer)
    BY <2>1, <2>2 DEF SettledOnce, Tells
  <2> QED
    BY <2>3, <2>4
<1> QED
  BY <1>2, <1>3

(* bindy_open asks with the first packet of a connection that is new.      *)
LEMMA ThreadAnswerInv ==
  ASSUME TypeOK, ConnInv, CallInv, AnswerInv, NEW t \in Threads, Call(t) \/ ThreadStep(t)
  PROVE  AnswerInv'
<1>1. UNCHANGED <<callback, toClient>>
  BY ThreadMovesItself
<1> SUFFICES ASSUME NEW c \in Conns
             PROVE  /\ OpenFirst(toServer'[c])
                    /\ Has(toServer'[c], "open") => \A answer \in Settled : ~Told(c, answer)
  BY <1>1 DEF AnswerInv, Told
<1>2. CASE toServer'[c] = toServer[c]
  BY <1>2 DEF AnswerInv
<1>3. CASE toServer'[c] # toServer[c]
  <2>1. PICK packet \in Requests :
               /\ c = conn_id[t] /\ toServer'[c] = Append(toServer[c], packet)
               /\ packet = "open" => OpenSend(t)
    BY <1>3, ThreadSends
  <2>2. toServer[c] \in Seq(Requests) /\ OpenFirst(toServer[c])
    BY DEF TypeOK, ClientTypeOK, AnswerInv
  <2>3. OpenSend(t) => toServer[c] = <<>> /\ ~AnswerDue(c)
    BY <2>1 DEF OpenSend, CallInv, Connecting, ConnectingOK
  <2>4. OpenFirst(toServer'[c])
    BY <2>1, <2>2, <2>3, OpenFirstFacts
  <2>5. Has(toServer'[c], "open") => Has(toServer[c], "open") \/ OpenSend(t)
    BY <2>1, <2>2, HasAppend
  <2> QED
    BY <2>3, <2>4, <2>5 DEF AnswerInv, AnswerDue, Settled
<1> QED
  BY <1>2, <1>3

(* A callback takes the answer out of the queue, and has it done.          *)
LEMMA CallbackAnswerInv ==
  ASSUME TypeOK, AnswerInv, NEW c \in Conns, CallbackStep(c) \/ LinkLost(c)
  PROVE  AnswerInv'
<1> SUFFICES ASSUME NEW d \in Conns
             PROVE  /\ SettledOnce(toClient'[d])
                    /\ \A answer \in Settled :
                         /\ Has(toServer[d], "open") => ~Told(d, answer)'
                         /\ callback'[d].kind \in Settled => ~Tells(toClient'[d], answer)
  BY CallbackFrame DEF AnswerInv
<1>0. /\ callback \in [Conns -> [kind : Answers \cup {"idle", "put"}, byte : Nat]]
      /\ toClient \in [Conns -> Seq(Packets)]
      /\ SettledOnce(toClient[d])
      /\ \A answer \in Settled :
           /\ Has(toServer[d], "open") => ~Told(d, answer)
           /\ callback[d].kind \in Settled => ~Tells(toClient[d], answer)
  BY DEF TypeOK, ClientTypeOK, AnswerInv
<1>1. \A answer \in Settled : Told(d, answer)' => Told(d, answer)
  BY CallbackTold DEF Settled, Answers
<1>2. CASE callback'[d].kind \in {callback[d].kind, "idle", "put"} /\ toClient'[d] = toClient[d]
  BY <1>0, <1>1, <1>2 DEF Settled
<1>3. CASE d # c
  BY <1>2, <1>3, CallbackKeepsToItsConn
<1>4. CASE d = c /\ Deliver(c)
  <2>1. /\ toClient[c] \in Seq(Packets) /\ toClient[c] # <<>>
        /\ toClient'[c] = Tail(toClient[c]) /\ callback'[c] = Head(toClient[c])
    BY <1>0, <1>4 DEF Deliver
  <2>2. PICK new \in Packets : new = Head(toClient[c])
    BY <2>1, TellsTail
  <2> QED
    BY <1>0, <1>1, <1>4, <2>1, <2>2, SettledFacts
<1>5. CASE d = c /\ (OpenDeviceAnswer(c) \/ DeviceEnds(c))
  BY <1>0, <1>2, <1>5, CallbackPackets DEF OpenDeviceAnswer, DeviceEnds, CallbackDone, netVars
<1>6. CASE d = c /\ (DataLost(c) \/ DataFind(c) \/ DataPut(c) \/ LinkLost(c))
  BY <1>0, <1>2, <1>6, CallbackPackets DEF DataLost, DataFind, DataPut, LinkLost, CallbackDone,
     netVars
<1> QED
  BY <1>3, <1>4, <1>5, <1>6 DEF CallbackStep

(* The server answers an open with the one answer there is to it.          *)
LEMMA ServerAnswerInv ==
  ASSUME TypeOK, AnswerInv, NEW c \in Conns, ServerStep(c)
  PROVE  AnswerInv'
<1> SUFFICES ASSUME NEW d \in Conns
             PROVE  /\ OpenFirst(toServer'[d])
                    /\ SettledOnce(toClient'[d])
                    /\ \A answer \in Settled :
                         /\ Has(toServer'[d], "open") => ~Told(d, answer)'
                         /\ callback[d].kind \in Settled => ~Tells(toClient'[d], answer)
  BY ServerFrame DEF AnswerInv
<1>0. /\ toServer \in [Conns -> Seq(Requests)] /\ toServer[d] \in Seq(Requests)
      /\ toClient[d] \in Seq(Packets)
      /\ OpenFirst(toServer[d]) /\ SettledOnce(toClient[d])
      /\ \A answer \in Settled :
           /\ Has(toServer[d], "open") => ~Told(d, answer)
           /\ callback[d].kind \in Settled => ~Tells(toClient[d], answer)
  BY DEF TypeOK, ClientTypeOK, AnswerInv
<1>1. OpenFirst(toServer'[d])
  <2>1. CASE toServer'[d] = toServer[d]
    BY <1>0, <2>1
  <2>2. CASE toServer'[d] = <<>>
    BY <2>2 DEF OpenFirst
  <2>3. CASE toServer[d] # <<>> /\ toServer'[d] = Tail(toServer[d])
    BY <1>0, <2>3, OpenFirstFacts DEF Requests
  <2> QED
    BY <2>1, <2>2, <2>3, ServerTakes
<1>2. ASSUME d = c, AnswerOpen(c) \/ Refuse(c)
      PROVE  /\ Has(toServer[c], "open") /\ ~Has(toServer'[c], "open")
             /\ \A answer \in Settled : ~Told(c, answer)
  <2>1. /\ toServer[c] # <<>> /\ Head(toServer[c]) = "open"
        /\ toServer'[c] = Tail(toServer[c])
    BY <1>0, <1>2 DEF AnswerOpen, Refuse, Serves, IsNext, Taken
  <2>2. Has(toServer[c], "open") /\ ~Has(toServer'[c], "open")
    BY <1>0, <1>2, <2>1, HasTail, OpenFirstFacts DEF Requests
  <2> QED
    BY <1>0, <1>2, <2>2
<1>3. ASSUME NEW answer \in Settled, Told(d, answer)', ~Told(d, answer)
      PROVE  d = c /\ (AnswerOpen(c) \/ Refuse(c))
  BY <1>3, ServerTold DEF Settled, Answers
<1>4. SettledOnce(toClient'[d])
  <2>1. CASE toClient'[d] = toClient[d]
    BY <1>0, <2>1
  <2>2. CASE toClient'[d] # toClient[d]
    <3>1. PICK new \in Packets :
                 /\ d = c /\ toClient'[d] = Append(toClient[d], new)
                 /\ new.kind \in Settled => AnswerOpen(c) \/ Refuse(c)
      BY <2>2, ServerAnswers DEF Settled
    <3>2. new.kind \in Settled => \A answer \in Settled : ~Tells(toClient[d], answer)
      BY <1>2, <3>1 DEF Told
    <3> QED
      BY <1>0, <3>1, <3>2, SettledFacts
  <2> QED
    BY <2>1, <2>2
<1>5. ASSUME NEW answer \in Settled, Has(toServer'[d], "open")
      PROVE  ~Told(d, answer)'
  BY <1>0, <1>2, <1>3, <1>5, ServerHas
<1>6. ASSUME NEW answer \in Settled, callback[d].kind \in Settled
      PROVE  ~Tells(toClient'[d], answer)
  <2>1. \E other \in Settled : Told(d, other)
    BY <1>6 DEF Told
  <2>2. ~(d = c /\ (AnswerOpen(c) \/ Refuse(c)))
    BY <1>2, <2>1
  <2>3. CASE toClient'[d] = toClient[d]
    BY <1>0, <1>6, <2>3
  <2>4. CASE toClient'[d] # toClient[d]
    <3>1. PICK new \in Packets :
                 /\ d = c /\ toClient'[d] = Append(toClient[d], new)
                 /\ new.kind \in Settled => AnswerOpen(c) \/ Refuse(c)
      BY <2>4, ServerAnswers DEF Settled
    <3> QED
      BY <1>0, <1>6, <2>2, <3>1, TellsAppend
  <2> QED
    BY <2>3, <2>4
<1> QED
  BY <1>1, <1>4, <1>5, <1>6

(* The numbers of a queue ascend also when they may go further, when it    *)
(* gets a packet with the next number or with none, and when its head is   *)
(* taken: then what is left comes after the head.                          *)
LEMMA NumberedFacts ==
  ASSUME NEW q \in Seq(Packets), NEW above \in Nat, NEW last \in Nat, Numbered(q, above, last),
         NEW new \in Packets
  PROVE  /\ Numbered(q, above, last + 1)
         /\ new.kind # "data" => Numbered(Append(q, new), above, last)
         /\ new.byte = last + 1 /\ above <= last => Numbered(Append(q, new), above, last + 1)
         /\ q # <<>> => Numbered(Tail(q), above, last)
         /\ q # <<>> /\ Head(q).kind = "data" =>
              /\ above < Head(q).byte /\ Head(q).byte <= last
              /\ Numbered(Tail(q), Head(q).byte, last)
<1>1. /\ Len(Append(q, new)) = Len(q) + 1 /\ Len(q) \in Nat
      /\ \A i \in 1 .. Len(q) : /\ Append(q, new)[i] = q[i]
                                /\ q[i].byte \in Nat
      /\ Append(q, new)[Len(q) + 1] = new
      /\ new.byte \in Nat
  BY AppendProperties, LenProperties, ElementOfSeq, CallbackPackets
<1>2. Numbered(q, above, last + 1)
  <2>1. ASSUME NEW i \in 1 .. Len(q), q[i].kind = "data"
        PROVE  above < q[i].byte /\ q[i].byte <= last + 1
    <3>1. above < q[i].byte /\ q[i].byte <= last /\ q[i].byte \in Nat
      BY <1>1, <2>1 DEF Numbered
    <3> QED
      BY <3>1
  <2> QED
    BY <2>1 DEF Numbered
<1>3. \A i \in 1 .. Len(q) + 1 : i \in 1 .. Len(q) \/ i = Len(q) + 1
  BY <1>1
<1>4. ASSUME new.kind # "data"
      PROVE  Numbered(Append(q, new), above, last)
  <2>1. \A i \in 1 .. Len(q) + 1 : Append(q, new)[i].kind = "data" => i \in 1 .. Len(q)
    BY <1>1, <1>3, <1>4
  <2> QED
    BY <1>1, <2>1 DEF Numbered
<1>5. ASSUME new.byte = last + 1, above <= last
      PROVE  Numbered(Append(q, new), above, last + 1)
  <2> DEFINE longer == Append(q, new)
  <2>1. ASSUME NEW i \in 1 .. Len(longer), longer[i].kind = "data"
        PROVE  above < longer[i].byte /\ longer[i].byte <= last + 1
    <3>1. CASE i \in 1 .. Len(q)
      BY <1>1, <2>1, <3>1 DEF Numbered
    <3>2. CASE i = Len(q) + 1
      BY <1>1, <1>5, <3>2
    <3> QED
      BY <1>1, <1>3, <3>1, <3>2
  <2>2. ASSUME NEW i \in 1 .. Len(longer), NEW j \in 1 .. Len(longer),
               longer[i].kind = "data", longer[j].kind = "data", i < j
        PROVE  longer[i].byte < longer[j].byte
    <3>1. i \in 1 .. Len(q)
      BY <1>1, <2>2
    <3>2. CASE j \in 1 .. Len(q)
      BY <1>1, <2>2, <3>1, <3>2 DEF Numbered
    <3>3. CASE j = Len(q) + 1
      <4>1. q[i].byte <= last /\ q[i].byte \in Nat /\ longer[i] = q[i] /\ longer[j] = new
        BY <1>1, <2>2, <3>1, <3>3 DEF Numbered
      <4> QED
        BY <1>5, <4>1
    <3> QED
      BY <1>1, <1>3, <3>2, <3>3
  <2> QED
    BY <2>1, <2>2 DEF Numbered
<1>6. ASSUME q # <<>>
      PROVE  /\ Numbered(Tail(q), above, last)
             /\ Head(q).kind = "data" =>
                  /\ above < Head(q).byte /\ Head(q).byte <= last
                  /\ Numbered(Tail(q), Head(q).byte, last)
  <2>1. /\ Len(Tail(q)) = Len(q) - 1 /\ Head(q) = q[1] /\ 1 \in 1 .. Len(q)
        /\ \A i \in 1 .. Len(Tail(q)) : Tail(q)[i] = q[i + 1]
    BY <1>1, <1>6, HeadTailProperties, EmptySeq
  <2>2. \A i \in 1 .. Len(Tail(q)) : i \in Int /\ i + 1 \in 1 .. Len(q) /\ 1 < i + 1
    BY <1>1, <2>1
  <2>3. Numbered(Tail(q), above, last)
    BY <2>1, <2>2 DEF Numbered
  <2>4. ASSUME Head(q).kind = "data"
        PROVE  /\ above < Head(q).byte /\ Head(q).byte <= last
               /\ Numbered(Tail(q), Head(q).byte, last)
    <3>1. above < Head(q).byte /\ Head(q).byte <= last
      BY <2>1, <2>4 DEF Numbered
    <3>2. \A i \in 1 .. Len(Tail(q)) : Tail(q)[i].kind = "data" => Head(q).byte < Tail(q)[i].byte
      BY <2>1, <2>2, <2>4 DEF Numbered
    <3> QED
      BY <2>3, <3>1, <3>2 DEF Numbered
  <2> QED
    BY <2>3, <2>4
<1>7. new.byte = last + 1 /\ above <= last => Numbered(Append(q, new), above, last + 1)
  BY <1>5
<1> HIDE DEF Numbered
<1> QED
  BY <1>2, <1>4, <1>6, <1>7

(* RawData is on its way when it is in the queue or its callback is at it. *)
Bytes(n) == [kind |-> "data", byte |-> n]

LEMMA OnItsWaySays ==
  ASSUME TypeOK, NEW c \in Conns, NEW n
  PROVE  /\ OnItsWay(c, n) <=>
              \/ Has(toClient[c], Bytes(n))
              \/ callback[c].kind \in {"data", "put"} /\ callback[c].byte = n
         /\ DOMAIN buffer[c] = 1 .. Len(buffer[c])
<1>1. /\ toClient[c] \in Seq(Packets) /\ buffer[c] \in Seq(Nat)
      /\ DOMAIN toClient[c] = 1 .. Len(toClient[c])
      /\ DOMAIN buffer[c] = 1 .. Len(buffer[c])
  BY DEF TypeOK, ClientTypeOK
<1> QED
  BY <1>1 DEF OnItsWay, Has, Bytes

(* It stays on its way until callback_data is done with it.                *)
LEMMA CallbackOnItsWay ==
  ASSUME TypeOK, TypeOK', NEW c \in Conns, CallbackStep(c) \/ LinkLost(c),
         NEW d \in Conns, NEW n, OnItsWay(d, n)
  PROVE  \/ OnItsWay(d, n)'
         \/ d = c /\ (DataLost(c) \/ DataPut(c)) /\ n = callback[c].byte
<1> DEFINE called == callback[d].kind \in {"data", "put"} /\ callback[d].byte = n
<1>0. /\ callback \in [Conns -> [kind : Answers \cup {"idle", "put"}, byte : Nat]]
      /\ toClient \in [Conns -> Seq(Packets)]
      /\ Has(toClient[d], Bytes(n)) \/ called
  BY OnItsWaySays DEF TypeOK, ClientTypeOK
<1> SUFFICES ASSUME ~(d = c /\ (DataLost(c) \/ DataPut(c)) /\ n = callback[c].byte)
             PROVE  Has(toClient'[d], Bytes(n)) \/ called'
  <2>1. toClient'[d] \in Seq(Packets)
    BY DEF TypeOK, ClientTypeOK
  <2>2. DOMAIN toClient'[d] = 1 .. Len(toClient'[d])
    BY <2>1
  <2> QED
    BY <2>2 DEF OnItsWay, Has, Bytes
<1>1. CASE d # c
  BY <1>0, <1>1, CallbackKeepsToItsConn
<1>2. CASE d = c /\ Deliver(c)
  <2>1. /\ toClient[c] \in Seq(Packets) /\ toClient[c] # <<>>
        /\ toClient'[c] = Tail(toClient[c]) /\ callback'[c] = Head(toClient[c])
        /\ ~called
    BY <1>0, <1>2, CallbackPackets DEF Deliver
  <2>2. Bytes(n) = Head(toClient[c]) \/ Has(Tail(toClient[c]), Bytes(n))
    BY <1>0, <1>2, <2>1, HasTail
  <2> QED
    BY <1>2, <2>1, <2>2 DEF Bytes
<1>3. CASE d = c /\ (OpenDeviceAnswer(c) \/ DeviceEnds(c))
  BY <1>0, <1>3 DEF OpenDeviceAnswer, DeviceEnds, netVars
<1>4. CASE d = c /\ (DataLost(c) \/ DataPut(c))
  BY <1>0, <1>4 DEF DataLost, DataPut, netVars
<1>5. CASE d = c /\ (DataFind(c) \/ LinkLost(c))
  BY <1>0, <1>5 DEF DataFind, LinkLost, netVars
<1> QED
  BY <1>1, <1>2, <1>3, <1>4, <1>5 DEF CallbackStep

(* bindy_read takes the first bytes of a buffer; otherwise a call leaves   *)
(* the buffers alone, or deletes one with its Device.                      *)
LEMMA ThreadBuffers ==
  ASSUME TypeOK, ConnInv, NEW t \in Threads, Call(t) \/ ThreadStep(t), NEW c \in Conns
  PROVE  \/ buffer'[c] = <<>> /\ taken'[c] = taken[c] /\ c \notin device_by_conn'
         \/ \E k \in 0 .. Len(buffer[c]) :
              /\ k = 0 => taken'[c] = taken[c]
              /\ k # 0 => taken'[c] = buffer[c][k]
              /\ Len(buffer'[c]) = Len(buffer[c]) - k
              /\ \A i \in 1 .. Len(buffer'[c]) : buffer'[c][i] = buffer[c][k + i]
<1>0. /\ buffer \in [Conns -> Seq(Nat)] /\ taken \in [Conns -> Nat]
      /\ buffer[c] \in Seq(Nat) /\ Len(buffer[c]) \in Nat
  BY LenProperties DEF TypeOK, ClientTypeOK
<1>1. CASE buffer'[c] = buffer[c] /\ taken'[c] = taken[c]
  <2>1. 0 \in 0 .. Len(buffer[c]) /\ \A i \in 1 .. Len(buffer[c]) : 0 + i = i
    BY <1>0
  <2> QED
    BY <1>0, <1>1, <2>1
<1>2. ASSUME NEW k \in 0 .. Len(buffer[c]), ReadCopy(t, k), c = conn_id[t]
      PROVE  /\ k = 0 => taken'[c] = taken[c]
             /\ k # 0 => taken'[c] = buffer[c][k]
             /\ Len(buffer'[c]) = Len(buffer[c]) - k
             /\ \A i \in 1 .. Len(buffer'[c]) : buffer'[c][i] = buffer[c][k + i]
  <2>1. /\ taken'[c] = IF k = 0 THEN taken[c] ELSE buffer[c][k]
        /\ buffer'[c] = SubSeq(buffer[c], k + 1, Len(buffer[c]))
    BY <1>0, <1>2 DEF ReadCopy, ReadBytes
  <2>2. PICK bytes \in Seq(Nat) : bytes = buffer[c]
    BY <1>0
  <2>3. k \in 0 .. Len(bytes) /\ Len(bytes) \in Nat
    BY <1>0, <2>2
  <2>4. /\ Len(SubSeq(bytes, k + 1, Len(bytes))) = Len(bytes) - k
        /\ \A i \in 1 .. Len(bytes) - k : SubSeq(bytes, k + 1, Len(bytes))[i] = bytes[k + i]
    BY <2>3, SubSeqProperties
  <2> QED
    BY <2>1, <2>2, <2>4
<1>3. CASE c = conn_id[t] /\ CloseErase(t)
  BY <1>0, <1>3 DEF CloseErase, DeleteDevice
<1>4. CASE c # conn_id[t]
  BY <1>1, <1>4, ThreadKeepsToItsConn
<1> QED
  BY <1>1, <1>2, <1>3, <1>4 DEF Call, CallOpen, CallWrite, CallRead, CallClose, CallOn,
     ThreadStep, OpenReset, OpenConnectFails, OpenSend, OpenSendThrows, OpenConnect,
     OpenSucceeds, OpenFails, FinishOpen, WriteFind, WriteSend, ReadFind, ReadLock, ReadFreed,
     CloseFind, CloseReturn, CloseRequest, CloseSend, CloseDisconnect, CloseErased, Die,
     objVars

(* So what is read has been in the buffer, and what is in a buffer was.    *)
LEMMA ThreadSentInOrder ==
  ASSUME TypeOK, TypeOK', ConnInv, SentInOrder, NEW t \in Threads, Call(t) \/ ThreadStep(t),
         UNCHANGED serverVars
  PROVE  SentInOrder'
<1>1. UNCHANGED <<callback, toClient, arrived, given, dropped>>
  BY ThreadMovesItself DEF serverVars
<1>2. ASSUME NEW c \in Conns
      PROVE  /\ \A i \in 1 .. Len(buffer'[c]) : buffer'[c][i] <= arrived[c]
             /\ taken'[c] <= arrived[c]
  <2>1. /\ taken[c] <= arrived[c] /\ Len(buffer[c]) \in Nat
        /\ \A i \in 1 .. Len(buffer[c]) : buffer[c][i] <= arrived[c]
    BY LenProperties DEF SentInOrder, TypeOK, ClientTypeOK
  <2>2. CASE buffer'[c] = <<>> /\ taken'[c] = taken[c]
    BY <2>1, <2>2
  <2>3. ASSUME NEW k \in 0 .. Len(buffer[c]),
               k = 0 => taken'[c] = taken[c],
               k # 0 => taken'[c] = buffer[c][k],
               Len(buffer'[c]) = Len(buffer[c]) - k,
               \A i \in 1 .. Len(buffer'[c]) : buffer'[c][i] = buffer[c][k + i]
        PROVE  /\ \A i \in 1 .. Len(buffer'[c]) : buffer'[c][i] <= arrived[c]
               /\ taken'[c] <= arrived[c]
    <3>1. \A i \in 1 .. Len(buffer'[c]) : k + i \in 1 .. Len(buffer[c])
      BY <2>1, <2>3
    <3>2. k # 0 => k \in 1 .. Len(buffer[c])
      BY <2>1
    <3> QED
      BY <2>1, <2>3, <3>1, <3>2
  <2> QED
    BY <2>2, <2>3, ThreadBuffers
<1> QED
  BY <1>1, <1>2 DEF SentInOrder, OnItsWay

(* What a call leaves in the buffer of a Device comes after what it reads, *)
(* and a Device that bindy_open has made is empty.                         *)
LEMMA ThreadReadInOrder ==
  ASSUME TypeOK, TypeOK', ConnInv, CallInv, ReadInOrder,
         NEW t \in Threads, Call(t) \/ ThreadStep(t), UNCHANGED serverVars
  PROVE  ReadInOrder'
<1>0. /\ device_by_conn' \subseteq Conns
      /\ UNCHANGED <<callback, toClient, given, dropped>>
  BY ThreadMovesItself DEF TypeOK, ClientTypeOK, serverVars
<1> SUFFICES ASSUME NEW c \in device_by_conn'
             PROVE  /\ \A i \in DOMAIN buffer'[c] : taken'[c] < buffer'[c][i]
                    /\ \A i, j \in DOMAIN buffer'[c] : i < j => buffer'[c][i] < buffer'[c][j]
                    /\ \A n \in taken'[c] + 1 .. given[c] :
                         taken'[c] # 0 \/ (\E i \in DOMAIN buffer'[c] : buffer'[c][i] < n)
                         => Buffered(c, n)' \/ OnItsWay(c, n) \/ n \in dropped[c]
  BY <1>0 DEF ReadInOrder, OnItsWay
<1>1. c \in Conns
  BY <1>0
<1>2. /\ DOMAIN buffer[c] = 1 .. Len(buffer[c]) /\ DOMAIN buffer'[c] = 1 .. Len(buffer'[c])
      /\ Len(buffer[c]) \in Nat /\ taken[c] \in Nat /\ given[c] \in Nat
      /\ \A i \in 1 .. Len(buffer[c]) : buffer[c][i] \in Nat
  <2>1. /\ buffer[c] \in Seq(Nat) /\ buffer'[c] \in Seq(Nat)
        /\ taken[c] \in Nat /\ given[c] \in Nat
    BY <1>1, SystemAssumption DEF TypeOK, ClientTypeOK, SystemAssumption
  <2> QED
    BY <2>1, ElementOfSeq, LenProperties
<1>3. CASE OpenSucceeds(t) /\ c = conn_id[t]
  <2>1. ConnectingOK(t) /\ UNCHANGED <<buffer, taken>>
    BY <1>3, CallHasConn DEF OpenSucceeds, FinishOpen, CallInv, Connecting, Unconnected
  <2>2. buffer'[c] = <<>> /\ taken'[c] = 0
    BY <1>3, <2>1 DEF ConnectingOK
  <2>3. DOMAIN buffer'[c] = {}
    BY <2>2
  <2> QED
    BY <2>2, <2>3
<1>4. ASSUME c \in device_by_conn,
             NEW k \in 0 .. Len(buffer[c]),
             k = 0 => taken'[c] = taken[c],
             k # 0 => taken'[c] = buffer[c][k],
             Len(buffer'[c]) = Len(buffer[c]) - k,
             \A i \in 1 .. Len(buffer'[c]) : buffer'[c][i] = buffer[c][k + i]
      PROVE  /\ \A i \in 1 .. Len(buffer'[c]) : taken'[c] < buffer'[c][i]
             /\ \A i, j \in 1 .. Len(buffer'[c]) : i < j => buffer'[c][i] < buffer'[c][j]
             /\ \A n \in taken'[c] + 1 .. given[c] :
                  taken'[c] # 0 \/ (\E i \in 1 .. Len(buffer'[c]) : buffer'[c][i] < n)
                  => Buffered(c, n)' \/ OnItsWay(c, n) \/ n \in dropped[c]
  <2>1. /\ \A i \in 1 .. Len(buffer[c]) : taken[c] < buffer[c][i]
        /\ \A i, j \in 1 .. Len(buffer[c]) : i < j => buffer[c][i] < buffer[c][j]
        /\ \A n \in taken[c] + 1 .. given[c] :
             taken[c] # 0 \/ (\E i \in 1 .. Len(buffer[c]) : buffer[c][i] < n)
             => Buffered(c, n) \/ OnItsWay(c, n) \/ n \in dropped[c]
    BY <1>2, <1>4 DEF ReadInOrder
  <2>2. \A i \in 1 .. Len(buffer'[c]) : k + i \in 1 .. Len(buffer[c]) /\ k < k + i /\ i \in Int
    BY <1>2, <1>4
  <2>3. k # 0 => k \in 1 .. Len(buffer[c])
    BY <1>2
  <2>4. \A i, j \in 1 .. Len(buffer'[c]) : i < j => k + i < k + j
    BY <2>2
  <2>5. \A i \in 1 .. Len(buffer'[c]) : taken'[c] < buffer'[c][i]
    BY <1>4, <2>1, <2>2, <2>3
  <2>6. \A i, j \in 1 .. Len(buffer'[c]) : i < j => buffer'[c][i] < buffer'[c][j]
    BY <1>4, <2>1, <2>2, <2>4
  <2>7. ASSUME NEW n \in taken'[c] + 1 .. given[c],
               taken'[c] # 0 \/ (\E i \in 1 .. Len(buffer'[c]) : buffer'[c][i] < n)
        PROVE  Buffered(c, n)' \/ OnItsWay(c, n) \/ n \in dropped[c]
    <3>1. taken'[c] \in Nat /\ taken[c] <= taken'[c]
      BY <1>2, <1>4, <2>1, <2>3
    <3>2. n \in taken[c] + 1 .. given[c] /\ taken'[c] < n
      BY <1>2, <3>1
    <3>3. taken[c] # 0 \/ (\E i \in 1 .. Len(buffer[c]) : buffer[c][i] < n)
      BY <1>4, <2>2, <2>3, <2>7, <3>2
    <3>4. ASSUME Buffered(c, n)
          PROVE  Buffered(c, n)'
      <4>1. PICK j \in 1 .. Len(buffer[c]) : buffer[c][j] = n
        BY <1>2, <3>4 DEF Buffered
      <4>2. k < j
        <5>1. CASE k = 0
          BY <5>1
        <5>2. CASE k # 0
          <6>1. k \in 1 .. Len(buffer[c]) /\ buffer[c][k] < buffer[c][j]
            BY <1>4, <2>3, <3>2, <4>1, <5>2
          <6>2. buffer[c][k] \in Nat /\ buffer[c][j] \in Nat
            BY <1>2, <6>1
          <6>3. ~(j < k) /\ j # k
            BY <2>1, <6>1, <6>2
          <6> QED
            BY <1>2, <6>3
        <5> QED
          BY <5>1, <5>2
      <4>3. j - k \in 1 .. Len(buffer'[c]) /\ k + (j - k) = j
        BY <1>2, <1>4, <4>2
      <4>4. buffer'[c][j - k] = n
        BY <1>4, <4>1, <4>3
      <4> QED
        BY <1>2, <4>3, <4>4 DEF Buffered
    <3> QED
      BY <2>1, <3>2, <3>3, <3>4
  <2> QED
    BY <2>5, <2>6, <2>7
<1> QED
  <2>1. c \in device_by_conn \/ (OpenSucceeds(t) /\ c = conn_id[t])
    BY ThreadDevices
  <2> QED
    BY <1>1, <1>2, <1>3, <1>4, <2>1, ThreadBuffers

(* callback_data is done with the packets in their order.                  *)
LEMMA CallbackSentInOrder ==
  ASSUME TypeOK, TypeOK', SentInOrder,
         NEW c \in Conns, CallbackStep(c) \/ LinkLost(c), UNCHANGED serverVars
  PROVE  SentInOrder'
<1>0. /\ callback \in [Conns -> [kind : Answers \cup {"idle", "put"}, byte : Nat]]
      /\ toClient \in [Conns -> Seq(Packets)] /\ buffer \in [Conns -> Seq(Nat)]
      /\ arrived \in [Conns -> Nat] /\ taken \in [Conns -> Nat]
      /\ given \in [Conns -> Nat] /\ UNCHANGED <<given, dropped>>
  BY SystemAssumption DEF TypeOK, ClientTypeOK, serverVars, SystemAssumption
<1> SUFFICES ASSUME NEW d \in Conns
             PROVE  /\ Numbered(toClient'[d], arrived'[d], given[d])
                    /\ callback'[d].kind \in {"data", "put"} =>
                         /\ arrived'[d] < callback'[d].byte /\ callback'[d].byte <= given[d]
                         /\ Numbered(toClient'[d], callback'[d].byte, given[d])
                    /\ \A n \in arrived'[d] + 1 .. given[d] : OnItsWay(d, n)' \/ n \in dropped[d]
                    /\ \A i \in 1 .. Len(buffer'[d]) : buffer'[d][i] <= arrived'[d]
                    /\ taken'[d] <= arrived'[d] /\ arrived'[d] <= given[d]
  BY <1>0 DEF SentInOrder
<1> DEFINE called == callback[d].kind \in {"data", "put"}
<1>1. /\ Numbered(toClient[d], arrived[d], given[d])
      /\ called => /\ arrived[d] < callback[d].byte /\ callback[d].byte <= given[d]
                   /\ Numbered(toClient[d], callback[d].byte, given[d])
      /\ \A n \in arrived[d] + 1 .. given[d] : OnItsWay(d, n) \/ n \in dropped[d]
      /\ \A i \in 1 .. Len(buffer[d]) : buffer[d][i] <= arrived[d]
      /\ taken[d] <= arrived[d] /\ arrived[d] <= given[d]
  BY DEF SentInOrder
<1>2. /\ toClient[d] \in Seq(Packets) /\ buffer[d] \in Seq(Nat) /\ Len(buffer[d]) \in Nat
      /\ arrived[d] \in Nat /\ taken[d] \in Nat /\ given[d] \in Nat /\ callback[d].byte \in Nat
      /\ \A i \in 1 .. Len(buffer[d]) : buffer[d][i] \in Nat
  BY <1>0, ElementOfSeq, LenProperties
<1>3. CASE ~(d = c /\ (DataLost(c) \/ DataPut(c)))
  <2>1. arrived'[d] = arrived[d] /\ taken'[d] = taken[d]
    BY <1>0, <1>3, CallbackKeepsToItsConn
    DEF CallbackStep, Deliver, OpenDeviceAnswer, DeviceEnds, DeleteDevice, DataFind, LinkLost,
        objVars
  <2>2. \A n \in arrived[d] + 1 .. given[d] : OnItsWay(d, n)' \/ n \in dropped[d]
    BY <1>1, <1>3, CallbackOnItsWay
  <2>3. buffer'[d] \in {buffer[d], <<>>}
    BY <1>0, <1>3, CallbackKeepsToItsConn
    DEF CallbackStep, Deliver, OpenDeviceAnswer, DeviceEnds, DeleteDevice, DataFind, LinkLost,
        objVars
  <2>4. \A i \in 1 .. Len(buffer'[d]) : buffer'[d][i] <= arrived[d]
    BY <1>1, <2>3
  <2>5. /\ Numbered(toClient'[d], arrived[d], given[d])
        /\ callback'[d].kind \in {"data", "put"} =>
             /\ arrived[d] < callback'[d].byte /\ callback'[d].byte <= given[d]
             /\ Numbered(toClient'[d], callback'[d].byte, given[d])
    <3>1. CASE d # c
      BY <1>1, <3>1, CallbackKeepsToItsConn
    <3>2. CASE d = c /\ Deliver(c)
      <4>1. /\ toClient[d] # <<>> /\ callback'[d] = Head(toClient[d])
            /\ toClient'[d] = Tail(toClient[d])
        BY <1>0, <3>2 DEF Deliver
      <4>2. Head(toClient[d]) \in Packets
        BY <1>2, <4>1, HasTail
      <4>3. Head(toClient[d]).kind # "put"
        BY <4>2 DEF Packets, Answers
      <4>4. /\ Numbered(Tail(toClient[d]), arrived[d], given[d])
            /\ Head(toClient[d]).kind = "data" =>
                 /\ arrived[d] < Head(toClient[d]).byte /\ Head(toClient[d]).byte <= given[d]
                 /\ Numbered(Tail(toClient[d]), Head(toClient[d]).byte, given[d])
        BY <1>1, <1>2, <4>1, <4>2, NumberedFacts
      <4> QED
        BY <4>1, <4>2, <4>3, <4>4
    <3>3. CASE d = c /\ (OpenDeviceAnswer(c) \/ DeviceEnds(c))
      BY <1>0, <1>1, <3>3 DEF OpenDeviceAnswer, DeviceEnds, CallbackDone, Idle, netVars
    <3>4. CASE d = c /\ DataFind(c)
      BY <1>0, <1>1, <3>4 DEF DataFind, netVars
    <3>5. CASE d = c /\ LinkLost(c)
      BY <1>0, <1>1, <3>5 DEF LinkLost
    <3> QED
      BY <1>3, <3>1, <3>2, <3>3, <3>4, <3>5 DEF CallbackStep
  <2> HIDE DEF called
  <2>6. \A n \in arrived'[d] + 1 .. given[d] : OnItsWay(d, n)' \/ n \in dropped[d]
    BY <2>1, <2>2
  <2>7. taken'[d] <= arrived'[d] /\ arrived'[d] <= given[d]
    BY <1>1, <2>1
  <2> QED
    BY <2>1, <2>4, <2>5, <2>6, <2>7
<1>4. CASE d = c /\ (DataLost(c) \/ DataPut(c))
  <2>1. /\ called /\ arrived'[d] = callback[d].byte /\ callback'[d].kind = "idle"
        /\ taken'[d] = taken[d] /\ toClient'[d] = toClient[d]
    BY <1>0, <1>4 DEF DataLost, DataPut, CallbackDone, Idle, netVars
  <2>2. Numbered(toClient'[d], arrived'[d], given[d]) /\ arrived[d] < arrived'[d]
    BY <1>1, <2>1
  <2>3. \A n \in arrived'[d] + 1 .. given[d] : OnItsWay(d, n)' \/ n \in dropped[d]
    <3>1. \A n \in arrived'[d] + 1 .. given[d] :
            n \in arrived[d] + 1 .. given[d] /\ n # callback[d].byte
      BY <1>2, <2>1, <2>2
    <3> QED
      BY <1>1, <3>1, CallbackOnItsWay
  <2>4. \A i \in 1 .. Len(buffer'[d]) : buffer'[d][i] <= arrived'[d]
    <3>1. CASE DataLost(c)
      BY <1>1, <1>2, <2>1, <2>2, <3>1 DEF DataLost
    <3>2. CASE DataPut(c)
      <4>1. buffer'[d] = Append(buffer[d], callback[d].byte)
        BY <1>0, <1>4, <3>2 DEF DataPut
      <4>2. /\ Len(buffer'[d]) = Len(buffer[d]) + 1
            /\ \A i \in 1 .. Len(buffer[d]) : buffer'[d][i] = buffer[d][i]
            /\ buffer'[d][Len(buffer[d]) + 1] = callback[d].byte
        BY <1>2, <4>1, AppendProperties
      <4>3. \A i \in 1 .. Len(buffer'[d]) : i \in 1 .. Len(buffer[d]) \/ i = Len(buffer[d]) + 1
        BY <1>2, <4>2
      <4>4. \A i \in 1 .. Len(buffer[d]) : buffer[d][i] <= callback[d].byte
        BY <1>1, <1>2, <2>1, <2>2
      <4>5. arrived'[d] = callback[d].byte /\ callback[d].byte \in Nat
        BY <1>2, <2>1
      <4> HIDE DEF called
      <4> QED
        BY <4>2, <4>3, <4>4, <4>5
    <3> QED
      BY <1>4, <3>1, <3>2
  <2>5. taken'[d] <= arrived'[d] /\ arrived'[d] <= given[d]
    BY <1>1, <1>2, <2>1, <2>2
  <2> QED
    BY <2>1, <2>2, <2>3, <2>4, <2>5
<1> QED
  BY <1>3, <1>4

(* callback_data puts a byte behind those that came before it.             *)
LEMMA CallbackReadInOrder ==
  ASSUME TypeOK, TypeOK', SentInOrder, ReadInOrder,
         NEW c \in Conns, CallbackStep(c) \/ LinkLost(c), UNCHANGED serverVars
  PROVE  ReadInOrder'
<1>0. /\ buffer \in [Conns -> Seq(Nat)] /\ taken \in [Conns -> Nat]
      /\ device_by_conn' \subseteq device_by_conn /\ device_by_conn \subseteq Conns
      /\ UNCHANGED <<given, dropped>>
  BY CallbackFrame DEF TypeOK, ClientTypeOK, serverVars
<1> SUFFICES ASSUME NEW d \in device_by_conn'
             PROVE  /\ \A i \in DOMAIN buffer'[d] : taken'[d] < buffer'[d][i]
                    /\ \A i, j \in DOMAIN buffer'[d] : i < j => buffer'[d][i] < buffer'[d][j]
                    /\ \A n \in taken'[d] + 1 .. given[d] :
                         taken'[d] # 0 \/ (\E i \in DOMAIN buffer'[d] : buffer'[d][i] < n)
                         => Buffered(d, n)' \/ OnItsWay(d, n)' \/ n \in dropped[d]
  BY <1>0 DEF ReadInOrder
<1>1. d \in device_by_conn /\ d \in Conns
  BY <1>0
<1>2. /\ \A i \in DOMAIN buffer[d] : taken[d] < buffer[d][i]
      /\ \A i, j \in DOMAIN buffer[d] : i < j => buffer[d][i] < buffer[d][j]
      /\ \A n \in taken[d] + 1 .. given[d] :
           taken[d] # 0 \/ (\E i \in DOMAIN buffer[d] : buffer[d][i] < n)
           => Buffered(d, n) \/ OnItsWay(d, n) \/ n \in dropped[d]
  BY <1>1 DEF ReadInOrder
<1>3. CASE ~(d = c /\ DataPut(c))
  <2>1. buffer'[d] = buffer[d] /\ taken'[d] = taken[d]
    <3>1. CASE d = c /\ DeviceEnds(c)
      BY <3>1 DEF DeviceEnds, DeleteDevice, objVars
    <3> QED
      BY <1>1, <1>3, <3>1, CallbackKeepsToItsConn
      DEF CallbackStep, Deliver, OpenDeviceAnswer, DataLost, DataFind, LinkLost, objVars
  <2>2. \A n : OnItsWay(d, n) => OnItsWay(d, n)'
    <3>1. ~(d = c /\ DataLost(c))
      BY <1>1 DEF DataLost
    <3> QED
      BY <1>1, <1>3, <3>1, CallbackOnItsWay
  <2>3. \A n : Buffered(d, n) => Buffered(d, n)'
    BY <2>1 DEF Buffered
  <2> QED
    BY <1>2, <2>1, <2>2, <2>3
<1>4. CASE d = c /\ DataPut(c)
  <2> DEFINE new == callback[d].byte
  <2>1. /\ buffer'[d] = Append(buffer[d], new) /\ taken'[d] = taken[d]
        /\ callback[d].kind = "put" /\ buffer[d] \in Seq(Nat) /\ Len(buffer[d]) \in Nat
        /\ new \in Nat /\ taken[d] \in Nat /\ arrived[d] \in Nat /\ given[d] \in Nat
        /\ \A i \in 1 .. Len(buffer[d]) : buffer[d][i] \in Nat
    <3>1. /\ buffer'[d] = Append(buffer[d], new) /\ taken'[d] = taken[d]
          /\ callback[d].kind = "put"
      BY <1>0, <1>1, <1>4 DEF DataPut
    <3>2. buffer[d] \in Seq(Nat) /\ taken[d] \in Nat
      BY <1>0, <1>1
    <3>3. Len(buffer[d]) \in Nat /\ \A i \in 1 .. Len(buffer[d]) : buffer[d][i] \in Nat
      BY <3>2, ElementOfSeq, LenProperties
    <3>4. new \in Nat /\ arrived[d] \in Nat
      BY <1>1 DEF TypeOK, ClientTypeOK
    <3>5. given[d] \in Nat
      BY <1>1, SystemAssumption DEF TypeOK, SystemAssumption
    <3> QED
      BY <3>1, <3>2, <3>3, <3>4, <3>5
  <2>2. /\ DOMAIN buffer[d] = 1 .. Len(buffer[d])
        /\ DOMAIN buffer'[d] = 1 .. Len(buffer[d]) + 1
        /\ \A i \in 1 .. Len(buffer[d]) : buffer'[d][i] = buffer[d][i]
        /\ buffer'[d][Len(buffer[d]) + 1] = new
    BY <2>1, AppendProperties
  <2>3. /\ arrived[d] < new /\ new <= given[d]
        /\ \A n \in arrived[d] + 1 .. given[d] : OnItsWay(d, n) \/ n \in dropped[d]
        /\ \A i \in 1 .. Len(buffer[d]) : buffer[d][i] <= arrived[d]
        /\ taken[d] <= arrived[d]
    BY <1>1, <2>1 DEF SentInOrder
  <2>4. \A i \in DOMAIN buffer'[d] : i \in 1 .. Len(buffer[d]) \/ i = Len(buffer[d]) + 1
    BY <2>1, <2>2
  <2>5. \A n : OnItsWay(d, n) => OnItsWay(d, n)' \/ n = new
    BY <1>1, <1>4, CallbackOnItsWay
  <2>6. \A n : Buffered(d, n) \/ n = new => Buffered(d, n)'
    BY <2>1, <2>2 DEF Buffered
  <2> HIDE DEF new
  <2>7. \A i \in DOMAIN buffer'[d] : taken'[d] < buffer'[d][i]
    BY <1>2, <2>1, <2>2, <2>3, <2>4
  <2>8. \A i, j \in DOMAIN buffer'[d] : i < j => buffer'[d][i] < buffer'[d][j]
    <3> SUFFICES ASSUME NEW i \in DOMAIN buffer'[d], NEW j \in DOMAIN buffer'[d], i < j
                 PROVE  buffer'[d][i] < buffer'[d][j]
      OBVIOUS
    <3>1. i \in 1 .. Len(buffer[d])
      BY <2>1, <2>2
    <3>2. CASE j \in 1 .. Len(buffer[d])
      BY <1>2, <2>2, <3>1, <3>2
    <3>3. CASE j = Len(buffer[d]) + 1
      <4>1. buffer[d][i] <= arrived[d] /\ buffer[d][i] \in Nat /\ buffer'[d][j] = new
        BY <2>1, <2>2, <2>3, <3>1, <3>3
      <4> QED
        BY <2>1, <2>2, <2>3, <3>1, <4>1
    <3> QED
      BY <2>4, <3>2, <3>3
  <2>9. ASSUME NEW n \in taken'[d] + 1 .. given[d],
               taken'[d] # 0 \/ (\E i \in DOMAIN buffer'[d] : buffer'[d][i] < n)
        PROVE  Buffered(d, n)' \/ OnItsWay(d, n)' \/ n \in dropped[d]
    <3>1. CASE taken[d] # 0 \/ (\E i \in DOMAIN buffer[d] : buffer[d][i] < n)
      BY <1>2, <2>1, <2>5, <2>6, <2>9, <3>1
    <3>2. CASE new < n
      <4>1. n \in arrived[d] + 1 .. given[d]
        BY <2>1, <2>3, <2>9, <3>2
      <4> QED
        BY <2>3, <2>5, <2>6, <4>1
    <3> QED
      BY <2>1, <2>2, <2>4, <2>9, <3>1, <3>2
  <2> QED
    BY <2>7, <2>8, <2>9
<1> QED
  BY <1>3, <1>4

(* RawData that is on its way stays so when the server sends something.    *)
LEMMA ServerOnItsWay ==
  ASSUME TypeOK, TypeOK', NEW c \in Conns, ServerStep(c), NEW d \in Conns, NEW n
  PROVE  /\ OnItsWay(d, n) => OnItsWay(d, n)'
         /\ Has(toClient'[d], Bytes(n)) => OnItsWay(d, n)'
<1>1. toClient[d] \in Seq(Packets) /\ toClient'[d] \in Seq(Packets)
  BY DEF TypeOK, ClientTypeOK
<1>2. UNCHANGED callback
  BY ServerFrame
<1>3. Has(toClient[d], Bytes(n)) => Has(toClient'[d], Bytes(n))
  <2>1. CASE toClient'[d] = toClient[d]
    BY <2>1
  <2>2. CASE toClient'[d] # toClient[d]
    <3>1. \E new \in Packets : toClient'[d] = Append(toClient[d], new)
      BY <2>2, ServerAnswers
    <3> QED
      BY <1>1, <3>1, HasAppend
  <2> QED
    BY <2>1, <2>2
<1>4. Has(toClient'[d], Bytes(n)) => OnItsWay(d, n)'
  <2>1. DOMAIN toClient'[d] = 1 .. Len(toClient'[d])
    BY <1>1
  <2> QED
    BY <2>1 DEF OnItsWay, Has, Bytes
<1>5. callback[d].kind \in {"data", "put"} /\ callback[d].byte = n => OnItsWay(d, n)'
  BY <1>2 DEF OnItsWay
<1> QED
  BY <1>3, <1>4, <1>5, OnItsWaySays

(* The reader of the server numbers what it gets, and sends or drops it.   *)
LEMMA ServerReads ==
  ASSUME TypeOK, TypeOK', NEW c \in Conns, ServerStep(c), NEW d \in Conns
  PROVE  /\ dropped[d] \subseteq dropped'[d]
         /\ \/ given'[d] = given[d]
            \/ /\ given'[d] = given[d] + 1
               /\ \A n : n = given'[d] => OnItsWay(d, n)' \/ n \in dropped'[d]
         /\ \/ toClient'[d] = toClient[d]
            \/ \E new \in Packets : /\ new.kind # "data"
                                    /\ toClient'[d] = Append(toClient[d], new)
            \/ /\ given'[d] = given[d] + 1
               /\ toClient'[d] = Append(toClient[d], Bytes(given'[d]))
               /\ Bytes(given'[d]) \in Packets
<1>0. /\ given \in [Conns -> Nat] /\ dropped \in [Conns -> SUBSET Nat]
      /\ toClient \in [Conns -> Seq(Packets)]
  <2>1. given \in [Conns -> 0 .. MaxBytes] /\ 0 .. MaxBytes \subseteq Nat
    BY SystemAssumption DEF TypeOK, SystemAssumption
  <2> QED
    BY <2>1 DEF TypeOK, ClientTypeOK
<1>1. CASE d = c /\ ReadDevice(c)
  <2>1. given'[c] = given[c] + 1 /\ given'[c] \in Nat
    BY <1>0, <1>1 DEF ReadDevice
  <2>2. Bytes(given'[c]) \in Packets
    BY <2>1 DEF Bytes, Packets, Answers
  <2>3. CASE Send(c, "data", given[c] + 1) /\ UNCHANGED dropped
    <3>1. toClient'[c] = Append(toClient[c], Bytes(given'[c]))
      BY <1>0, <2>1, <2>3 DEF Send, Bytes
    <3>2. ASSUME NEW n, n = given'[c]
          PROVE  OnItsWay(c, n)'
      <4>1. Has(toClient'[c], Bytes(n))
        BY <1>0, <2>2, <3>1, <3>2, HasAppend
      <4> QED
        BY <4>1, ServerOnItsWay
    <3> QED
      BY <1>1, <2>1, <2>2, <2>3, <3>1, <3>2
  <2>4. CASE dropped' = [dropped EXCEPT ![c] = @ \cup {given[c] + 1}] /\ UNCHANGED toClient
    BY <1>0, <1>1, <2>1, <2>4
  <2> QED
    BY <1>1, <2>3, <2>4 DEF ReadDevice
<1>2. CASE ~(d = c /\ ReadDevice(c))
  <2>1. given'[d] = given[d] /\ dropped'[d] = dropped[d]
    BY <1>0, <1>2 DEF ServerStep, Serve, Accept, Grant, AnswerOpen, Refuse, ReceiveRaw,
       AnswerClose, RemoveDevice, WriteFails, ReadDevice, PeerGone, Forget, serverVars
  <2>2. toClient'[d] # toClient[d] =>
          \E new \in Packets : new.kind # "data" /\ toClient'[d] = Append(toClient[d], new)
    BY <1>2, ServerAnswers
  <2> QED
    BY <2>1, <2>2
<1> QED
  BY <1>1, <1>2

(* What the server sends comes after what it sent before.                  *)
LEMMA ServerSentInOrder ==
  ASSUME TypeOK, TypeOK', SentInOrder, NEW c \in Conns, ServerStep(c)
  PROVE  SentInOrder'
<1>0. UNCHANGED <<callback, buffer, arrived, taken>>
  BY ServerFrame
<1> SUFFICES ASSUME NEW d \in Conns
             PROVE  /\ Numbered(toClient'[d], arrived[d], given'[d])
                    /\ callback[d].kind \in {"data", "put"} =>
                         /\ arrived[d] < callback[d].byte /\ callback[d].byte <= given'[d]
                         /\ Numbered(toClient'[d], callback[d].byte, given'[d])
                    /\ \A n \in arrived[d] + 1 .. given'[d] : OnItsWay(d, n)' \/ n \in dropped'[d]
                    /\ \A i \in 1 .. Len(buffer[d]) : buffer[d][i] <= arrived[d]
                    /\ taken[d] <= arrived[d] /\ arrived[d] <= given'[d]
  BY <1>0 DEF SentInOrder
<1> DEFINE called == callback[d].kind \in {"data", "put"}
<1>1. /\ Numbered(toClient[d], arrived[d], given[d])
      /\ called => /\ arrived[d] < callback[d].byte /\ callback[d].byte <= given[d]
                   /\ Numbered(toClient[d], callback[d].byte, given[d])
      /\ \A n \in arrived[d] + 1 .. given[d] : OnItsWay(d, n) \/ n \in dropped[d]
      /\ \A i \in 1 .. Len(buffer[d]) : buffer[d][i] <= arrived[d]
      /\ taken[d] <= arrived[d] /\ arrived[d] <= given[d]
  BY DEF SentInOrder
<1>2. /\ toClient[d] \in Seq(Packets) /\ arrived[d] \in Nat /\ given[d] \in Nat
      /\ callback[d].byte \in Nat
  BY SystemAssumption DEF TypeOK, ClientTypeOK, SystemAssumption
<1>3. given'[d] = given[d] \/ given'[d] = given[d] + 1
  BY ServerReads
<1>4. ASSUME NEW above \in Nat, Numbered(toClient[d], above, given[d]), above <= given[d]
      PROVE  Numbered(toClient'[d], above, given'[d])
  <2>0. [kind |-> "closed", byte |-> 0] \in Packets
    BY DEF Packets, Answers
  <2>1. CASE toClient'[d] = toClient[d]
    BY <1>2, <1>3, <1>4, <2>0, <2>1, NumberedFacts
  <2>2. ASSUME NEW new \in Packets, new.kind # "data", toClient'[d] = Append(toClient[d], new)
        PROVE  Numbered(toClient'[d], above, given'[d])
    <3>1. Numbered(toClient'[d], above, given[d]) /\ toClient'[d] \in Seq(Packets)
      BY <1>2, <1>4, <2>2, NumberedFacts, AppendProperties
    <3> QED
      BY <1>2, <1>3, <2>0, <3>1, NumberedFacts
  <2>3. CASE /\ given'[d] = given[d] + 1 /\ Bytes(given'[d]) \in Packets
             /\ toClient'[d] = Append(toClient[d], Bytes(given'[d]))
    <3>1. Bytes(given'[d]).byte = given[d] + 1
      BY <2>3 DEF Bytes
    <3> QED
      BY <1>2, <1>4, <2>3, <3>1, NumberedFacts
  <2> QED
    BY <2>1, <2>2, <2>3, ServerReads
<1>5. Numbered(toClient'[d], arrived[d], given'[d])
  BY <1>1, <1>2, <1>4
<1>6. called => /\ arrived[d] < callback[d].byte /\ callback[d].byte <= given'[d]
                /\ Numbered(toClient'[d], callback[d].byte, given'[d])
  BY <1>1, <1>2, <1>3, <1>4
<1>7. ASSUME NEW n \in arrived[d] + 1 .. given'[d]
      PROVE  OnItsWay(d, n)' \/ n \in dropped'[d]
  <2>1. CASE n \in arrived[d] + 1 .. given[d]
    BY <1>1, <2>1, ServerOnItsWay, ServerReads
  <2>2. CASE n \notin arrived[d] + 1 .. given[d]
    <3>1. given'[d] # given[d] /\ n = given'[d]
      BY <1>2, <1>3, <1>7, <2>2
    <3> QED
      BY <3>1, ServerReads
  <2> QED
    BY <2>1, <2>2
<1>8. taken[d] <= arrived[d] /\ arrived[d] <= given'[d]
  BY <1>1, <1>2, <1>3
<1> HIDE DEF called
<1> QED
  BY <1>1, <1>5, <1>6, <1>7, <1>8 DEF called

(* So nothing comes between the bytes but what it drops.                   *)
LEMMA ServerReadInOrder ==
  ASSUME TypeOK, TypeOK', ReadInOrder, NEW c \in Conns, ServerStep(c)
  PROVE  ReadInOrder'
<1>0. UNCHANGED <<device_by_conn, buffer, taken>>
  BY ServerFrame
<1> SUFFICES ASSUME NEW d \in device_by_conn,
                    NEW n \in taken[d] + 1 .. given'[d],
                    taken[d] # 0 \/ (\E i \in DOMAIN buffer[d] : buffer[d][i] < n)
             PROVE  Buffered(d, n) \/ OnItsWay(d, n)' \/ n \in dropped'[d]
  BY <1>0 DEF ReadInOrder, Buffered
<1>1. d \in Conns /\ taken[d] \in Nat /\ given[d] \in Nat
  BY SystemAssumption DEF TypeOK, ClientTypeOK, SystemAssumption
<1>2. CASE n \in taken[d] + 1 .. given[d]
  BY <1>1, <1>2, ServerOnItsWay, ServerReads DEF ReadInOrder
<1>3. CASE n \notin taken[d] + 1 .. given[d]
  <2>1. given'[d] # given[d] /\ n = given'[d]
    BY <1>1, <1>3, ServerReads
  <2> QED
    BY <1>1, <2>1, ServerReads
<1> QED
  BY <1>2, <1>3

-----------------------------------------------------------------------------
(* The invariant. *)

(* Every part of the invariant together, for the steps of a thread, ...    *)
LEMMA ThreadInvariance ==
  ASSUME IInv, NEW t \in Threads, Call(t) \/ ThreadStep(t), UNCHANGED serverVars
  PROVE  IInv'
<1>0. /\ TypeOK /\ ConnInv /\ GlobalMutexInside /\ UnusedInv /\ CallInv /\ HandleInv
      /\ DeviceInv /\ FailureInv /\ AnswerInv /\ OwnerInv /\ HandleMeansDevice /\ SentInOrder
      /\ ReadInOrder
  BY DEF IInv
<1>1. TypeOK' /\ ConnInv'
  BY <1>0, ThreadTypes, ConnStep
<1>2. GlobalMutexInside' /\ UnusedInv'
  BY <1>0, ThreadGlobal, ThreadUnused
<1>3. CallInv'
  BY <1>0, ThreadConnecting, ThreadClosing DEF CallInv
<1>4. HandleInv' /\ DeviceInv'
  BY <1>0, ThreadHandleInv, ThreadDeviceInv
<1>5. FailureInv'
  BY <1>0, ThreadMovesItself DEF FailureInv, Failed, Told, serverVars
<1>6. AnswerInv' /\ OwnerInv' /\ HandleMeansDevice'
  BY <1>0, ThreadAnswerInv, ThreadOwnerInv, ThreadHandleMeansDevice
<1>7. SentInOrder' /\ ReadInOrder'
  BY <1>0, <1>1, ThreadSentInOrder, ThreadReadInOrder
<1> QED
  BY <1>1, <1>2, <1>3, <1>4, <1>5, <1>6, <1>7 DEF IInv

(* ... for those of a callback and of the network, ...                     *)
LEMMA CallbackInvariance ==
  ASSUME IInv, NEW c \in Conns, CallbackStep(c) \/ LinkLost(c), UNCHANGED serverVars
  PROVE  IInv'
<1>0. /\ TypeOK /\ ConnInv /\ GlobalMutexInside /\ UnusedInv /\ CallInv /\ HandleInv
      /\ DeviceInv /\ FailureInv /\ AnswerInv /\ OwnerInv /\ HandleMeansDevice /\ SentInOrder
      /\ ReadInOrder
  BY DEF IInv
<1>1. TypeOK' /\ GlobalMutexInside' /\ UnusedInv' /\ CallInv'
  BY <1>0, CallbackTypes, CallbackGlobal, CallbackUnused, CallbackCalls
<1>2. UNCHANGED <<pc, conn_id, handles, target>> /\ device_by_conn' \subseteq device_by_conn
  BY CallbackFrame
<1>3. ConnInv'
  BY <1>0, <1>2 DEF ConnInv
<1>4. handles \subseteq Conns /\ device_by_conn \subseteq Conns
  BY <1>0 DEF TypeOK, ClientTypeOK
<1>5. HandleInv' /\ DeviceInv'
  BY <1>0, <1>2, <1>4, CallbackCloseSent DEF HandleInv, DeviceInv
<1>6. FailureInv' /\ OwnerInv'
  BY <1>0, <1>2, CallbackTold DEF FailureInv, Failed, OwnerInv, serverVars, Answers
<1>7. AnswerInv' /\ HandleMeansDevice'
  BY <1>0, CallbackAnswerInv, CallbackHandleMeansDevice
<1>8. SentInOrder' /\ ReadInOrder'
  BY <1>0, <1>1, CallbackSentInOrder, CallbackReadInOrder
<1> QED
  BY <1>1, <1>3, <1>5, <1>6, <1>7, <1>8 DEF IInv

(* ... and for those of the server.                                        *)
LEMMA ServerInvariance ==
  ASSUME IInv, NEW c \in Conns, ServerStep(c)
  PROVE  IInv'
<1>0. /\ TypeOK /\ ConnInv /\ GlobalMutexInside /\ UnusedInv /\ CallInv /\ HandleInv
      /\ DeviceInv /\ FailureInv /\ AnswerInv /\ OwnerInv /\ HandleMeansDevice /\ SentInOrder
      /\ ReadInOrder
  BY DEF IInv
<1>1. TypeOK' /\ UnusedInv' /\ CallInv' /\ OwnerInv'
  BY <1>0, ServerTypes, ServerUnused, ServerCalls, ServerOwnerInv
<1>2. UNCHANGED <<pc, conn_id, callback, handles, global_mutex, device_by_conn>>
  BY ServerFrame
<1>3. ConnInv' /\ GlobalMutexInside'
  BY <1>0, <1>2 DEF ConnInv, GlobalMutexInside
<1>4. handles \subseteq Conns /\ device_by_conn \subseteq Conns
  BY <1>0 DEF TypeOK, ClientTypeOK
<1>5. HandleInv' /\ DeviceInv'
  BY <1>0, <1>2, <1>4, ServerCloseSent DEF HandleInv, DeviceInv
<1>6. FailureInv' /\ \A d \in Conns : Failed(d) => Failed(d)'
  BY <1>0, ServerFailureInv
<1>7. HandleMeansDevice'
  BY <1>0, <1>2, <1>4, <1>6 DEF HandleMeansDevice
<1>8. AnswerInv' /\ SentInOrder' /\ ReadInOrder'
  BY <1>0, <1>1, ServerAnswerInv, ServerSentInOrder, ServerReadInOrder
<1> QED
  BY <1>1, <1>3, <1>5, <1>6, <1>7, <1>8 DEF IInv

(* The invariant holds when the program and the server start.              *)
LEMMA InitInvariance ==
  ASSUME Init
  PROVE  IInv
<1>1. TypeOK /\ ConnInv
  BY InitTypes
<1>2. \A c \in Conns : /\ toServer[c] = <<>> /\ toClient[c] = <<>> /\ buffer[c] = <<>>
                       /\ callback[c] = Idle /\ session[c] = "new"
                       /\ given[c] = 0 /\ arrived[c] = 0 /\ taken[c] = 0
  BY DEF Init, ClientInit
<1>3. \A c \in Conns : \A answer \in Answers : ~Told(c, answer)
  BY <1>2, HasNothing DEF Told, Idle, Answers
<1>4. GlobalMutexInside /\ UnusedInv
  BY <1>2, Holders DEF GlobalMutexInside, UnusedInv, Unused, Idle, Init, ClientInit
<1>5. CallInv /\ HandleInv /\ DeviceInv /\ OwnerInv /\ HandleMeansDevice /\ ReadInOrder
  BY Holders DEF CallInv, Connecting, Closing, HandleInv, DeviceInv, OwnerInv, HandleMeansDevice,
     ReadInOrder, Init, ClientInit
<1>6. FailureInv
  BY <1>3 DEF FailureInv, Answers
<1>7. AnswerInv
  BY <1>2, <1>3, HasNothing DEF AnswerInv, OpenFirst, SettledOnce, Settled, Idle, Answers
<1>8. SentInOrder
  BY <1>2 DEF SentInOrder, Numbered, Idle
<1> QED
  BY <1>1, <1>4, <1>5, <1>6, <1>7, <1>8 DEF IInv

(* IInv holds in every reachable state, whatever the program does with the *)
(* library and however its timeouts are chosen.                            *)
THEOREM Invariance == Spec => []IInv
<1>1. Init => IInv
  BY InitInvariance
<1>2. IInv /\ [Next]_vars => IInv'
  <2> SUFFICES ASSUME IInv, [Next]_vars PROVE IInv'
    OBVIOUS
  <2>1. CASE UNCHANGED vars
    <3> USE <2>1 DEF vars, clientVars, callVars, objVars, netVars, serverVars
    <3>1. TypeOK' /\ ConnInv' /\ GlobalMutexInside' /\ UnusedInv'
      BY DEF IInv, TypeOK, ClientTypeOK, ConnInv, GlobalMutexInside, UnusedInv, Unused
    <3>2. CallInv'
      BY DEF IInv, CallInv, ConnectingOK, ClosingOK, CloseSent, AnswerDue, Told
    <3>3. HandleInv' /\ DeviceInv' /\ FailureInv' /\ OwnerInv' /\ HandleMeansDevice'
      BY DEF IInv, HandleInv, DeviceInv, FailureInv, Failed, OwnerInv, HandleMeansDevice,
         CloseSent, Told
    <3>4. AnswerInv'
      BY DEF IInv, AnswerInv, Told
    <3>5. SentInOrder'
      BY DEF IInv, SentInOrder, OnItsWay
    <3>6. ReadInOrder'
      BY DEF IInv, ReadInOrder, OnItsWay, Buffered
    <3> QED
      BY <3>1, <3>2, <3>3, <3>4, <3>5, <3>6 DEF IInv
  <2>2. CASE Next
    BY <2>1, <2>2, ThreadInvariance, CallbackInvariance, ServerInvariance DEF Next, Finished
  <2> QED
    BY <2>1, <2>2
<1> QED
  BY <1>1, <1>2, PTL DEF Spec

(* Every variable has its type in every reachable state, however many      *)
(* threads, connections and controllers there are.                         *)
THEOREM TypeCorrect == Spec => []TypeOK
<1>1. IInv => TypeOK
  BY DEF IInv
<1> QED
  BY <1>1, Invariance, PTL

(* global_mutex is held between two steps only by a reader or a callback   *)
(* that waits for the mutex of a Device which is in the map.               *)
THEOREM GlobalMutex == Spec => []GlobalMutexInside
<1>1. IInv => GlobalMutexInside
  BY DEF IInv
<1> QED
  BY <1>1, Invariance, PTL

(* Whatever bindy_open has returned and bindy_close has not been given has *)
(* its Device, or the writer of the server has failed: two threads that    *)
(* use one handle, or a close that races an answer, cannot change this.    *)
THEOREM HandlesAreAlive == Spec => []HandleMeansDevice
<1>1. IInv => HandleMeansDevice
  BY DEF IInv
<1> QED
  BY <1>1, Invariance, PTL

(* bindy_read returns what the reader of the server got from the           *)
(* controller, in that order, also when two threads read from one device;  *)
(* and after the first byte that it returns nothing is missing but what    *)
(* the server could not send.                                              *)
THEOREM BytesInOrder == Spec => []ReadInOrder
<1>1. IInv => ReadInOrder
  BY DEF IInv
<1> QED
  BY <1>1, Invariance, PTL

-----------------------------------------------------------------------------
(* A program that makes one call at a time for a controller. *)

(* Who reads or writes has found a Device; who opens was called so or did  *)
(* so before.                                                              *)
Using == {"write_send", "read_lock", "read_copy"}

LEMMA ThreadUses ==
  ASSUME TypeOK, NEW t \in Threads, Call(t) \/ ThreadStep(t)
  PROVE  /\ pc'[t] \in Using =>
              /\ conn_id'[t] = conn_id[t]
              /\ \/ pc[t] \in {"write_find", "read_find"} /\ conn_id[t] \in device_by_conn
                 \/ pc[t] \in Using
         /\ pc'[t] \in Opening =>
              \/ \E s \in Serials : CallOpen(t, s) /\ serial'[t] = s
              \/ pc[t] \in Opening /\ serial'[t] = serial[t]
<1> USE DEF Goto, Return, Using, Opening
<1>0. /\ pc \in [Threads -> Labels] /\ conn_id \in [Threads -> Conns \cup {NoConn}]
      /\ serial \in [Threads -> Serials]
  BY DEF TypeOK, ClientTypeOK
<1>1. CASE Call(t)
  BY <1>0, <1>1 DEF Call, CallOpen, CallWrite, CallRead, CallClose, CallOn
<1>2. CASE OpenReset(t) \/ OpenSend(t) \/ \E d \in Conns : OpenConnect(t, d)
  BY <1>0, <1>2 DEF OpenReset, OpenSend, OpenConnect
<1>3. CASE OpenConnectFails(t) \/ OpenSendThrows(t) \/ OpenSucceeds(t) \/ OpenFails(t)
  BY <1>0, <1>3 DEF OpenConnectFails, OpenSendThrows, OpenSucceeds, OpenFails, FinishOpen
<1>4. CASE WriteFind(t) \/ WriteSend(t) \/ ReadFind(t) \/ ReadLock(t)
  BY <1>0, <1>4 DEF WriteFind, WriteSend, ReadFind, ReadLock
<1>5. CASE \E k \in 0 .. Len(buffer[conn_id[t]]) : ReadCopy(t, k)
  BY <1>0, <1>5 DEF ReadCopy, ReadBytes
<1>6. CASE ReadFreed(t) \/ CloseErased(t)
  BY <1>0, <1>6 DEF ReadFreed, CloseErased, Die, callVars
<1>7. CASE CloseFind(t) \/ CloseReturn(t) \/ CloseRequest(t)
  BY <1>0, <1>7 DEF CloseFind, CloseReturn, CloseRequest, Die, callVars
<1>8. CASE CloseSend(t) \/ CloseDisconnect(t) \/ CloseErase(t)
  BY <1>0, <1>8 DEF CloseSend, CloseDisconnect, CloseErase
<1> QED
  BY <1>1, <1>2, <1>3, <1>4, <1>5, <1>6, <1>7, <1>8 DEF ThreadStep

(* A call begins only when no other works on its connection or opens its   *)
(* controller, so the calls stay apart.                                    *)
LEMMA ThreadOneCall ==
  ASSUME OneCallPerDevice, IInv, OneCallInv, NEW t \in Threads, Call(t) \/ ThreadStep(t),
         UNCHANGED serverVars
  PROVE  OneCallInv'
<1>0. TypeOK /\ ConnInv /\ UnusedInv /\ DeviceInv
  BY DEF IInv
<1>1. \A u \in Threads \ {t} : pc'[u] = pc[u] /\ conn_id'[u] = conn_id[u] /\ serial'[u] = serial[u]
  BY <1>0, ThreadMovesItself
<1>2. ASSUME NEW u \in Threads, pc'[u] \in Using
      PROVE  conn_id'[u] \in handles'
  <2>1. CASE u # t
    <3>1. conn_id[u] \in handles /\ conn_id'[u] = conn_id[u]
      BY <1>1, <1>2, <2>1 DEF OneCallInv, Using
    <3>2. ~CallClose(t, conn_id[u])
      BY DEF CallClose, CallOn, Alone
    <3> QED
      BY <3>1, <3>2, ThreadHandles
  <2>2. CASE u = t
    <3>1. conn_id'[t] = conn_id[t] /\ pc[t] # "idle"
      BY <1>0, <1>2, <2>2, ThreadUses DEF Using
    <3>2. conn_id[t] \in handles
      <4>1. CASE pc[t] \in Using
        BY <4>1 DEF OneCallInv, Using
      <4>2. CASE pc[t] \in {"write_find", "read_find"} /\ conn_id[t] \in device_by_conn
        <5>1. conn_id[t] # NoConn /\ pc[t] \notin Closing
          BY <1>0, <4>2 DEF ConnInv, Unconnected, Closing
        <5>2. \A v \in Threads : conn_id[v] = conn_id[t] => v = t
          BY <5>1 DEF OneCallInv
        <5> QED
          BY <1>0, <4>2, <5>1, <5>2 DEF DeviceInv
      <4> QED
        BY <1>0, <1>2, <2>2, <4>1, <4>2, ThreadUses
    <3>3. ~CallClose(t, conn_id[t])
      BY <3>1 DEF CallClose, CallOn
    <3> QED
      BY <2>2, <3>1, <3>2, <3>3, ThreadHandles
  <2> QED
    BY <2>1, <2>2
<1>7. ASSUME NEW u \in Threads, pc'[u] \in Asking
      PROVE  ~CloseSent(conn_id[u])'
  <2>0. /\ conn_id'[u] = conn_id[u] /\ conn_id[u] \in Conns
        /\ \/ pc[u] = "close_find" /\ conn_id[u] \in device_by_conn /\ u = t
           \/ pc[u] \in Asking
    <3>1. CASE u # t
      <4>1. conn_id'[u] = conn_id[u] /\ pc[u] \in Asking
        BY <1>1, <1>7, <3>1
      <4> QED
        BY <1>0, <4>1, CallHasConn DEF Asking, Unconnected
    <3>2. CASE u = t
      BY <1>0, <1>7, <3>2, ThreadLabels, CallHasConn DEF Asking, Unconnected
    <3> QED
      BY <3>1, <3>2
  <2>1. PICK c \in Conns : c = conn_id[u]
    BY <2>0
  <2>2. c # NoConn
    BY <2>1, Holders
  <2>3. ~CloseSent(c)
    <3>1. CASE pc[u] \in Asking
      BY <2>1, <3>1 DEF OneCallInv
    <3>2. CASE pc[u] = "close_find" /\ c \in device_by_conn
      <4>1. \A v \in Threads : conn_id[v] = c => v = u
        BY <2>1, <2>2 DEF OneCallInv
      <4>2. pc[u] \notin Asked
        BY <3>2 DEF Asked
      <4> QED
        BY <1>0, <3>2, <4>1, <4>2 DEF DeviceInv
    <3> QED
      BY <2>0, <2>1, <3>1, <3>2
  <2>4. ASSUME CloseSent(c)'
        PROVE  FALSE
    <3>1. c = conn_id[t] /\ pc'[t] = "close_disconnect"
      BY <1>0, <2>1, <2>3, <2>4, ThreadCloseSent
    <3>2. u = t
      BY <2>1, <2>2, <3>1 DEF OneCallInv
    <3> QED
      BY <1>7, <3>1, <3>2 DEF Asking
  <2> QED
    BY <2>0, <2>1, <2>4 DEF CloseSent, Told
<1>3. \A u \in Threads : conn_id'[t] # NoConn /\ conn_id'[u] = conn_id'[t] => u = t
  <2> SUFFICES ASSUME NEW u \in Threads, conn_id'[t] # NoConn, conn_id'[u] = conn_id'[t], u # t
               PROVE  FALSE
    OBVIOUS
  <2>1. conn_id[u] = conn_id'[t]
    BY <1>1
  <2>2. \A c \in Conns : ~OpenConnect(t, c) \/ conn_id[u] # c
    BY <1>0 DEF OpenConnect, UnusedInv, Unused
  <2>3. \A c \in Conns : ~CallOn(t, c, pc'[t]) \/ conn_id[u] # c
    BY DEF CallOn, Alone
  <2> QED
    BY <1>0, <2>1, <2>2, <2>3, ThreadConn DEF OneCallInv
<1>4. \A u \in Threads : pc'[t] \in Opening /\ pc'[u] \in Opening /\ serial'[u] = serial'[t] => u = t
  <2> SUFFICES ASSUME NEW u \in Threads, pc'[t] \in Opening, pc'[u] \in Opening,
                      serial'[u] = serial'[t], u # t
               PROVE  FALSE
    OBVIOUS
  <2>1. pc[u] \in Opening /\ serial[u] = serial'[t]
    BY <1>1
  <2>2. \A s \in Serials : CallOpen(t, s) => serial[u] # s
    BY <2>1 DEF CallOpen
  <2> QED
    BY <1>0, <2>1, <2>2, ThreadUses DEF OneCallInv
<1>5. ASSUME NEW u \in Threads, NEW v \in Threads, conn_id'[u] # NoConn, conn_id'[u] = conn_id'[v]
      PROVE  u = v
  BY <1>1, <1>3, <1>5 DEF OneCallInv
<1>6. ASSUME NEW u \in Threads, NEW v \in Threads, pc'[u] \in Opening, pc'[v] \in Opening,
             serial'[u] = serial'[v]
      PROVE  u = v
  BY <1>1, <1>4, <1>6 DEF OneCallInv
<1> QED
  BY <1>2, <1>5, <1>6, <1>7 DEF OneCallInv, Using

(* Such a program keeps its calls apart.                                   *)
THEOREM OneCallInvariance ==
  ASSUME OneCallPerDevice
  PROVE  Spec => []OneCallInv
<1>1. Init => OneCallInv
  BY DEF Init, ClientInit, OneCallInv, Asking, Opening
<1>2. IInv /\ OneCallInv /\ [Next]_vars => OneCallInv'
  <2> SUFFICES ASSUME IInv, OneCallInv, [Next]_vars PROVE OneCallInv'
    OBVIOUS
  <2>0. TypeOK /\ ConnInv
    BY DEF IInv
  <2>1. ASSUME UNCHANGED <<pc, conn_id, serial, handles>>,
               \A c \in Conns : CloseSent(c)' => CloseSent(c)
        PROVE  OneCallInv'
    <3>1. ASSUME NEW t \in Threads, pc[t] \in Asking
          PROVE  ~CloseSent(conn_id[t])'
      <4>1. conn_id[t] \in Conns
        BY <2>0, <3>1, CallHasConn DEF Asking, Unconnected
      <4>2. PICK c \in Conns : c = conn_id[t]
        BY <4>1
      <4> QED
        BY <2>1, <3>1, <4>2 DEF OneCallInv, CloseSent, Told
    <3> QED
      BY <2>1, <3>1 DEF OneCallInv, CloseSent, Told
  <2>2. CASE UNCHANGED vars
    BY <2>1, <2>2 DEF vars, clientVars, callVars, netVars, serverVars, CloseSent, Told
  <2>3. ASSUME NEW c \in Conns, CallbackStep(c) \/ LinkLost(c), UNCHANGED serverVars
        PROVE  OneCallInv'
    BY <2>0, <2>1, <2>3, CallbackFrame, CallbackCloseSent
  <2>4. ASSUME NEW c \in Conns, ServerStep(c)
        PROVE  OneCallInv'
    BY <2>0, <2>1, <2>4, ServerFrame, ServerCloseSent
  <2> QED
    BY <2>2, <2>3, <2>4, ThreadOneCall DEF Next, Finished
<1> QED
  BY <1>1, <1>2, Invariance, PTL DEF Spec

(* bindy_read, which has let go of global_mutex, copies from a Device that *)
(* is alive, unless an error of the controller has been reported.          *)
THEOREM ReadsAreSafe ==
  ASSUME OneCallPerDevice
  PROVE  Spec => []ReadsLiveDevice
<1>1. IInv /\ OneCallInv => ReadsLiveDevice
  BY DEF IInv, OneCallInv, HandleMeansDevice, ReadsLiveDevice
<1> QED
  BY <1>1, Invariance, OneCallInvariance, PTL

-----------------------------------------------------------------------------
(* ... and whose opens do not give up on an answer that is on its way. *)

(* The owner of a controller keeps it, unless the server is removing its   *)
(* device; and no step of the client takes it away.                        *)
LEMMA ServerKeeps ==
  ASSUME TypeOK, NEW c \in Conns, ServerStep(c), NEW d \in Conns,
         Keeps(d), session[d] # "closing"
  PROVE  Keeps(d)'
<1> SUFFICES ASSUME link[d] = "up" PROVE owner'[target[d]] = d
  BY ServerFrame DEF Keeps, Owns
<1>0. /\ owner \in [Serials -> Conns \cup {NoConn}] /\ target[c] \in Serials /\ target[d] \in Serials
      /\ owner[target[d]] = d /\ d # NoConn
  BY Holders DEF TypeOK, ClientTypeOK, Keeps, Owns
<1>1. CASE UNCHANGED owner
  BY <1>0, <1>1
<1>2. CASE Grant(c)
  BY <1>0, <1>2 DEF Grant
<1>3. CASE RemoveDevice(c) \/ PeerGone(c)
  <2>1. c # d
    BY <1>3 DEF RemoveDevice, PeerGone
  <2> QED
    BY <1>0, <1>3, <2>1 DEF RemoveDevice, PeerGone, GiveBack, Owns
<1> QED
  BY <1>1, <1>2, <1>3 DEF ServerStep, Serve, Accept, AnswerOpen, Refuse, ReceiveRaw, AnswerClose,
     WriteFails, ReadDevice, Forget, serverVars

(* The calls of the program leave the owners alone; a connection that      *)
(* comes up is one that nobody has known.                                  *)
LEMMA ThreadKeeps ==
  ASSUME TypeOK, UnusedInv, NEW t \in Threads, Call(t) \/ ThreadStep(t), UNCHANGED serverVars,
         NEW c \in Conns, Keeps(c), ~Unused(c)
  PROVE  Keeps(c)'
<1>1. ~OpenConnect(t, c)
  BY DEF OpenConnect, UnusedInv
<1> QED
  BY <1>1, ThreadLinks DEF Keeps, Owns, serverVars

(* So do the callbacks, and a connection that is lost cannot come back.    *)
LEMMA CallbackKeeps ==
  ASSUME TypeOK, NEW c \in Conns, CallbackStep(c) \/ LinkLost(c), UNCHANGED serverVars,
         NEW d \in Conns, Keeps(d)
  PROVE  Keeps(d)'
<1>1. link'[d] = "up" => link[d] = "up"
  BY CallbackFrame, CallbackKeepsToItsConn DEF LinkLost
<1> QED
  BY <1>1, CallbackFrame DEF Keeps, Owns, serverVars

(* What Answered says of the two queues and the callback.                  *)
LEMMA AnsweredSays ==
  ASSUME TypeOK, NEW c \in Conns, Answered(c)
  PROVE  ~AnswerDue(c)
<1>1. toServer[c] \in Seq(Requests) /\ toClient[c] \in Seq(Packets)
  BY DEF TypeOK, ClientTypeOK
<1>2. DOMAIN toServer[c] = 1 .. Len(toServer[c]) /\ DOMAIN toClient[c] = 1 .. Len(toClient[c])
  BY <1>1
<1> QED
  BY <1>2 DEF Answered, AnswerDue, Told, Has, Tells

(* A call that waits for its answer goes on waiting, or takes the answer.  *)
LEMMA ThreadWaits ==
  ASSUME TypeOK, NEW t \in Threads, Call(t) \/ ThreadStep(t),
         NEW u \in Threads, pc[u] = "open_finish"
  PROVE  \/ /\ pc'[u] = "open_finish"
            /\ conn_id'[u] = conn_id[u] /\ serial'[u] = serial[u]
         \/ u = t /\ FinishOpen(t) /\ (OpenSucceeds(t) \/ OpenFails(t))
<1>1. CASE u # t
  BY <1>1, ThreadMovesItself
<1>2. CASE u = t
  <2>1. ~Call(t)
    BY <1>2 DEF Call, CallOpen, CallWrite, CallRead, CallClose, CallOn
  <2> QED
    BY <1>2, <2>1 DEF ThreadStep, OpenReset, OpenConnectFails, OpenSend, OpenSendThrows,
       OpenConnect, OpenSucceeds, OpenFails, WriteFind, WriteSend, ReadFind, ReadLock,
       ReadFreed, ReadCopy, ReadBytes, CloseFind, CloseReturn, CloseRequest, CloseSend,
       CloseDisconnect, CloseErase, CloseErased
<1> QED
  BY <1>1, <1>2

(* A thread changes open_ok when it opens only, and only for its serial.   *)
LEMMA ThreadOpenOk ==
  ASSUME NEW t \in Threads, Call(t) \/ ThreadStep(t)
  PROVE  /\ open_ok' \subseteq open_ok
         /\ FinishOpen(t) => serial[t] \notin open_ok'
<1>1. CASE Call(t)
  BY <1>1 DEF Call, CallOpen, CallWrite, CallRead, CallClose, CallOn, FinishOpen
<1>2. CASE ThreadStep(t)
  BY <1>2 DEF ThreadStep, OpenReset, OpenConnectFails, OpenSend, OpenSendThrows,
     OpenConnect, OpenSucceeds, OpenFails, FinishOpen, WriteFind, WriteSend, ReadFind, ReadLock,
     ReadFreed, ReadCopy, ReadBytes, CloseFind, CloseReturn, CloseRequest, CloseSend,
     CloseDisconnect, CloseErase, CloseErased, Die
<1> QED
  BY <1>1, <1>2

(* Who opens has a connection with no close on its way.                    *)
LEMMA WaitsForAnswer ==
  ASSUME TypeOK, ConnInv, CallInv, NEW t \in Threads, pc[t] = "open_finish"
  PROVE  /\ conn_id[t] \in Conns
         /\ ConnectingOK(t)
         /\ ~Unused(conn_id[t])
         /\ session[conn_id[t]] # "closing"
<1>1. conn_id[t] \in Conns /\ ConnectingOK(t)
  BY CallHasConn DEF CallInv, Connecting, Unconnected
<1> QED
  BY <1>1 DEF ConnectingOK, CloseSent, Unused

(* The call that waits for an answer gets it, so nobody takes what         *)
(* open_ok says of it for the answer of another.                           *)
LEMMA ThreadOpenInv ==
  ASSUME TimeoutsSuffice, IInv, OneCallInv, OpenInv,
         NEW t \in Threads, Call(t) \/ ThreadStep(t), UNCHANGED serverVars
  PROVE  OpenInv'
<1>0. TypeOK /\ ConnInv /\ UnusedInv /\ CallInv
  BY DEF IInv
<1>1. ASSUME NEW c \in Conns, AnswerDue(c)'
      PROVE  \E u \in Threads : pc'[u] = "open_finish" /\ conn_id'[u] = c
  <2>1. CASE AnswerDue(c)
    <3>1. PICK u \in Threads : pc[u] = "open_finish" /\ conn_id[u] = c
      BY <2>1 DEF OpenInv
    <3>2. ~(u = t /\ OpenFails(t))
      BY <1>0, <2>1, <3>1, AnsweredSays DEF OpenFails
    <3>3. ~(u = t /\ OpenSucceeds(t))
      BY <2>1, <3>1 DEF OpenSucceeds, OpenInv, OneCallInv, Opening
    <3> QED
      BY <1>0, <3>1, <3>2, <3>3, ThreadWaits
  <2>2. CASE ~AnswerDue(c)
    <3>1. OpenSend(t) /\ c = conn_id[t]
      BY <1>0, <1>1, <2>2, ThreadAnswerDue
    <3>2. pc \in [Threads -> Labels]
      BY <1>0 DEF TypeOK, ClientTypeOK
    <3> QED
      BY <3>1, <3>2 DEF OpenSend, Goto
  <2> QED
    BY <2>1, <2>2
<1>2. ASSUME NEW s \in open_ok'
      PROVE  \E u \in Threads : /\ pc'[u] = "open_finish" /\ serial'[u] = s
                               /\ Keeps(conn_id[u])' /\ ~AnswerDue(conn_id[u])'
  <2>1. PICK u \in Threads : /\ pc[u] = "open_finish" /\ serial[u] = s
                             /\ Keeps(conn_id[u]) /\ ~AnswerDue(conn_id[u])
    BY <1>2, ThreadOpenOk DEF OpenInv
  <2>2. ~(u = t /\ FinishOpen(t))
    BY <1>2, <2>1, ThreadOpenOk
  <2>3. pc'[u] = "open_finish" /\ conn_id'[u] = conn_id[u] /\ serial'[u] = serial[u]
    BY <1>0, <2>1, <2>2, ThreadWaits
  <2>4. PICK c \in Conns : c = conn_id[u]
    BY <1>0, <2>1, WaitsForAnswer
  <2>5. Keeps(c)'
    BY <1>0, <2>1, <2>4, WaitsForAnswer, ThreadKeeps
  <2>6. ~AnswerDue(c)'
    <3>1. ~(OpenSend(t) /\ c = conn_id[t])
      BY <2>1, <2>4, Holders DEF OpenSend, OneCallInv
    <3> QED
      BY <1>0, <2>1, <2>4, <3>1, ThreadAnswerDue
  <2> QED
    BY <2>1, <2>3, <2>4, <2>5, <2>6 DEF Keeps, Owns, AnswerDue, Told
<1>3. ASSUME NEW c \in Conns, session'[c] = "granting" \/ Told(c, "granted")'
      PROVE  Keeps(c)'
  <2>1. session[c] = "granting" \/ Told(c, "granted")
    BY <1>0, <1>3, ThreadMovesItself DEF Told, serverVars
  <2>2. ~Unused(c)
    BY <2>1, HasNothing DEF Told, Unused, Idle
  <2> QED
    BY <1>0, <2>1, <2>2, ThreadKeeps DEF OpenInv
<1>4. ASSUME NEW c \in handles'
      PROVE  Keeps(c)'
  <2>1. CASE c \in handles
    <3>1. c \in Conns /\ Keeps(c) /\ ~Unused(c)
      BY <1>0, <2>1 DEF OpenInv, Unused, TypeOK, ClientTypeOK
    <3> QED
      BY <1>0, <3>1, ThreadKeeps
  <2>2. CASE OpenSucceeds(t) /\ c = conn_id[t]
    <3>1. pc[t] = "open_finish" /\ serial[t] \in open_ok
      BY <2>2 DEF OpenSucceeds, FinishOpen
    <3>2. PICK u \in Threads : pc[u] = "open_finish" /\ serial[u] = serial[t] /\ Keeps(conn_id[u])
      BY <3>1 DEF OpenInv
    <3>3. u = t
      BY <3>1, <3>2 DEF OneCallInv, Opening
    <3> QED
      BY <1>0, <2>2, <3>1, <3>2, <3>3, WaitsForAnswer, ThreadKeeps
  <2> QED
    BY <2>1, <2>2, ThreadHandles
<1> QED
  BY <1>1, <1>2, <1>3, <1>4 DEF OpenInv

(* An answer that grants makes open_ok true for the call that waits.       *)
LEMMA CallbackOpenInv ==
  ASSUME IInv, OpenInv, NEW c \in Conns, CallbackStep(c) \/ LinkLost(c), UNCHANGED serverVars
  PROVE  OpenInv'
<1>0. TypeOK /\ ConnInv /\ CallInv /\ UNCHANGED <<pc, conn_id, serial, handles>>
  BY CallbackFrame DEF IInv
<1>1. ASSUME NEW d \in Conns, AnswerDue(d)'
      PROVE  \E u \in Threads : pc'[u] = "open_finish" /\ conn_id'[u] = d
  BY <1>0, <1>1, CallbackAnswerDue DEF OpenInv
<1>2. ASSUME NEW s \in open_ok'
      PROVE  \E u \in Threads : /\ pc'[u] = "open_finish" /\ serial'[u] = s
                               /\ Keeps(conn_id[u])' /\ ~AnswerDue(conn_id[u])'
  <2>1. PICK u \in Threads : /\ pc[u] = "open_finish" /\ serial[u] = s /\ Keeps(conn_id[u])
                             /\ ~AnswerDue(conn_id[u])'
    <3>1. CASE s \in open_ok
      <4>1. PICK u \in Threads : /\ pc[u] = "open_finish" /\ serial[u] = s
                                 /\ Keeps(conn_id[u]) /\ ~AnswerDue(conn_id[u])
        BY <3>1 DEF OpenInv
      <4>2. PICK d \in Conns : d = conn_id[u]
        BY <1>0, <4>1, WaitsForAnswer
      <4>3. ~AnswerDue(d)'
        BY <1>0, <4>1, <4>2, CallbackAnswerDue
      <4> QED
        BY <1>0, <4>1, <4>2, <4>3 DEF AnswerDue, Told
    <3>2. CASE s \notin open_ok
      <4>1. OpenDeviceAnswer(c) /\ callback[c].kind = "granted" /\ s = target[c]
        BY <1>2, <3>2 DEF CallbackStep, Deliver, OpenDeviceAnswer, DeviceEnds, DataLost,
           DataFind, DataPut, LinkLost
      <4>2. Told(c, "granted") /\ AnswerDue(c)
        BY <4>1 DEF Told, AnswerDue
      <4>3. PICK u \in Threads : pc[u] = "open_finish" /\ conn_id[u] = c
        BY <4>2 DEF OpenInv
      <4>4. ~AnswerDue(c)'
        <5>1. /\ callback'[c] = Idle /\ UNCHANGED <<toServer, toClient>>
          BY <1>0, <4>1 DEF OpenDeviceAnswer, CallbackDone, netVars, TypeOK, ClientTypeOK
        <5>2. /\ ~Has(toServer[c], "open")
              /\ ~Tells(toClient[c], "granted") /\ ~Tells(toClient[c], "refused")
          BY <4>1, <4>2 DEF IInv, AnswerInv, Settled
        <5> QED
          BY <5>1, <5>2 DEF AnswerDue, Told, Idle
      <4>5. serial[u] = s /\ Keeps(c)
        BY <1>0, <4>1, <4>2, <4>3, WaitsForAnswer DEF OpenInv, ConnectingOK
      <4> QED
        BY <1>0, <4>3, <4>4, <4>5 DEF AnswerDue, Told
    <3> QED
      BY <3>1, <3>2
  <2>2. PICK d \in Conns : d = conn_id[u]
    BY <1>0, <2>1, WaitsForAnswer
  <2>3. Keeps(d)'
    BY <1>0, <2>1, <2>2, CallbackKeeps
  <2> QED
    BY <1>0, <2>1, <2>2, <2>3 DEF Keeps, Owns
<1>3. ASSUME NEW d \in Conns, session'[d] = "granting" \/ Told(d, "granted")'
      PROVE  Keeps(d)'
  BY <1>0, <1>3, CallbackTold, CallbackKeeps DEF OpenInv, Answers, serverVars
<1>4. ASSUME NEW d \in handles'
      PROVE  Keeps(d)'
  BY <1>0, <1>4, CallbackKeeps DEF OpenInv, TypeOK, ClientTypeOK
<1> QED
  BY <1>1, <1>2, <1>3, <1>4 DEF OpenInv

(* The server grants a controller to the connection that has asked for it, *)
(* and takes it away from nobody whose answer is on its way.               *)
LEMMA ServerOpenInv ==
  ASSUME IInv, OpenInv, NEW c \in Conns, ServerStep(c)
  PROVE  OpenInv'
<1>0. TypeOK /\ ConnInv /\ CallInv /\ UNCHANGED <<pc, conn_id, serial, handles, open_ok>>
  BY ServerFrame DEF IInv
<1>1. ASSUME NEW d \in Conns, AnswerDue(d)'
      PROVE  \E u \in Threads : pc'[u] = "open_finish" /\ conn_id'[u] = d
  BY <1>0, <1>1, ServerAnswerDue DEF OpenInv
<1>2. ASSUME NEW s \in open_ok'
      PROVE  \E u \in Threads : /\ pc'[u] = "open_finish" /\ serial'[u] = s
                               /\ Keeps(conn_id[u])' /\ ~AnswerDue(conn_id[u])'
  <2>1. PICK u \in Threads : /\ pc[u] = "open_finish" /\ serial[u] = s
                             /\ Keeps(conn_id[u]) /\ ~AnswerDue(conn_id[u])
    BY <1>0, <1>2 DEF OpenInv
  <2>2. PICK d \in Conns : d = conn_id[u]
    BY <1>0, <2>1, WaitsForAnswer
  <2>3. Keeps(d)' /\ ~AnswerDue(d)'
    BY <1>0, <2>1, <2>2, WaitsForAnswer, ServerKeeps, ServerAnswerDue
  <2> QED
    BY <1>0, <2>1, <2>2, <2>3 DEF Keeps, Owns, AnswerDue, Told
<1>3. ASSUME NEW d \in Conns, session'[d] = "granting" \/ Told(d, "granted")'
      PROVE  Keeps(d)'
  <2>1. CASE Told(d, "granted")
    <3>1. PICK u \in Threads : pc[u] = "open_finish" /\ conn_id[u] = d
      BY <2>1 DEF OpenInv, AnswerDue
    <3> QED
      BY <1>0, <2>1, <3>1, WaitsForAnswer, ServerKeeps DEF OpenInv
  <2>2. CASE session[d] = "granting"
    BY <1>0, <2>2, ServerKeeps DEF OpenInv
  <2>3. CASE ~Told(d, "granted") /\ Told(d, "granted")'
    <3>1. d = c /\ AnswerOpen(c)
      BY <1>0, <2>3, ServerTold DEF Answers
    <3> QED
      BY <2>2, <3>1 DEF AnswerOpen
  <2>4. CASE session[d] # "granting" /\ session'[d] = "granting"
    <3>1. session \in [Conns -> {"new", "open", "granting", "closing", "over"}]
      BY <1>0 DEF TypeOK
    <3>2. d = c /\ Grant(c)
      BY <2>4, <3>1 DEF ServerStep, Serve, Accept, Grant, AnswerOpen, Refuse, ReceiveRaw,
         AnswerClose, RemoveDevice, WriteFails, ReadDevice, PeerGone, Forget, serverVars
    <3>3. owner \in [Serials -> Conns \cup {NoConn}] /\ target[c] \in Serials /\ target' = target
      BY <1>0, ServerFrame DEF TypeOK, ClientTypeOK
    <3> QED
      BY <3>2, <3>3 DEF Grant, Keeps, Owns
  <2> QED
    BY <1>3, <2>1, <2>2, <2>3, <2>4
<1>4. ASSUME NEW d \in handles'
      PROVE  Keeps(d)'
  <2>1. d \in Conns /\ Keeps(d) /\ session[d] # "closing"
    BY <1>0, <1>4 DEF OpenInv, IInv, HandleInv, CloseSent, TypeOK, ClientTypeOK
  <2> QED
    BY <1>0, <2>1, ServerKeeps
<1> QED
  BY <1>1, <1>2, <1>3, <1>4 DEF OpenInv

(* What open_ok says is said of the call that waits for it, and who has a  *)
(* handle has the controller.                                              *)
THEOREM OpenInvariance ==
  ASSUME OneCallPerDevice, TimeoutsSuffice
  PROVE  Spec => []OpenInv
<1>1. Init => OpenInv
  <2> SUFFICES ASSUME Init PROVE OpenInv
    OBVIOUS
  <2>1. /\ open_ok = {} /\ handles = {}
        /\ \A c \in Conns : /\ toServer[c] = <<>> /\ toClient[c] = <<>>
                            /\ callback[c].kind = "idle" /\ session[c] = "new"
    BY DEF Init, ClientInit, Idle
  <2>2. \A c \in Conns : ~AnswerDue(c) /\ ~Told(c, "granted")
    BY <2>1, HasNothing DEF AnswerDue, Told
  <2> QED
    BY <2>1, <2>2 DEF OpenInv
<1>2. IInv /\ OneCallInv /\ OpenInv /\ [Next]_vars => OpenInv'
  <2> SUFFICES ASSUME IInv, OneCallInv, OpenInv, [Next]_vars PROVE OpenInv'
    OBVIOUS
  <2>1. CASE UNCHANGED vars
    BY <2>1 DEF vars, clientVars, callVars, netVars, serverVars, OpenInv, AnswerDue, Told,
       Keeps, Owns
  <2>2. CASE Next
    BY <2>1, <2>2, ThreadOpenInv, CallbackOpenInv, ServerOpenInv DEF Next, Finished
  <2> QED
    BY <2>1, <2>2
<1> QED
  BY <1>1, <1>2, Invariance, OneCallInvariance, PTL DEF Spec

(* A Device of the client stands for a controller that the server has      *)
(* given to its connection.  The two halves need the two assumptions: an   *)
(* answer is kept by serial, so two opens of a controller, or an answer    *)
(* that comes after its call has given up, would be taken for another.     *)
THEOREM DevicesAreOwned ==
  ASSUME OneCallPerDevice, TimeoutsSuffice
  PROVE  Spec => []DeviceMeansOwner
<1>1. IInv /\ OpenInv => DeviceMeansOwner
  BY DEF IInv, DeviceInv, OpenInv, Keeps, Owns, DeviceMeansOwner
<1> QED
  BY <1>1, Invariance, OpenInvariance, PTL

-----------------------------------------------------------------------------
(* The order of requests. *)

(* "close" is the last packet of a queue, if it is in it at all.           *)
CloseLast(queue) == \A i \in 1 .. Len(queue) : queue[i] = "close" => i = Len(queue)

(* It stays so when something is added to a queue without it, and when the *)
(* first packet is taken; a queue that begins with it holds nothing else.  *)
LEMMA CloseLastFacts ==
  ASSUME NEW q \in Seq(Requests), NEW packet \in Requests
  PROVE  /\ ~Has(q, "close") => CloseLast(Append(q, packet))
         /\ q # <<>> /\ CloseLast(q) => CloseLast(Tail(q))
         /\ q # <<>> /\ CloseLast(q) /\ Head(q) = "close" => Tail(q) = <<>>
<1>1. ~Has(q, "close") => CloseLast(Append(q, packet))
  BY DEF Has, CloseLast
<1>2. ASSUME q # <<>>, CloseLast(q)
      PROVE  CloseLast(Tail(q)) /\ (Head(q) = "close" => Tail(q) = <<>>)
  <2>1. PICK n \in Nat : n = Len(q) /\ n # 0
    BY <1>2
  <2>2. Tail(q) \in Seq(Requests) /\ Len(Tail(q)) = n - 1 /\ Head(q) = q[1]
    BY <1>2, <2>1
  <2>3. \A i \in 1 .. n - 1 : Tail(q)[i] = q[i + 1] /\ i + 1 \in 1 .. n
    BY <1>2, <2>1
  <2>4. CloseLast(Tail(q))
    BY <1>2, <2>1, <2>2, <2>3 DEF CloseLast
  <2>5. Head(q) = "close" => n = 1
    BY <1>2, <2>1, <2>2 DEF CloseLast
  <2> QED
    BY <2>1, <2>2, <2>4, <2>5, EmptySeq
<1> QED
  BY <1>1, <1>2

(* No request follows a close, and RawData is sent by who has a handle.    *)
LEMMA ThreadRawInv ==
  ASSUME IInv, OneCallInv, OpenInv, RawInv,
         NEW t \in Threads, Call(t) \/ ThreadStep(t), UNCHANGED serverVars
  PROVE  RawInv'
<1>0. TypeOK /\ ConnInv /\ UnusedInv /\ session' = session
  BY DEF IInv, serverVars
<1> SUFFICES ASSUME NEW c \in Conns
             PROVE  /\ Has(toServer'[c], "raw") => Keeps(c)'
                    /\ CloseLast(toServer'[c])
                    /\ session[c] = "closing" => toServer'[c] = <<>>
  BY <1>0 DEF RawInv, CloseLast
<1>1. /\ toServer[c] \in Seq(Requests)
      /\ Has(toServer[c], "raw") => Keeps(c)
      /\ CloseLast(toServer[c])
      /\ session[c] = "closing" => toServer[c] = <<>>
  BY <1>0 DEF RawInv, CloseLast, TypeOK, ClientTypeOK
<1>2. CASE toServer'[c] = toServer[c]
  <2>1. Has(toServer[c], "raw") => ~Unused(c)
    BY HasNothing DEF Unused
  <2> QED
    BY <1>0, <1>1, <1>2, <2>1, ThreadKeeps
<1>3. CASE toServer'[c] # toServer[c]
  <2>1. c = conn_id[t]
    BY <1>0, <1>3, ThreadSends
  <2>2. PICK packet \in Requests :
               /\ toServer'[c] = Append(toServer[c], packet)
               /\ \/ OpenSend(t) /\ packet = "open"
                  \/ WriteSend(t) /\ packet = "raw"
                  \/ CloseSend(t) /\ packet = "close"
    BY <1>0, <1>3, ThreadSends
  <2>3. ~CloseSent(c) /\ (packet = "raw" => Keeps(c))
    <3>1. CASE OpenSend(t) /\ packet = "open"
      BY <2>1, <3>1 DEF OpenSend, IInv, CallInv, ConnectingOK, Connecting
    <3>2. CASE WriteSend(t)
      <4>1. c \in handles
        BY <2>1, <3>2 DEF WriteSend, OneCallInv
      <4> QED
        BY <4>1 DEF IInv, HandleInv, OpenInv
    <3>3. CASE CloseSend(t) /\ packet = "close"
      BY <2>1, <3>3 DEF CloseSend, OneCallInv, Asking
    <3> QED
      BY <2>2, <3>1, <3>2, <3>3
  <2>4. ~Unused(c)
    BY <2>1 DEF Unused
  <2>5. Has(toServer'[c], "raw") => Keeps(c)'
    BY <1>0, <1>1, <2>2, <2>3, <2>4, HasAppend, ThreadKeeps
  <2> QED
    BY <1>1, <2>2, <2>3, <2>5, CloseLastFacts DEF CloseSent
<1> QED
  BY <1>2, <1>3

(* A callback leaves the requests alone.                                   *)
LEMMA CallbackRawInv ==
  ASSUME IInv, RawInv, NEW c \in Conns, CallbackStep(c) \/ LinkLost(c), UNCHANGED serverVars
  PROVE  RawInv'
<1>1. toServer' = toServer /\ session' = session
  BY CallbackFrame DEF serverVars
<1>2. ASSUME NEW d \in Conns, Keeps(d)
      PROVE  Keeps(d)'
  BY <1>2, CallbackKeeps DEF IInv
<1> QED
  BY <1>1, <1>2 DEF RawInv

(* The server takes the controller from a connection when it has served    *)
(* all there is of its requests.                                           *)
LEMMA ServerRawInv ==
  ASSUME IInv, RawInv, NEW c \in Conns, ServerStep(c)
  PROVE  RawInv'
<1>0. TypeOK
  BY DEF IInv
<1> SUFFICES ASSUME NEW d \in Conns
             PROVE  /\ Has(toServer'[d], "raw") => Keeps(d)'
                    /\ CloseLast(toServer'[d])
                    /\ session'[d] = "closing" => toServer'[d] = <<>>
  BY DEF RawInv, CloseLast
<1>1. /\ toServer[d] \in Seq(Requests)
      /\ Has(toServer[d], "raw") => Keeps(d)
      /\ CloseLast(toServer[d])
      /\ session[d] = "closing" => toServer[d] = <<>>
  BY <1>0 DEF RawInv, CloseLast, TypeOK, ClientTypeOK
<1>2. Has(toServer'[d], "raw") => Keeps(d)'
  BY <1>0, <1>1, ServerHas, ServerKeeps, HasNothing
<1>3. CloseLast(toServer'[d])
  <2>1. CASE toServer'[d] = toServer[d]
    BY <1>1, <2>1
  <2>2. CASE toServer'[d] = <<>>
    BY <2>2 DEF CloseLast
  <2>3. CASE toServer[d] # <<>> /\ toServer'[d] = Tail(toServer[d])
    <3>1. PICK packet \in Requests : TRUE
      BY DEF Requests
    <3> QED
      BY <1>1, <2>3, <3>1, CloseLastFacts
  <2> QED
    BY <1>0, <2>1, <2>2, <2>3, ServerTakes
<1>4. session'[d] = "closing" => toServer'[d] = <<>>
  <2>1. CASE session[d] = "closing"
    BY <1>0, <1>1, <2>1, ServerTakes
  <2>2. CASE d = c /\ AnswerClose(c)
    <3>1. toServer'[c] = Tail(toServer[c])
      BY <1>0, <2>2 DEF AnswerClose, Taken, TypeOK, ClientTypeOK
    <3> QED
      BY <1>1, <2>2, <3>1, CloseLastFacts DEF AnswerClose, Serves, IsNext
  <2>3. CASE session'[d] # "closing"
    BY <2>3
  <2>4. ~AnswerClose(c) \/ d # c => session'[d] = session[d] \/ session'[d] # "closing"
    BY <1>0 DEF TypeOK, ServerStep, Serve, Accept, Grant, AnswerOpen, Refuse, ReceiveRaw, AnswerClose,
       RemoveDevice, PeerGone, Forget, WriteFails, ReadDevice, serverVars
  <2> QED
    BY <2>1, <2>2, <2>3, <2>4
<1> QED
  BY <1>2, <1>3, <1>4

(* Nothing is asked of a controller after it has been asked to be closed.  *)
THEOREM RawInvariance ==
  ASSUME OneCallPerDevice, TimeoutsSuffice
  PROVE  Spec => []RawInv
<1>1. Init => RawInv
  BY HasNothing DEF Init, ClientInit, RawInv
<1>2. IInv /\ OneCallInv /\ OpenInv /\ RawInv /\ [Next]_vars => RawInv'
  <2> SUFFICES ASSUME IInv, OneCallInv, OpenInv, RawInv, [Next]_vars PROVE RawInv'
    OBVIOUS
  <2>1. CASE UNCHANGED vars
    BY <2>1 DEF vars, clientVars, netVars, serverVars, RawInv, Keeps, Owns
  <2>2. CASE Next
    BY <2>1, <2>2, ThreadRawInv, CallbackRawInv, ServerRawInv DEF Next, Finished
  <2> QED
    BY <2>1, <2>2
<1> QED
  BY <1>1, <1>2, Invariance, OneCallInvariance, OpenInvariance, PTL DEF Spec

(* callback_data of the server never throws because of such a client: the  *)
(* RawData it is about to handle is for a controller of the connection.    *)
THEOREM RawIsForOwner ==
  ASSUME OneCallPerDevice, TimeoutsSuffice
  PROVE  Spec => []RawReachesOwner
<1>1. IInv /\ RawInv => RawReachesOwner
  <2> SUFFICES ASSUME IInv, RawInv, NEW c \in Conns, link[c] = "up", Serves(c, "raw")
               PROVE  Owns(c)
    BY DEF RawReachesOwner
  <2>1. toServer[c] \in Seq(Requests)
    BY DEF IInv, TypeOK, ClientTypeOK
  <2>2. Has(toServer[c], "raw")
    BY <2>1, HasTail DEF Serves, IsNext
  <2> QED
    BY <2>2 DEF RawInv, Keeps
<1> QED
  BY <1>1, Invariance, RawInvariance, PTL

-----------------------------------------------------------------------------
(* Who waits for whom. *)

(* What a call does to the mutex of its Device: it locks it to copy bytes, *)
(* unlocks it when it has copied them, deletes it, or leaves it alone.     *)
LEMMA ThreadLocks ==
  ASSUME TypeOK, NEW t \in Threads, Call(t) \/ ThreadStep(t)
  PROVE  LET c == conn_id[t]
         IN  \/ UNCHANGED <<pc, conn_id, mutex, device_by_conn>>
             \/ /\ UNCHANGED mutex /\ device_by_conn \subseteq device_by_conn'
                /\ pc'[t] # "read_copy"
                /\ pc[t] = "read_copy" => c \notin device_by_conn
             \/ /\ pc[t] = "read_lock" /\ pc'[t] = "read_copy" /\ mutex[c] = NoOne
                /\ mutex' = [mutex EXCEPT ![c] = t]
                /\ UNCHANGED <<conn_id, device_by_conn>>
             \/ /\ pc[t] = "read_copy" /\ pc'[t] = "idle"
                /\ mutex' = [mutex EXCEPT ![c] = NoOne]
                /\ UNCHANGED device_by_conn
             \/ /\ pc[t] = "close_erase" /\ pc'[t] = "idle"
                /\ mutex' = [mutex EXCEPT ![c] = NoOne]
                /\ device_by_conn' = device_by_conn \ {c}
<1> USE DEF Goto, Return
<1>0. pc \in [Threads -> Labels] /\ conn_id \in [Threads -> Conns \cup {NoConn}]
  BY DEF TypeOK, ClientTypeOK
<1>1. CASE Call(t)
  BY <1>0, <1>1 DEF Call, CallOpen, CallWrite, CallRead, CallClose, CallOn, objVars
<1>2. CASE OpenReset(t) \/ OpenSend(t) \/ \E d \in Conns : OpenConnect(t, d)
  BY <1>0, <1>2 DEF OpenReset, OpenSend, OpenConnect, objVars
<1>3. CASE OpenConnectFails(t) \/ OpenSendThrows(t) \/ OpenSucceeds(t) \/ OpenFails(t)
  BY <1>0, <1>3 DEF OpenConnectFails, OpenSendThrows, OpenSucceeds, OpenFails, FinishOpen, objVars
<1>4. CASE WriteFind(t) \/ WriteSend(t) \/ ReadFind(t)
  BY <1>0, <1>4 DEF WriteFind, WriteSend, ReadFind, objVars
<1>5. CASE ReadLock(t)
  BY <1>0, <1>5 DEF ReadLock
<1>6. CASE \E k \in 0 .. Len(buffer[conn_id[t]]) : ReadCopy(t, k)
  BY <1>0, <1>6 DEF ReadCopy, ReadBytes
<1>7. CASE ReadFreed(t) \/ CloseErased(t)
  BY <1>0, <1>7 DEF ReadFreed, CloseErased, Die, callVars, objVars
<1>8. CASE CloseFind(t) \/ CloseReturn(t) \/ CloseRequest(t)
  BY <1>0, <1>8 DEF CloseFind, CloseReturn, CloseRequest, Die, callVars, objVars
<1>9. CASE CloseSend(t) \/ CloseDisconnect(t)
  BY <1>0, <1>9 DEF CloseSend, CloseDisconnect, objVars
<1>10. CASE CloseErase(t)
  BY <1>0, <1>10 DEF CloseErase, DeleteDevice
<1> QED
  BY <1>1, <1>2, <1>3, <1>4, <1>5, <1>6, <1>7, <1>8, <1>9, <1>10 DEF ThreadStep

(* A call keeps the mutexes of the Devices with those who copy.            *)
LEMMA ThreadReaderInv ==
  ASSUME IInv, ReaderInv, NEW t \in Threads, Call(t) \/ ThreadStep(t)
  PROVE  ReaderInv'
<1>0. /\ TypeOK /\ GlobalMutexInside /\ CallInv
      /\ mutex \in [Conns -> Threads \cup {NoOne}] /\ device_by_conn \subseteq Conns
  BY DEF IInv, TypeOK, ClientTypeOK
<1>1. \A u \in Threads \ {t} : pc'[u] = pc[u] /\ conn_id'[u] = conn_id[u]
  BY <1>0, ThreadMovesItself
<1> DEFINE c == conn_id[t]
<1>2. CASE UNCHANGED <<pc, conn_id, mutex, device_by_conn>>
  BY <1>2 DEF ReaderInv
<1>3. CASE /\ UNCHANGED mutex /\ device_by_conn \subseteq device_by_conn'
           /\ pc'[t] # "read_copy"
           /\ pc[t] = "read_copy" => c \notin device_by_conn
  <2>1. ASSUME NEW u \in Threads, pc'[u] = "read_copy", conn_id'[u] \in device_by_conn'
        PROVE  mutex'[conn_id'[u]] = u
    <3>1. u # t /\ pc[u] = "read_copy" /\ conn_id'[u] = conn_id[u]
      BY <1>1, <1>3, <2>1
    <3>2. CASE conn_id[u] \in device_by_conn
      BY <1>3, <3>1, <3>2 DEF ReaderInv
    <3>3. CASE conn_id[u] \notin device_by_conn
      <4>1. OpenSucceeds(t) /\ conn_id[u] = conn_id[t]
        BY <2>1, <3>1, <3>3, ThreadDevices
      <4> QED
        BY <1>0, <3>1, <4>1 DEF OpenSucceeds, FinishOpen, CallInv, Connecting, ConnectingOK
    <3> QED
      BY <3>2, <3>3
  <2>2. \A d \in Conns, u \in Threads : mutex'[d] = u =>
          d \in device_by_conn' /\ pc'[u] = "read_copy" /\ conn_id'[u] = d
    BY <1>1, <1>3 DEF ReaderInv
  <2> QED
    BY <2>1, <2>2 DEF ReaderInv
<1>4. CASE /\ pc[t] = "read_lock" /\ pc'[t] = "read_copy" /\ mutex[c] = NoOne
           /\ mutex' = [mutex EXCEPT ![c] = t]
           /\ UNCHANGED <<conn_id, device_by_conn>>
  <2>1. c \in device_by_conn
    BY <1>0, <1>4 DEF GlobalMutexInside
  <2> QED
    BY <1>0, <1>1, <1>4, <2>1, Holders DEF ReaderInv
<1>5. CASE /\ pc[t] = "read_copy" /\ pc'[t] = "idle"
           /\ mutex' = [mutex EXCEPT ![c] = NoOne]
           /\ UNCHANGED device_by_conn
  BY <1>0, <1>1, <1>5, Holders DEF ReaderInv
<1>6. CASE /\ pc[t] = "close_erase" /\ pc'[t] = "idle"
           /\ mutex' = [mutex EXCEPT ![c] = NoOne]
           /\ device_by_conn' = device_by_conn \ {c}
  BY <1>0, <1>1, <1>6, Holders DEF ReaderInv
<1> QED
  BY <1>0, <1>2, <1>3, <1>4, <1>5, <1>6, ThreadLocks

(* A callback locks no Device between two steps; it may delete one.        *)
LEMMA CallbackReaderInv ==
  ASSUME IInv, ReaderInv, NEW c \in Conns, CallbackStep(c) \/ LinkLost(c)
  PROVE  ReaderInv'
<1>0. mutex \in [Conns -> Threads \cup {NoOne}] /\ device_by_conn \subseteq Conns
  BY DEF IInv, TypeOK, ClientTypeOK
<1>1. UNCHANGED <<pc, conn_id>>
  BY CallbackFrame
<1>2. CASE UNCHANGED <<mutex, device_by_conn>>
  BY <1>1, <1>2 DEF ReaderInv
<1>3. CASE DeleteDevice(c)
  BY <1>0, <1>1, <1>3, Holders DEF ReaderInv, DeleteDevice
<1>4. CASE DeviceEnds(c)
  BY <1>2, <1>3, <1>4 DEF DeviceEnds, objVars
<1>5. CASE Deliver(c) \/ OpenDeviceAnswer(c) \/ DataLost(c) \/ DataFind(c) \/ DataPut(c) \/ LinkLost(c)
  BY <1>2, <1>5 DEF Deliver, OpenDeviceAnswer, DataLost, DataFind, DataPut, LinkLost, objVars
<1> QED
  BY <1>4, <1>5 DEF CallbackStep

(* It holds in every reachable state, whatever the program does.           *)
LEMMA ReaderInvariance == Spec => []ReaderInv
<1>1. Init => ReaderInv
  BY Holders DEF Init, ClientInit, ReaderInv
<1>2. IInv /\ ReaderInv /\ [Next]_vars => ReaderInv'
  <2> SUFFICES ASSUME IInv, ReaderInv, [Next]_vars PROVE ReaderInv'
    OBVIOUS
  <2>1. CASE UNCHANGED <<pc, conn_id, mutex, device_by_conn>>
    BY <2>1 DEF ReaderInv
  <2>2. CASE UNCHANGED vars
    BY <2>1, <2>2 DEF vars, clientVars, callVars, objVars
  <2> QED
    BY <2>1, <2>2, ThreadReaderInv, CallbackReaderInv, ServerFrame DEF Next, Finished
<1> QED
  BY <1>1, <1>2, Invariance, PTL DEF Spec

(* Two threads of a program that shares a handle never copy from the       *)
(* buffer of its Device together.                                          *)
THEOREM ReadersNeverMeet == Spec => []ReadersExclude
<1>1. ReaderInv => ReadersExclude
  BY DEF ReaderInv, ReadersExclude
<1> QED
  BY <1>1, ReaderInvariance, PTL

(* Nobody in the client waits in a circle, although callback_data and      *)
(* bindy_read wait for the mutex of a Device while they hold global_mutex. *)
THEOREM NobodyWaitsInACircle == Spec => []WaitsEnd
<1>1. IInv /\ ReaderInv => WaitsEnd
  <2> SUFFICES ASSUME IInv, ReaderInv PROVE WaitsEnd
    OBVIOUS
  <2>1. ASSUME NEW c \in Conns, mutex[c] # NoOne
        PROVE  CopyRuns(c)
    BY <2>1 DEF IInv, TypeOK, ClientTypeOK, ReaderInv, CopyRuns, CallRuns, CallWaits, NeedsGlobal
  <2>2. ASSUME global_mutex # NoOne
        PROVE  HolderGoesOn
    <3>1. CASE global_mutex \in Threads
      <4>1. PICK t \in Threads : global_mutex = t /\ pc[t] = "read_lock" /\ conn_id[t] \in Conns
        BY <3>1 DEF IInv, GlobalMutexInside, TypeOK, ClientTypeOK
      <4>2. CallRuns(t) \/ CopyRuns(conn_id[t])
        BY <2>1, <4>1 DEF CallRuns, CallWaits, NeedsGlobal
      <4> QED
        BY <4>1, <4>2 DEF HolderGoesOn
    <3>2. CASE global_mutex \in Conns
      <4>1. PICK c \in Conns : global_mutex = c /\ callback[c].kind = "put"
        BY <3>2 DEF IInv, GlobalMutexInside
      <4>2. CallbackRuns(c) \/ CopyRuns(c)
        BY <2>1, <4>1 DEF CallbackRuns, CallbackWaits, Answers
      <4> QED
        BY <4>1, <4>2 DEF HolderGoesOn
    <3> QED
      BY <2>2, <3>1, <3>2 DEF IInv, TypeOK, ClientTypeOK
  <2>3. ASSUME NEW t \in Threads, CallWaits(t)
        PROVE  IF pc[t] = "read_lock" THEN CopyRuns(conn_id[t]) ELSE HolderGoesOn
    <3>1. pc[t] = "read_lock" => conn_id[t] \in Conns
      BY DEF IInv, GlobalMutexInside, TypeOK, ClientTypeOK
    <3> QED
      BY <2>1, <2>2, <2>3, <3>1 DEF CallWaits, NeedsGlobal
  <2>4. ASSUME NEW c \in Conns, CallbackWaits(c)
        PROVE  IF callback[c].kind = "put" THEN CopyRuns(c) ELSE HolderGoesOn
    BY <2>1, <2>2, <2>4 DEF CallbackWaits, Answers
  <2> QED
    BY <2>3, <2>4 DEF WaitsEnd
<1> QED
  BY <1>1, Invariance, ReaderInvariance, PTL
=============================================================================
