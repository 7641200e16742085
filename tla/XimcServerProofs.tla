-------------------------- MODULE XimcServerProofs --------------------------
(***************************************************************************)
(* Theorems about XimcServer, for every value of its constants.            *)
(***************************************************************************)
EXTENDS XimcServerInv, TLAPS, SequenceTheorems

-----------------------------------------------------------------------------
(* Type correctness. *)

(* A step of main keeps the types.                                         *)
LEMMA MainTypes ==
  ASSUME TypeOK, MainStep
  PROVE  TypeOK'
BY DEF TypeOK, MainStep, Listen, SetHandler, SetDiscNotify, callVars, mapVars, bufVars,
   devVars

(* A step of a peer or of the library keeps the types.                     *)
LEMMA PeerTypes ==
  ASSUME TypeOK, NEW c \in Conns, PeerStep(c) \/ DiscBegin(c)
  PROVE  TypeOK'
<1>1. Data(c) \in Handlers /\ Disc(c) \in Handlers
  BY DEF Data, Disc, Handlers
<1>2. ASSUME NEW s \in Serials, NEW l \in {"find", "add", "close_answer"}, Dispatch(c, s, l)
      PROVE  TypeOK'
  BY <1>1, <1>2 DEF TypeOK, Dispatch, Goto, Labels, RawAccess, procVars, mapVars, bufVars,
     devVars
<1>3. CASE \E s \in Serials : ReceiveRawData(c, s) \/ ReceiveOpen(c, s) \/ ReceiveClose(c, s)
  BY <1>2, <1>3 DEF ReceiveRawData, ReceiveOpen, ReceiveClose
<1>4. CASE Connect(c) \/ SocketClosed(c)
  BY <1>4 DEF TypeOK, Connect, SocketClosed, callVars, mapVars, bufVars, devVars
<1>5. CASE DiscBegin(c)
  BY <1>1, <1>5 DEF TypeOK, DiscBegin, Goto, Labels, procVars, mapVars, bufVars, devVars
<1> QED
  BY <1>3, <1>4, <1>5 DEF PeerStep

(* A step of a callback keeps the types.                                   *)
LEMMA HandlerTypes ==
  ASSUME TypeOK, NEW h \in Handlers, HandlerStep(h)
  PROVE  TypeOK'
<1> USE DEF TypeOK, Goto
<1>1. Dev(h) \in Devices /\ h[2] \in Conns /\ serial[h] \in Serials
  BY DEF Dev, Devices, Handlers
<1>2. CASE FindDevice(h) \/ RawLock(h)
  BY <1>1, <1>2 DEF FindDevice, RawLock, Labels, RawAccess, procVars, mapVars, bufVars,
     devVars
<1>3. ASSUME NEW k \in 0 .. MaxChunk, RawPut(h, k)
      PROVE  TypeOK'
  <2>1. [i \in 1 .. k |-> accepted[Dev(h)] + i] \in Seq(Nat)
    <3>1. k \in Nat /\ [i \in 1 .. k |-> accepted[Dev(h)] + i] \in [1 .. k -> Nat]
      BY <1>1, ServerAssumption DEF ServerAssumption
    <3> QED
      BY <3>1
  <2>2. net_to_dev_buffer' \in [Devices -> Seq(Nat)] /\ accepted' \in [Devices -> Nat]
    BY <1>1, <1>3, <2>1, ConcatProperties DEF RawPut
  <2> QED
    BY <1>1, <1>3, <2>2 DEF RawPut, Labels, procVars, mapVars
<1>4. CASE RawFreed(h)
  BY <1>4 DEF RawFreed, Die, Labels, procVars, callVars, mapVars, bufVars, devVars
<1>5. CASE AddExisting(h) \/ AddFails(h) \/ OpenAnswer(h)
  BY <1>1, <1>5 DEF AddExisting, AddFails, OpenAnswer, Labels, procVars, mapVars, bufVars,
     devVars
<1>6. CASE AddOpens(h)
  BY <1>1, <1>6 DEF AddOpens, LockNode, ThreadStart, Labels, InSupermap, Constructing,
     ReaderLabels,
                    procVars, bufVars
<1>7. CASE CtorMutex(h)
  BY <1>1, <1>7, EmptySeq DEF CtorMutex, Labels, InSupermap, Constructing, procVars, mapVars
<1>8. CASE CtorWriter(h)
  BY <1>1, <1>8 DEF CtorWriter, ThreadStart, Labels, InSupermap, Constructing,
                    WriterLabels, procVars, mapVars, bufVars
<1>14. CASE CtorDone(h)
  BY <1>1, <1>14 DEF CtorDone, EnterMap, UnlockBuffer, Labels, procVars, bufVars
<1>9. CASE CloseAnswer(h) \/ RemoveDevice(h) \/ JoinReader(h)
  BY <1>1, <1>9 DEF CloseAnswer, RemoveDevice, JoinReader, Labels, InSupermap, Destroying,
                    procVars, mapVars, bufVars, devVars
<1>10. CASE JoinWriter(h)
  BY <1>1, <1>10, EmptySeq DEF JoinWriter, DeleteDevice, CloseNode, Labels, InSupermap,
     procVars
<1>11. CASE RemoveConnection(h) \/ RemoveConnectionEnd(h)
  BY <1>1, <1>11 DEF RemoveConnection, RemoveConnectionEnd, LeaveLoop, Labels, InSupermap,
                     procVars, mapVars, bufVars, devVars
<1>12. ASSUME NEW s \in Serials, DeleteNext(h, s)
       PROVE  TypeOK'
  <2>1. <<h[2], s>> \in Devices
    BY <1>1 DEF Devices
  <2> QED
    BY <1>12, <2>1 DEF DeleteNext, Labels, InSupermap, Destroying, procVars, mapVars,
       bufVars
<1>13. CASE AdvanceFreedIterator(h)
  BY <1>13 DEF AdvanceFreedIterator, Die, Labels, InSupermap,
               procVars, callVars, mapVars, bufVars, devVars
<1> QED
  BY <1>2, <1>3, <1>4, <1>5, <1>6, <1>7, <1>8, <1>9, <1>10, <1>11, <1>12, <1>13, <1>14
     DEF HandlerStep

(* A step of a device thread keeps the types.                              *)
LEMMA ThreadTypes ==
  ASSUME TypeOK, NEW d \in Devices, WriterStep(d) \/ ReaderStep(d)
  PROVE  TypeOK'
<1> USE DEF TypeOK, WriterAt, UnlockBuffer
<1>1. CASE WriterCheck(d) \/ WriterLock(d) \/ WriteNothing(d) \/ WriteError(d) \/ ErrorNotification(d)
  BY <1>1 DEF WriterCheck, WriterLock, WriteNothing, WriteError, ErrorNotification,
              WriterLabels, procVars, callVars, mapVars, bufVars
<1>2. ASSUME NEW k \in 1 .. Len(net_to_dev_buffer[d]), WriteSome(d, k)
      PROVE  TypeOK'
  <2>1. net_to_dev_buffer[d] \in Seq(Nat)
    OBVIOUS
  <2>2. k \in Nat /\ net_to_dev_buffer[d][k] \in Nat
    BY <2>1
  <2> QED
    BY <1>2, <2>2 DEF WriteSome, WriterLabels, procVars, callVars, mapVars
<1>3. CASE EraseWritten(d)
  <2>1. net_to_dev_buffer[d] \in Seq(Nat) /\ wrote[d] \in Nat
    OBVIOUS
  <2>2. SubSeq(net_to_dev_buffer[d], wrote[d] + 1, Len(net_to_dev_buffer[d])) \in Seq(Nat)
    BY <2>1, SubSeqProperties
  <2> QED
    BY <1>3, <2>2 DEF EraseWritten, WriterLabels, procVars, callVars, mapVars
<1>4. CASE ReaderStep(d)
  BY <1>4 DEF ReaderStep, ReaderAt, ReaderLabels, procVars, callVars, mapVars, bufVars
<1> QED
  BY <1>1, <1>2, <1>3, <1>4 DEF WriterStep

(* Every variable has its type in every reachable state, however many      *)
(* connections and controllers there are and whatever the library does.    *)
THEOREM TypeCorrect == Spec => []TypeOK
<1>1. Init => TypeOK
  <2> SUFFICES ASSUME Init PROVE TypeOK
    OBVIOUS
  <2>1. net_to_dev_buffer \in [Devices -> Seq(Nat)]
    BY EmptySeq DEF Init
  <2>2. serial \in [Handlers -> Serials]
    BY DEF Init
  <2>3. pc \in [Handlers -> Labels]
    BY DEF Init, Labels
  <2> QED
    BY <2>1, <2>2, <2>3 DEF Init, TypeOK, ReaderLabels, WriterLabels
<1>2. TypeOK /\ [Next]_vars => TypeOK'
  <2> SUFFICES ASSUME TypeOK, [Next]_vars PROVE TypeOK'
    OBVIOUS
  <2>1. CASE UNCHANGED vars
    BY <2>1 DEF TypeOK, vars, procVars, callVars, mapVars, bufVars, devVars
  <2>2. CASE Next
    BY <2>1, <2>2, MainTypes, PeerTypes, HandlerTypes, ThreadTypes DEF Next, Finished
  <2> QED
    BY <2>1, <2>2
<1> QED
  BY <1>1, <1>2, PTL DEF Spec

-----------------------------------------------------------------------------
(* map_mutex. *)

(* A handler is the data callback or the disc callback of its connection.  *)
LEMMA HandlerCases ==
  ASSUME NEW h \in Handlers
  PROVE  \E c \in Conns : h[2] = c /\ (h = Data(c) \/ h = Disc(c))
BY DEF Handlers, Data, Disc

(* The callbacks of two connections are different handlers, and so are the *)
(* two callbacks of one connection.                                        *)
LEMMA DataDisc ==
  ASSUME NEW b \in Conns, NEW c \in Conns
  PROVE  /\ Data(b) \in Handlers /\ Disc(b) \in Handlers
         /\ Data(b) # Disc(c)
         /\ Data(b) = Data(c) <=> b = c
         /\ Disc(b) = Disc(c) <=> b = c
         /\ Data(c)[2] = c /\ Disc(c)[2] = c
         /\ Data(c)[1] = "data" /\ Disc(c)[1] = "disc"
         /\ Data(c) # NoHandler /\ Disc(c) # NoHandler
BY DEF Handlers, Data, Disc, NoHandler

(* No callback is running when the process starts.                         *)
LEMMA HandlersInit ==
  ASSUME Init, NEW c \in Conns
  PROVE  pc[Data(c)] = "idle" /\ pc[Disc(c)] = "idle"
<1>1. Data(c) \in Handlers /\ Disc(c) \in Handlers
  BY DataDisc
<1> QED
  BY <1>1 DEF Init

(* A step of a callback keeps the lock discipline: it stays inside its own *)
(* code, and enters addDevice, removeDevice or removeConnection only with  *)
(* map_mutex.                                                              *)
LEMMA LockStep ==
  ASSUME TypeOK, LockInv, NEW h \in Handlers, HandlerStep(h)
  PROVE  LockInv'
<1>1. PICK c \in Conns : h[2] = c /\ (h = Data(c) \/ h = Disc(c))
  BY HandlerCases
<1> DEFINE Others == \A g \in Handlers \ {h} : pc'[g] = pc[g]
<1>2. SUFFICES /\ Others
               /\ h = Data(c) => pc'[h] \in DataLabels
               /\ h = Disc(c) => pc'[h] \in DiscLabels
               /\ \/ map_mutex' = map_mutex /\ (pc'[h] \in InSupermap => pc[h] \in InSupermap)
                  \/ map_mutex = NoHandler /\ map_mutex' = h
                  \/ pc[h] \in InSupermap /\ map_mutex' = NoHandler /\ pc'[h] \notin InSupermap
  <2>1. \A b \in Conns : pc'[Data(b)] \in DataLabels /\ pc'[Disc(b)] \in DiscLabels
    BY <1>1, <1>2, DataDisc DEF LockInv
  <2>2. \A g \in Handlers : pc'[g] \in InSupermap => map_mutex' = g
    <3> SUFFICES ASSUME NEW g \in Handlers, pc'[g] \in InSupermap PROVE map_mutex' = g
      OBVIOUS
    <3>1. g # NoHandler
      BY DEF Handlers, NoHandler
    <3> QED
      BY <1>2, <3>1 DEF LockInv
  <2> QED
    BY <2>1, <2>2 DEF LockInv
<1>3. TypeOK /\ LockInv /\ (pc[h] \in DataLabels \/ h = Disc(c)) /\ (pc[h] \in DiscLabels \/ h = Data(c))
  BY <1>1 DEF LockInv
<1> USE <1>1, <1>3, DataDisc
        DEF TypeOK, Goto, DataLabels, DiscLabels, InSupermap, RawAccess, Constructing,
        Destroying
<1>4. CASE FindDevice(h) \/ RawLock(h) \/ \E k \in 0 .. MaxChunk : RawPut(h, k)
  BY <1>4 DEF FindDevice, RawLock, RawPut, mapVars
<1>5. CASE RawFreed(h) \/ AdvanceFreedIterator(h)
  BY <1>5 DEF RawFreed, AdvanceFreedIterator, Die, callVars, mapVars
<1>6. CASE AddExisting(h) \/ AddFails(h) \/ OpenAnswer(h)
  BY <1>6 DEF AddExisting, AddFails, OpenAnswer, mapVars
<1>7. CASE AddOpens(h)
  BY <1>7 DEF AddOpens, LockNode
<1>8. CASE CtorMutex(h) \/ CtorWriter(h) \/ CtorDone(h)
  BY <1>8 DEF CtorMutex, CtorWriter, CtorDone, EnterMap, UnlockBuffer, mapVars
<1>9. CASE CloseAnswer(h) \/ RemoveDevice(h) \/ JoinReader(h) \/ JoinWriter(h)
  BY <1>9 DEF CloseAnswer, RemoveDevice, JoinReader, JoinWriter, DeleteDevice, CloseNode,
     mapVars
<1>10. CASE RemoveConnection(h) \/ RemoveConnectionEnd(h)
  BY <1>10 DEF RemoveConnection, RemoveConnectionEnd, LeaveLoop
<1>11. CASE \E s \in Serials : DeleteNext(h, s)
  BY <1>11 DEF DeleteNext, mapVars
<1> QED
  BY <1>4, <1>5, <1>6, <1>7, <1>8, <1>9, <1>10, <1>11 DEF HandlerStep

(* A step of a callback keeps every Device whole: node, mutex and threads  *)
(* agree with where its construction or destruction is.                    *)
LEMMA DeviceStep ==
  ASSUME TypeOK, LockInv, DeviceInv, NEW h \in Handlers, HandlerStep(h), ~crashed,
         NEW b \in Conns, NEW s \in Serials
  PROVE  DeviceOK(b, s)'
<1>1. PICK c \in Conns : h[2] = c /\ (h = Data(c) \/ h = Disc(c))
  BY HandlerCases
<1>2. /\ TypeOK /\ DeviceOK(b, s) /\ CallOK(h)
      /\ (pc[h] \in DataLabels \/ h = Disc(c)) /\ (pc[h] \in DiscLabels \/ h = Data(c))
  BY <1>1 DEF LockInv, DeviceInv
<1> USE <1>1, <1>2, DataDisc
        DEF TypeOK, DeviceOK, Building, Devices, Dev, Goto, DataLabels, DiscLabels, 
        RawAccess, Constructing, Destroying, WriterHolds, Stopped
<1>3. CASE FindDevice(h)
  BY <1>3 DEF FindDevice, mapVars, devVars, procVars
<1>8. CASE RawLock(h)
  <2>1. h = Data(c) /\ serial[h] \in Serials
    BY <1>8 DEF RawLock
  <2>2. CASE <<b, s>> = Dev(h)
    BY <1>8, <2>1, <2>2 DEF RawLock, mapVars, procVars
  <2>3. CASE <<b, s>> # Dev(h)
    BY <1>8, <2>1, <2>3 DEF RawLock, mapVars, procVars
  <2> QED
    BY <2>2, <2>3
<1>4. ASSUME NEW k \in 0 .. MaxChunk, RawPut(h, k)
      PROVE  DeviceOK(b, s)'
  <2>1. h = Data(c) /\ pc[h] = "raw_put" /\ net_to_dev_mutex[Dev(h)] # "unmade"
    BY <1>4 DEF RawPut
  <2>2. net_to_dev_mutex[Dev(h)] = "data"
    BY <2>1 DEF CallOK
  <2>3. /\ UNCHANGED <<crashed, node, conndevmap, serial, reader, writer>>
        /\ pc' = [pc EXCEPT ![h] = "idle"]
        /\ net_to_dev_mutex' = [net_to_dev_mutex EXCEPT ![Dev(h)] = "free"]
    BY <1>4 DEF RawPut, mapVars, procVars
  <2>4. CASE <<b, s>> = Dev(h)
    BY <2>1, <2>2, <2>3, <2>4
  <2>5. CASE <<b, s>> # Dev(h)
    BY <2>1, <2>2, <2>3, <2>5
  <2> QED
    BY <2>4, <2>5
<1>5. CASE RawFreed(h) \/ AdvanceFreedIterator(h)
  BY <1>5 DEF RawFreed, AdvanceFreedIterator, Die, callVars, mapVars, procVars, devVars
<1>6. CASE AddExisting(h) \/ AddFails(h) \/ OpenAnswer(h)
  BY <1>6 DEF AddExisting, AddFails, OpenAnswer, mapVars, procVars, devVars
<1>7. CASE AddOpens(h)
  BY <1>7, ServerAssumption DEF AddOpens, LockNode, ServerAssumption, procVars
<1>9. CASE CtorMutex(h)
  BY <1>9 DEF CtorMutex, mapVars, procVars
<1>10. CASE CtorWriter(h)
  BY <1>10 DEF CtorWriter, ThreadStart, mapVars, procVars
<1>11. CASE CtorDone(h)
  <2>1. /\ h = Data(c) /\ pc[h] = "ctor_done" /\ serial[h] \in Serials
        /\ pc' = [pc EXCEPT ![h] = "answer"]
        /\ net_to_dev_mutex' = [net_to_dev_mutex EXCEPT ![Dev(h)] = "free"]
        /\ conndevmap' = conndevmap \cup {Dev(h)}
        /\ UNCHANGED <<crashed, serial, node, reader, writer>>
    BY <1>11 DEF CtorDone, EnterMap, UnlockBuffer, procVars
  <2>2. CASE <<b, s>> = Dev(h)
    BY <2>1, <2>2
  <2>3. CASE <<b, s>> # Dev(h)
    BY <2>1, <2>3
  <2> QED
    BY <2>2, <2>3
<1>12. CASE CloseAnswer(h) \/ RemoveDevice(h) \/ JoinReader(h)
  BY <1>12 DEF CloseAnswer, RemoveDevice, JoinReader, mapVars, procVars, devVars
<1>13. CASE JoinWriter(h)
  <2>1. /\ pc[h] = "join_writer" /\ serial[h] \in Serials
        /\ pc' = [pc EXCEPT ![h] = IF h[1] = "data" THEN "idle" ELSE "advance"]
        /\ writer[Dev(h)] \in Stopped
        /\ node' = [node EXCEPT ![serial[h]] = NoConn]
        /\ net_to_dev_mutex' = [net_to_dev_mutex EXCEPT ![Dev(h)] = "unmade"]
        /\ conndevmap' = conndevmap \ {Dev(h)}
        /\ UNCHANGED <<crashed, serial, reader, writer>>
    BY <1>13 DEF JoinWriter, DeleteDevice, CloseNode, procVars
  <2>2. Dev(h) \in conndevmap /\ reader[Dev(h)] \in Stopped
    BY <2>1 DEF CallOK
  <2>3. DeviceOK(c, serial[h])
    BY <2>1 DEF DeviceInv
  <2>4. NoConn # b /\ NoConn # c
    BY ServerAssumption DEF ServerAssumption
  <2>5. CASE <<b, s>> = Dev(h)
    BY <2>1, <2>2, <2>3, <2>4, <2>5
  <2>6. CASE <<b, s>> # Dev(h)
    <3>1. Building(b, s)' <=> Building(b, s)
      BY <2>1
    <3>2. pc'[Data(b)] \in Constructing => pc'[Data(b)] = pc[Data(b)]
      BY <2>1
    <3>3. node'[s] = b <=> node[s] = b
      BY <2>1, <2>2, <2>3, <2>4, <2>6
    <3>4. /\ <<b, s>> \in conndevmap' <=> <<b, s>> \in conndevmap
          /\ net_to_dev_mutex'[<<b, s>>] = net_to_dev_mutex[<<b, s>>]
      BY <2>1, <2>6
    <3> QED
      BY <2>1, <3>1, <3>2, <3>3, <3>4
  <2> QED
    BY <2>5, <2>6
<1>14. CASE RemoveConnection(h) \/ RemoveConnectionEnd(h)
  BY <1>14 DEF RemoveConnection, RemoveConnectionEnd, LeaveLoop, mapVars, procVars, devVars
<1>15. CASE \E r \in Serials : DeleteNext(h, r)
  BY <1>15 DEF DeleteNext, mapVars, procVars
<1> QED
  BY <1>3, <1>4, <1>5, <1>6, <1>7, <1>8, <1>9, <1>10, <1>11, <1>12, <1>13, <1>14, <1>15
     DEF HandlerStep

(* A callback moves no other callback.                                     *)
LEMMA OtherCalls ==
  ASSUME TypeOK, NEW h \in Handlers, HandlerStep(h), NEW g \in Handlers \ {h}
  PROVE  pc'[g] = pc[g] /\ serial'[g] = serial[g]
<1> USE DEF TypeOK, Goto
<1>1. CASE FindDevice(h) \/ RawLock(h) \/ \E k \in 0 .. MaxChunk : RawPut(h, k)
  BY <1>1 DEF FindDevice, RawLock, RawPut
<1>2. CASE RawFreed(h) \/ AdvanceFreedIterator(h)
  BY <1>2 DEF RawFreed, AdvanceFreedIterator, Die, callVars
<1>3. CASE AddExisting(h) \/ AddFails(h) \/ AddOpens(h) \/ OpenAnswer(h)
  BY <1>3 DEF AddExisting, AddFails, AddOpens, LockNode, OpenAnswer
<1>4. CASE CtorMutex(h) \/ CtorWriter(h) \/ CtorDone(h)
  BY <1>4 DEF CtorMutex, CtorWriter, CtorDone, EnterMap, UnlockBuffer
<1>5. CASE CloseAnswer(h) \/ RemoveDevice(h) \/ JoinReader(h) \/ JoinWriter(h)
  BY <1>5 DEF CloseAnswer, RemoveDevice, JoinReader, JoinWriter, DeleteDevice, CloseNode
<1>6. CASE RemoveConnection(h) \/ RemoveConnectionEnd(h) \/ \E r \in Serials : DeleteNext(h, r)
  BY <1>6 DEF RemoveConnection, RemoveConnectionEnd, LeaveLoop, DeleteNext
<1> QED
  BY <1>1, <1>2, <1>3, <1>4, <1>5, <1>6 DEF HandlerStep

(* The map and the reader threads change only under map_mutex.             *)
LEMMA MapNeedsLock ==
  ASSUME TypeOK, LockInv, NEW h \in Handlers, HandlerStep(h),
         map_mutex \notin {h, NoHandler}
  PROVE  UNCHANGED <<conndevmap, reader>>
<1>0. pc[h] \notin InSupermap
  BY DEF LockInv
<1> USE <1>0 DEF InSupermap, Constructing, Destroying
<1>1. CASE FindDevice(h) \/ RawLock(h) \/ \E k \in 0 .. MaxChunk : RawPut(h, k)
  BY <1>1 DEF FindDevice, RawLock, RawPut, mapVars, devVars
<1>2. CASE RawFreed(h) \/ AdvanceFreedIterator(h)
  BY <1>2 DEF RawFreed, AdvanceFreedIterator, Die, mapVars, devVars
<1>3. CASE AddExisting(h) \/ AddFails(h) \/ AddOpens(h) \/ OpenAnswer(h)
  BY <1>3 DEF AddExisting, AddFails, AddOpens, LockNode, OpenAnswer, mapVars, devVars
<1>4. CASE CtorMutex(h) \/ CtorWriter(h) \/ CtorDone(h)
  BY <1>4 DEF CtorMutex, CtorWriter, CtorDone, EnterMap, UnlockBuffer
<1>5. CASE CloseAnswer(h) \/ RemoveDevice(h) \/ JoinReader(h) \/ JoinWriter(h)
  BY <1>5 DEF CloseAnswer, RemoveDevice, JoinReader, JoinWriter, DeleteDevice, CloseNode,
     mapVars, devVars
<1>6. CASE RemoveConnection(h) \/ RemoveConnectionEnd(h) \/ \E r \in Serials : DeleteNext(h, r)
  BY <1>6 DEF RemoveConnection, RemoveConnectionEnd, LeaveLoop, DeleteNext
<1> QED
  BY <1>1, <1>2, <1>3, <1>4, <1>5, <1>6 DEF HandlerStep

(* Only the callback that works on a Device, or its destructor, changes    *)
(* the mutex of that Device.                                               *)
LEMMA MutexNeedsDevice ==
  ASSUME TypeOK, NEW h \in Handlers, HandlerStep(h), NEW d \in Devices,
         net_to_dev_mutex'[d] # net_to_dev_mutex[d]
  PROVE  /\ d = Dev(h)
         /\ pc[h] \in DataLabels
         /\ pc[h] \in DiscLabels => net_to_dev_mutex'[d] = "unmade"
<1> USE DEF TypeOK, DataLabels, DiscLabels, RawAccess, Constructing, Destroying
<1>1. CASE FindDevice(h) \/ RawLock(h) \/ \E k \in 0 .. MaxChunk : RawPut(h, k)
  BY <1>1 DEF FindDevice, RawLock, RawPut, devVars
<1>2. CASE RawFreed(h) \/ AdvanceFreedIterator(h)
  BY <1>2 DEF RawFreed, AdvanceFreedIterator, Die, devVars
<1>3. CASE AddExisting(h) \/ AddFails(h) \/ AddOpens(h) \/ OpenAnswer(h)
  BY <1>3 DEF AddExisting, AddFails, AddOpens, LockNode, OpenAnswer, devVars
<1>4. CASE CtorMutex(h) \/ CtorWriter(h) \/ CtorDone(h)
  BY <1>4 DEF CtorMutex, CtorWriter, CtorDone, EnterMap, UnlockBuffer
<1>5. CASE CloseAnswer(h) \/ RemoveDevice(h) \/ JoinReader(h) \/ JoinWriter(h)
  BY <1>5 DEF CloseAnswer, RemoveDevice, JoinReader, JoinWriter, DeleteDevice, CloseNode,
     devVars
<1>6. CASE RemoveConnection(h) \/ RemoveConnectionEnd(h) \/ \E r \in Serials : DeleteNext(h, r)
  BY <1>6 DEF RemoveConnection, RemoveConnectionEnd, LeaveLoop, DeleteNext, devVars
<1> QED
  BY <1>1, <1>2, <1>3, <1>4, <1>5, <1>6 DEF HandlerStep

(* A step of a callback keeps what every callback knows of the Device it   *)
(* works on, its own and those of the others.                              *)
LEMMA CallStep ==
  ASSUME TypeOK, LockInv, DeviceInv, NEW h \in Handlers, HandlerStep(h),
         NEW g \in Handlers
  PROVE  CallOK(g)'
<1>1. CallOK(g) /\ Dev(g) \in Devices /\ serial[g] \in Serials
  BY DEF DeviceInv, Dev, Devices, Handlers, TypeOK
<1>2. CASE g # h
  <2>1. pc'[g] = pc[g] /\ Dev(g)' = Dev(g)
    BY <1>2, OtherCalls DEF Dev
  <2>2. CASE pc[g] = "raw_put"
    <3>1. net_to_dev_mutex'[Dev(g)] \in {net_to_dev_mutex[Dev(g)], "unmade"}
      <4> SUFFICES ASSUME net_to_dev_mutex'[Dev(g)] # net_to_dev_mutex[Dev(g)]
                   PROVE  net_to_dev_mutex'[Dev(g)] = "unmade"
        OBVIOUS
      <4>1. PICK b \in Conns, c \in Conns : /\ g[2] = b /\ (g = Data(b) \/ g = Disc(b))
                                            /\ h[2] = c /\ (h = Data(c) \/ h = Disc(c))
        BY HandlerCases
      <4>2. b = c
        BY <1>1, <4>1, MutexNeedsDevice DEF Dev
      <4>3. h = Disc(c)
        BY <1>2, <2>2, <4>1, <4>2 DEF LockInv, DiscLabels, Destroying
      <4> QED
        BY <1>1, <4>3, MutexNeedsDevice DEF LockInv
    <3> QED
      BY <1>1, <2>1, <2>2, <3>1 DEF CallOK, Destroying
  <2>3. CASE pc[g] \in Destroying
    <3>1. map_mutex = g /\ g # NoHandler
      BY <2>3 DEF LockInv, InSupermap, Handlers, NoHandler
    <3>2. UNCHANGED <<conndevmap, reader>>
      BY <1>2, <3>1, MapNeedsLock
    <3> QED
      BY <1>1, <2>1, <2>3, <3>2 DEF CallOK, Destroying
  <2> QED
    BY <2>1, <2>2, <2>3 DEF CallOK, Destroying
<1>3. CASE g = h
  <2> USE <1>1, <1>3 DEF TypeOK, CallOK, Goto, Destroying
  <2>1. CASE FindDevice(h) \/ RawLock(h) \/ \E k \in 0 .. MaxChunk : RawPut(h, k)
    BY <2>1 DEF FindDevice, RawLock, RawPut, Dev, mapVars, devVars
  <2>2. CASE RawFreed(h) \/ AdvanceFreedIterator(h)
    BY <2>2 DEF RawFreed, AdvanceFreedIterator, Die, Dev, RawAccess, callVars, mapVars,
       devVars
  <2>3. CASE AddExisting(h) \/ AddFails(h) \/ AddOpens(h) \/ OpenAnswer(h)
    BY <2>3 DEF AddExisting, AddFails, AddOpens, LockNode, OpenAnswer, Dev, mapVars, devVars
  <2>4. CASE CtorMutex(h) \/ CtorWriter(h) \/ CtorDone(h)
    BY <2>4 DEF CtorMutex, CtorWriter, CtorDone, EnterMap, UnlockBuffer, Dev, mapVars,
       devVars
  <2>5. CASE CloseAnswer(h) \/ JoinReader(h)
    BY <2>5 DEF CloseAnswer, JoinReader, Dev, mapVars, devVars
  <2>7. CASE RemoveDevice(h)
    BY <2>7 DEF RemoveDevice, Dev
  <2>8. CASE JoinWriter(h)
    BY <2>8 DEF JoinWriter, DeleteDevice, CloseNode
  <2>6. CASE RemoveConnection(h) \/ RemoveConnectionEnd(h) \/ \E r \in Serials : DeleteNext(h, r)
    BY <2>6 DEF RemoveConnection, RemoveConnectionEnd, LeaveLoop, DeleteNext, Dev, mapVars,
       devVars
  <2> QED
    BY <2>1, <2>2, <2>3, <2>4, <2>5, <2>6, <2>7, <2>8 DEF HandlerStep
<1> QED
  BY <1>2, <1>3

(* A step of a device thread keeps the rest of the invariant.              *)
LEMMA ThreadStep ==
  ASSUME IInv, NEW d \in Devices, WriterStep(d) \/ ReaderStep(d)
  PROVE  LockInv' /\ DeviceInv'
<1>1. /\ UNCHANGED <<procVars, callVars, mapVars>>
      /\ \A e \in Devices \ {d} : /\ reader'[e] = reader[e]
                                  /\ writer'[e] = writer[e]
                                  /\ net_to_dev_mutex'[e] = net_to_dev_mutex[e]
  BY DEF IInv, TypeOK, WriterStep, WriterCheck, WriterLock, WriteNothing, WriteSome,
     EraseWritten,
         WriteError, ErrorNotification, WriterAt, UnlockBuffer, ReaderStep, ReaderAt
<1>2. /\ reader[d] \in Stopped => reader'[d] = reader[d]
      /\ writer[d] \in Stopped => writer'[d] = writer[d]
  BY DEF IInv, TypeOK, WriterStep, WriterCheck, WriterLock, WriteNothing, WriteSome,
     EraseWritten,
         WriteError, ErrorNotification, WriterAt, UnlockBuffer, ReaderStep, ReaderAt,
         Stopped
<1>3. \/ /\ net_to_dev_mutex'[d] = net_to_dev_mutex[d]
         /\ writer'[d] \in WriterHolds <=> writer[d] \in WriterHolds
      \/ /\ net_to_dev_mutex[d] = "free" /\ net_to_dev_mutex'[d] = "writer"
         /\ writer'[d] \in WriterHolds
      \/ /\ writer[d] \in WriterHolds /\ writer'[d] \notin WriterHolds
         /\ net_to_dev_mutex'[d] = "free"
  BY DEF IInv, TypeOK, WriterStep, WriterCheck, WriterLock, WriteNothing, WriteSome,
     EraseWritten,
         WriteError, ErrorNotification, WriterAt, UnlockBuffer, ReaderStep, ReaderAt,
         WriterHolds
<1>4. LockInv'
  BY <1>1 DEF IInv, LockInv, callVars, mapVars
<1>5. ASSUME NEW c \in Conns, NEW s \in Serials
      PROVE  DeviceOK(c, s)'
  <2>1. DeviceOK(c, s) /\ <<c, s>> \in Devices
    BY DEF IInv, DeviceInv, Devices
  <2>2. CASE <<c, s>> # d
    BY <1>1, <2>1, <2>2 DEF DeviceOK, Building, procVars, callVars, mapVars
  <2>3. CASE <<c, s>> = d
    BY <1>1, <1>2, <1>3, <2>1, <2>3 DEF DeviceOK, Building, procVars, callVars, mapVars
  <2> QED
    BY <2>2, <2>3
<1>6. ASSUME NEW g \in Handlers
      PROVE  CallOK(g)'
  <2>1. CallOK(g) /\ Dev(g) \in Devices /\ DeviceOK(d[1], d[2]) /\ d = <<d[1], d[2]>>
    BY DEF IInv, TypeOK, DeviceInv, Devices, Dev, Handlers
  <2> QED
    BY <1>1, <1>2, <1>3, <2>1 DEF CallOK, DeviceOK, Dev, callVars, mapVars
<1> QED
  BY <1>4, <1>5, <1>6 DEF DeviceInv

(* A callback that is called keeps the rest of it.                         *)
LEMMA CallBegins ==
  ASSUME IInv, NEW h \in Handlers, NEW l, pc[h] = "idle", pc' = [pc EXCEPT ![h] = l],
         \A c \in Conns : (h = Data(c) => l \in {"find", "add", "close_answer"})
                         /\ (h = Disc(c) => l = "disc"),
         serial' \in [Handlers -> Serials],
         \A g \in Handlers \ {h} : serial'[g] = serial[g],
         UNCHANGED <<procVars, mapVars, bufVars, devVars>>
  PROVE  LockInv' /\ DeviceInv'
<1>1. PICK c \in Conns : h[2] = c /\ (h = Data(c) \/ h = Disc(c))
  BY HandlerCases
<1>2. l \in {"find", "add", "close_answer", "disc"} /\ pc'[h] = l
  BY <1>1 DEF IInv, TypeOK
<1>3. \A g \in Handlers \ {h} : pc'[g] = pc[g]
  BY DEF IInv, TypeOK
<1>4. LockInv'
  BY <1>1, <1>2, <1>3, DataDisc DEF IInv, LockInv, mapVars, DataLabels, DiscLabels,
     InSupermap,
     RawAccess, Constructing, Destroying
<1>5. ASSUME NEW b \in Conns, NEW s \in Serials
      PROVE  DeviceOK(b, s)'
  <2>1. /\ Building(b, s)' <=> Building(b, s)
        /\ Building(b, s) => pc'[Data(b)] = pc[Data(b)]
    BY <1>2, <1>3, DataDisc DEF Building, Constructing
  <2>2. DeviceOK(b, s)
    BY DEF IInv, DeviceInv
  <2> QED
    BY <2>1, <2>2 DEF DeviceOK, procVars, mapVars, devVars
<1>6. ASSUME NEW g \in Handlers
      PROVE  CallOK(g)'
  <2>1. CallOK(g)
    BY DEF IInv, DeviceInv
  <2> QED
    BY <1>2, <1>3, <2>1 DEF CallOK, Dev, Destroying, mapVars, devVars
<1> QED
  BY <1>4, <1>5, <1>6 DEF DeviceInv

(* A step of a peer, of the library or of main keeps the rest of it.       *)
LEMMA OutsideStep ==
  ASSUME IInv, \/ MainStep
               \/ \E c \in Conns : PeerStep(c) \/ DiscBegin(c)
  PROVE  LockInv' /\ DeviceInv'
<1>1. CASE MainStep \/ \E c \in Conns : Connect(c) \/ SocketClosed(c)
  BY <1>1 DEF IInv, LockInv, DeviceInv, DeviceOK, CallOK, Building, Dev, MainStep, Listen,
     SetHandler, SetDiscNotify, Connect, SocketClosed, callVars, mapVars, devVars
<1>2. ASSUME NEW c \in Conns, NEW s \in Serials, NEW l \in {"find", "add", "close_answer"},
             Dispatch(c, s, l)
      PROVE  LockInv' /\ DeviceInv'
  <2>1. Data(c) \in Handlers /\ \A b \in Conns : Data(c) # Disc(b)
    BY DataDisc
  <2>2. /\ serial' \in [Handlers -> Serials]
        /\ \A g \in Handlers \ {Data(c)} : serial'[g] = serial[g]
    BY <1>2, <2>1 DEF Dispatch, IInv, TypeOK
  <2> QED
    BY <1>2, <2>1, <2>2, CallBegins DEF Dispatch, Goto
<1>3. ASSUME NEW c \in Conns, DiscBegin(c)
      PROVE  LockInv' /\ DeviceInv'
  <2>1. Disc(c) \in Handlers /\ \A b \in Conns : Disc(c) # Data(b)
    BY DataDisc
  <2>2. /\ serial' \in [Handlers -> Serials]
        /\ \A g \in Handlers \ {Disc(c)} : serial'[g] = serial[g]
    BY <1>3 DEF DiscBegin, IInv, TypeOK
  <2> QED
    BY <1>3, <2>1, <2>2, CallBegins DEF DiscBegin, Goto
<1>4. CASE \E c \in Conns : \E s \in Serials : \/ ReceiveRawData(c, s)
                                               \/ ReceiveOpen(c, s)
                                               \/ ReceiveClose(c, s)
  BY <1>2, <1>4 DEF ReceiveRawData, ReceiveOpen, ReceiveClose
<1> QED
  BY <1>1, <1>3, <1>4 DEF PeerStep

(* The invariant holds in every reachable state, whatever the library and  *)
(* the peers do (no assumption on the three switches).                     *)
THEOREM Invariance == Spec => []IInv
<1>1. Init => LockInv /\ DeviceInv
  BY ServerAssumption, DataDisc DEF Init, LockInv, DeviceInv, DeviceOK, CallOK, Building,
     Devices,
     DataLabels, DiscLabels, InSupermap, Constructing, Destroying, WriterHolds, Stopped,
     ServerAssumption
<1>2. TypeOK' /\ IInv /\ [Next]_vars => IInv'
  <2> SUFFICES ASSUME IInv, [Next]_vars PROVE LockInv' /\ DeviceInv'
    BY DEF IInv
  <2>1. CASE UNCHANGED vars
    BY <2>1 DEF IInv, LockInv, DeviceInv, DeviceOK, CallOK, Building, Dev, vars, procVars,
       callVars,
       mapVars, bufVars, devVars
  <2>2. ASSUME ~crashed, NEW h \in Handlers, HandlerStep(h)
        PROVE  LockInv' /\ DeviceInv'
    BY <2>2, LockStep, DeviceStep, CallStep DEF IInv, DeviceInv
  <2> QED
    BY <2>1, <2>2, OutsideStep, ThreadStep DEF Next, Finished
<1> QED
  BY <1>1, <1>2, TypeCorrect, PTL DEF Spec, IInv

-----------------------------------------------------------------------------
(* What follows from the invariant. *)

(* A Device is under construction exactly when some handler is inside its  *)
(* constructor.                                                            *)
LEMMA BuildingIsConstructing ==
  ASSUME IInv, NEW c \in Conns, NEW s \in Serials
  PROVE  Building(c, s) <=> \E h \in Handlers : pc[h] \in Constructing /\ Dev(h) = <<c, s>>
<1>1. ASSUME Building(c, s)
      PROVE  \E h \in Handlers : pc[h] \in Constructing /\ Dev(h) = <<c, s>>
  BY <1>1, DataDisc DEF Building, Dev
<1>2. ASSUME NEW h \in Handlers, pc[h] \in Constructing, Dev(h) = <<c, s>>
      PROVE  Building(c, s)
  <2>1. PICK b \in Conns : h[2] = b /\ (h = Data(b) \/ h = Disc(b))
    BY HandlerCases
  <2>2. h = Data(b)
    BY <1>2, <2>1 DEF IInv, LockInv, DiscLabels, Constructing, Destroying
  <2> QED
    BY <1>2, <2>1, <2>2 DEF Dev, Building
<1> QED
  BY <1>1, <1>2

(* The threads of a Device never outlive it.                               *)
THEOREM ThreadsNeverOutliveDevice == Spec => []ThreadsWithinDevice
<1>1. IInv => ThreadsWithinDevice
  <2> SUFFICES ASSUME IInv, NEW d \in Devices,
                      reader[d] \notin Stopped \/ writer[d] \notin Stopped
               PROVE  d \in conndevmap \/ \E h \in Handlers : pc[h] \in Constructing /\ Dev(h) = d
    BY DEF ThreadsWithinDevice
  <2>1. PICK c \in Conns, s \in Serials : d = <<c, s>>
    BY DEF Devices
  <2>2. d \in conndevmap \/ Building(c, s)
    BY <2>1 DEF IInv, DeviceInv, DeviceOK
  <2> QED
    BY <2>1, <2>2, BuildingIsConstructing
<1> QED
  BY <1>1, Invariance, PTL

(* A running writer finds its mutex constructed.                           *)
THEOREM MutexMadeBeforeWriter == Spec => []MutexBeforeWriter
<1>1. IInv => MutexBeforeWriter
  BY DEF IInv, DeviceInv, DeviceOK, MutexBeforeWriter, Devices, Stopped, WriterHolds,
     Building, Constructing
<1> QED
  BY <1>1, Invariance, PTL

(* The RawData callback and the writer never use the buffer together.      *)
THEOREM BufferIsExclusive == Spec => []BufferExclusive
<1>1. IInv => BufferExclusive
  <2> SUFFICES ASSUME IInv, NEW c \in Conns, pc[Data(c)] = "raw_put"
               PROVE  writer[Dev(Data(c))] \notin WriterHolds
    BY DEF BufferExclusive
  <2>1. Data(c) \in Handlers /\ serial[Data(c)] \in Serials /\ Dev(Data(c)) = <<c, serial[Data(c)]>>
    BY DataDisc DEF IInv, TypeOK, Dev
  <2>2. CallOK(Data(c)) /\ DeviceOK(c, serial[Data(c)])
    BY <2>1 DEF IInv, DeviceInv
  <2> QED
    BY <2>1, <2>2 DEF CallOK, DeviceOK
<1> QED
  BY <1>1, Invariance, PTL

(* A device node is locked exactly as long as the Device that locked it    *)
(* exists.                                                                 *)
THEOREM NodesAccounted == Spec => []NodeAccounted
<1>1. IInv => NodeAccounted
  BY BuildingIsConstructing DEF NodeAccounted, IInv, DeviceInv, DeviceOK
<1> QED
  BY <1>1, Invariance, PTL

-----------------------------------------------------------------------------
(* map_mutex is not kept, as long as nobody opens a device twice. *)

(* A step of a callback releases map_mutex when it leaves the section, as  *)
(* long as addDevice never finds the device there.                         *)
LEMMA MutexStep ==
  ASSUME IInv, MutexInv, NEW h \in Handlers, HandlerStep(h)
  PROVE  MutexInv'
<1>1. PICK c \in Conns : h[2] = c /\ (h = Data(c) \/ h = Disc(c))
  BY HandlerCases
<1>2. /\ pc[h] \in {"add", "ctor_done"} => h = Data(c)
      /\ pc[h] = "add" => Dev(h) \notin conndevmap
      /\ map_mutex = h => pc[h] \in InSupermap
      /\ h # NoHandler
  BY <1>1, DataDisc DEF IInv, LockInv, MutexInv, DiscLabels, Destroying
<1>3. /\ pc'[h] # "add"
      /\ map_mutex' = h => pc'[h] \in InSupermap
      /\ map_mutex' \in {map_mutex, h, NoHandler}
      /\ \/ conndevmap' \subseteq conndevmap
         \/ pc[h] = "ctor_done" /\ conndevmap' = conndevmap \cup {Dev(h)}
  <2> USE <1>2 DEF IInv, TypeOK, Goto, InSupermap, Constructing, Destroying
  <2>1. CASE FindDevice(h) \/ RawLock(h) \/ \E k \in 0 .. MaxChunk : RawPut(h, k)
    BY <2>1 DEF FindDevice, RawLock, RawPut, mapVars
  <2>2. CASE RawFreed(h) \/ AdvanceFreedIterator(h)
    BY <2>2 DEF RawFreed, AdvanceFreedIterator, Die, RawAccess, callVars, mapVars
  <2>3. CASE AddExisting(h) \/ AddFails(h) \/ AddOpens(h) \/ OpenAnswer(h)
    BY <2>3 DEF AddExisting, AddFails, AddOpens, LockNode, OpenAnswer, mapVars
  <2>4. CASE CtorMutex(h) \/ CtorWriter(h) \/ CtorDone(h)
    BY <2>4 DEF CtorMutex, CtorWriter, CtorDone, EnterMap, UnlockBuffer, mapVars
  <2>5. CASE CloseAnswer(h) \/ RemoveDevice(h) \/ JoinReader(h) \/ JoinWriter(h)
    BY <2>5 DEF CloseAnswer, RemoveDevice, JoinReader, JoinWriter, DeleteDevice, CloseNode,
       mapVars
  <2>6. CASE RemoveConnection(h) \/ RemoveConnectionEnd(h) \/ \E r \in Serials : DeleteNext(h, r)
    BY <2>6 DEF RemoveConnection, RemoveConnectionEnd, LeaveLoop, DeleteNext, mapVars
  <2> QED
    BY <2>1, <2>2, <2>3, <2>4, <2>5, <2>6 DEF HandlerStep
<1>4. ASSUME NEW b \in Conns, pc'[Data(b)] = "add"
      PROVE  Dev(Data(b))' \notin conndevmap'
  <2>1. Data(b) # h /\ Data(b) \in Handlers
    BY <1>3, <1>4, DataDisc
  <2>2. pc[Data(b)] = "add" /\ Dev(Data(b))' = Dev(Data(b))
    BY <1>4, <2>1, OtherCalls DEF IInv, Dev
  <2>3. Dev(Data(b)) \notin conndevmap
    BY <2>2 DEF MutexInv
  <2> QED
    BY <1>1, <1>2, <1>3, <2>1, <2>2, <2>3, DataDisc DEF Dev
<1>5. ASSUME NEW g \in Handlers, map_mutex' = g
      PROVE  pc'[g] \in InSupermap
  <2>1. g # NoHandler
    BY DEF Handlers, NoHandler
  <2> QED
    BY <1>3, <1>5, <2>1, OtherCalls DEF IInv, MutexInv
<1> QED
  BY <1>4, <1>5 DEF MutexInv

(* If no peer opens a device it already holds, a handler has map_mutex     *)
(* only inside addDevice, removeDevice or removeConnection.                *)
LEMMA MutexInvariance ==
  ASSUME ~Reopens
  PROVE  Spec => []MutexInv
<1>1. Init => MutexInv
  BY DataDisc DEF Init, MutexInv, Handlers, NoHandler
<1>2. IInv /\ MutexInv /\ [Next]_vars => MutexInv'
  <2> SUFFICES ASSUME IInv, MutexInv, [Next]_vars PROVE MutexInv'
    OBVIOUS
  <2>1. CASE UNCHANGED vars
    BY <2>1 DEF MutexInv, Dev, vars, callVars, mapVars
  <2>2. CASE \/ MainStep
             \/ \E c \in Conns : Connect(c) \/ SocketClosed(c)
             \/ \E d \in Devices : WriterStep(d) \/ ReaderStep(d)
    BY <2>2 DEF MutexInv, Dev, callVars, mapVars, MainStep, Listen, SetHandler,
       SetDiscNotify,
       Connect, SocketClosed, WriterStep, WriterCheck, WriterLock, WriteNothing, WriteSome,
       EraseWritten, WriteError, ErrorNotification, WriterAt, ReaderStep, ReaderAt
  <2>3. ASSUME NEW c \in Conns, DiscBegin(c)
        PROVE  MutexInv'
    BY <2>3, DataDisc DEF IInv, TypeOK, MutexInv, DiscBegin, Goto, Dev, mapVars, InSupermap,
       Constructing, Destroying
  <2>4. ASSUME NEW c \in Conns, NEW s \in Serials, NEW l \in {"find", "add", "close_answer"},
               Dispatch(c, s, l), l = "add" => <<c, s>> \notin conndevmap
        PROVE  MutexInv'
    <3>1. /\ pc[Data(c)] = "idle" /\ pc'[Data(c)] = l /\ serial'[Data(c)] = s
          /\ \A g \in Handlers \ {Data(c)} : pc'[g] = pc[g] /\ serial'[g] = serial[g]
          /\ UNCHANGED <<conndevmap, map_mutex>>
      BY <2>4, DataDisc DEF IInv, TypeOK, Dispatch, Goto, mapVars
    <3>2. ASSUME NEW b \in Conns, pc'[Data(b)] = "add"
          PROVE  Dev(Data(b))' \notin conndevmap'
      <4>1. CASE b = c
        BY <2>4, <3>1, <3>2, <4>1, DataDisc DEF Dev
      <4>2. CASE b # c
        BY <3>1, <3>2, <4>2, DataDisc DEF Dev, MutexInv
      <4> QED
        BY <4>1, <4>2
    <3>3. \A h \in Handlers : map_mutex' = h => pc'[h] \in InSupermap
      BY <3>1 DEF MutexInv, InSupermap, Constructing, Destroying
    <3> QED
      BY <3>2, <3>3 DEF MutexInv
  <2>5. CASE \E c \in Conns : \E s \in Serials : \/ ReceiveRawData(c, s)
                                                 \/ ReceiveOpen(c, s)
                                                 \/ ReceiveClose(c, s)
    BY <2>4, <2>5 DEF ReceiveRawData, ReceiveOpen, ReceiveClose
  <2> QED
    BY <2>1, <2>2, <2>3, <2>5, MutexStep DEF Next, PeerStep, Finished
<1> QED
  BY <1>1, <1>2, Invariance, PTL DEF Spec

(* map_mutex is locked exactly while its holder is inside addDevice,       *)
(* removeDevice or removeConnection, if no peer opens a device it already  *)
(* holds; with such a peer this fails (AddExisting).                       *)
THEOREM MapMutexIsReleased ==
  ASSUME ~Reopens
  PROVE  Spec => []MapMutexInside
<1>1. IInv /\ MutexInv => MapMutexInside
  BY DEF IInv, LockInv, MutexInv, MapMutexInside
<1> QED
  BY <1>1, Invariance, MutexInvariance, PTL

-----------------------------------------------------------------------------
(* The callbacks of one connection, when the library runs them one by one. *)

(* A step of a callback keeps callback_disc alone on its connection and    *)
(* the pointer of a RawData callback good.                                 *)
LEMMA CallbackStep ==
  ASSUME IInv, CallbackInv, NEW h \in Handlers, HandlerStep(h)
  PROVE  CallbackInv'
<1>1. PICK c \in Conns : h[2] = c /\ (h = Data(c) \/ h = Disc(c))
  BY HandlerCases
<1>2. /\ h = Data(c) => pc[Disc(c)] = "idle"
      /\ pc[h] \in {"find", "raw_lock", "raw_put"} => h = Data(c)
      /\ pc[h] # "idle"
  <2>1. pc[h] \in {"find", "raw_lock", "raw_put"} => h = Data(c)
    BY <1>1 DEF IInv, LockInv, DiscLabels, Destroying
  <2> QED
    BY <1>1, <2>1 DEF CallbackInv, HandlerStep, FindDevice, RawLock, RawPut, RawFreed,
       RawAccess,
       AddExisting, AddFails, AddOpens, LockNode, CtorMutex, CtorWriter, CtorDone,
       EnterMap, UnlockBuffer, OpenAnswer, CloseAnswer,
       RemoveDevice, JoinReader, JoinWriter, DeleteDevice, CloseNode, RemoveConnection,
       RemoveConnectionEnd, LeaveLoop,
       AdvanceFreedIterator, DeleteNext
<1>3. /\ pc'[h] \in RawAccess => Dev(h)' = Dev(h) /\ Dev(h) \in conndevmap'
      /\ conndevmap' = conndevmap \ {Dev(h)} \/ conndevmap \subseteq conndevmap'
      /\ \A b \in Conns : conn'[b] # conn[b] => b = c /\ h = Disc(c) /\ pc'[h] = "idle"
  <2>0. pc[h] \in RawAccess => Dev(h) \in conndevmap
    BY <1>1, <1>2 DEF CallbackInv, RawAccess
  <2> USE <1>1, <1>2, <2>0 DEF IInv, TypeOK, Goto, RawAccess
  <2>1. CASE FindDevice(h) \/ RawLock(h) \/ \E k \in 0 .. MaxChunk : RawPut(h, k)
    BY <2>1 DEF FindDevice, RawLock, RawPut, Dev, mapVars, procVars
  <2>2. CASE RawFreed(h) \/ AdvanceFreedIterator(h)
    BY <2>2 DEF RawFreed, AdvanceFreedIterator, Die, Dev, callVars, mapVars, procVars
  <2>3. CASE AddExisting(h) \/ AddFails(h) \/ AddOpens(h) \/ OpenAnswer(h)
    BY <2>3 DEF AddExisting, AddFails, AddOpens, LockNode, OpenAnswer, mapVars, procVars
  <2>4. CASE CtorMutex(h) \/ CtorWriter(h) \/ CtorDone(h)
    BY <2>4 DEF CtorMutex, CtorWriter, CtorDone, EnterMap, UnlockBuffer, mapVars, procVars
  <2>5. CASE CloseAnswer(h) \/ RemoveDevice(h) \/ JoinReader(h) \/ JoinWriter(h)
    BY <2>5 DEF CloseAnswer, RemoveDevice, JoinReader, JoinWriter, DeleteDevice, CloseNode,
       mapVars, procVars
  <2>6. CASE RemoveConnection(h) \/ \E r \in Serials : DeleteNext(h, r)
    BY <2>6 DEF RemoveConnection, DeleteNext, mapVars, procVars
  <2>7. CASE RemoveConnectionEnd(h)
    <3>1. pc[h] = "iterate" /\ h = Disc(c)
      BY <2>7 DEF RemoveConnectionEnd, LeaveLoop, LockInv, DataLabels, Constructing,
         Destroying
    <3> QED
      BY <2>7, <3>1 DEF RemoveConnectionEnd, LeaveLoop
  <2> QED
    BY <2>1, <2>2, <2>3, <2>4, <2>5, <2>6, <2>7 DEF HandlerStep
<1>4. ASSUME NEW b \in Conns, pc'[Disc(b)] # "idle"
      PROVE  conn'[b] = "down" /\ pc'[Data(b)] = "idle"
  <2>1. pc[Disc(b)] # "idle"
    BY <1>1, <1>2, <1>4, OtherCalls, DataDisc DEF IInv
  <2> QED
    BY <1>1, <1>2, <1>3, <1>4, <2>1, OtherCalls, DataDisc DEF IInv, CallbackInv
<1>5. ASSUME NEW b \in Conns, pc'[Data(b)] \in RawAccess
      PROVE  Dev(Data(b))' \in conndevmap'
  <2>1. CASE h = Data(b)
    BY <1>3, <1>5, <2>1
  <2>2. CASE h # Data(b)
    <3>1. pc[Data(b)] \in RawAccess /\ Dev(Data(b))' = Dev(Data(b)) /\ Dev(Data(b)) \in conndevmap
      BY <1>5, <2>2, OtherCalls, DataDisc DEF IInv, CallbackInv, Dev
    <3>2. b # c
      BY <1>1, <1>2, <2>2, <3>1 DEF CallbackInv, RawAccess
    <3> QED
      BY <1>1, <1>3, <3>1, <3>2, DataDisc DEF Dev
  <2> QED
    BY <2>1, <2>2
<1> QED
  BY <1>4, <1>5 DEF CallbackInv

(* If the library serialises the callbacks of a connection, a pointer that *)
(* findDevice has returned stays good.                                     *)
LEMMA CallbackInvariance ==
  ASSUME SerialCallbacks
  PROVE  Spec => []CallbackInv
<1>1. Init => CallbackInv
  BY HandlersInit DEF CallbackInv, RawAccess
<1>2. IInv /\ CallbackInv /\ [Next]_vars => CallbackInv'
  <2> SUFFICES ASSUME IInv, CallbackInv, [Next]_vars PROVE CallbackInv'
    OBVIOUS
  <2>1. CASE UNCHANGED vars
    BY <2>1 DEF CallbackInv, Dev, vars, procVars, callVars, mapVars
  <2>2. CASE MainStep \/ \E d \in Devices : WriterStep(d) \/ ReaderStep(d)
    BY <2>2 DEF CallbackInv, Dev, procVars, callVars, mapVars, MainStep, Listen, SetHandler,
       SetDiscNotify, WriterStep, WriterCheck, WriterLock, WriteNothing, WriteSome,
       EraseWritten,
       WriteError, ErrorNotification, WriterAt, ReaderStep, ReaderAt
  <2>3. CASE \E c \in Conns : Connect(c) \/ SocketClosed(c)
    BY <2>3 DEF IInv, TypeOK, CallbackInv, Dev, callVars, mapVars, Connect, SocketClosed
  <2>4. ASSUME NEW c \in Conns, DiscBegin(c)
        PROVE  CallbackInv'
    BY <2>4, DataDisc DEF IInv, TypeOK, CallbackInv, DiscBegin, Goto, Dev, mapVars, procVars
  <2>5. ASSUME NEW c \in Conns, NEW s \in Serials, NEW l \in {"find", "add", "close_answer"},
               Dispatch(c, s, l)
        PROVE  CallbackInv'
    <3>1. /\ conn[c] = "up" /\ pc'[Data(c)] = l /\ l \notin RawAccess
          /\ \A g \in Handlers \ {Data(c)} : pc'[g] = pc[g] /\ serial'[g] = serial[g]
          /\ UNCHANGED <<conndevmap, conn>>
      BY <2>5, DataDisc DEF IInv, TypeOK, Dispatch, Goto, RawAccess, mapVars, procVars
    <3>2. ASSUME NEW b \in Conns, pc'[Disc(b)] # "idle"
          PROVE  conn'[b] = "down" /\ pc'[Data(b)] = "idle"
      BY <3>1, <3>2, DataDisc DEF CallbackInv
    <3>3. ASSUME NEW b \in Conns, pc'[Data(b)] \in RawAccess
          PROVE  Dev(Data(b))' \in conndevmap'
      BY <3>1, <3>3, DataDisc DEF CallbackInv, Dev
    <3> QED
      BY <3>2, <3>3 DEF CallbackInv
  <2>6. CASE \E c \in Conns : \E s \in Serials : \/ ReceiveRawData(c, s)
                                                 \/ ReceiveOpen(c, s)
                                                 \/ ReceiveClose(c, s)
    BY <2>5, <2>6 DEF ReceiveRawData, ReceiveOpen, ReceiveClose
  <2> QED
    BY <2>1, <2>2, <2>3, <2>4, <2>6, CallbackStep DEF Next, PeerStep, Finished
<1> QED
  BY <1>1, <1>2, Invariance, PTL DEF Spec

(* The Device that a RawData callback has looked up is still there when    *)
(* the callback uses it, if the library serialises the callbacks of a      *)
(* connection.                                                             *)
THEOREM NoDeviceUsedAfterFree ==
  ASSUME SerialCallbacks
  PROVE  Spec => []NoUseAfterFree
<1>1. CallbackInv => NoUseAfterFree
  BY DEF CallbackInv, NoUseAfterFree
<1> QED
  BY <1>1, CallbackInvariance, PTL

(* What a callback does to the connections and to the map.                 *)
LEMMA HandlerEffects ==
  ASSUME NEW h \in Handlers, HandlerStep(h)
  PROVE  /\ pc[h] # "idle"
         /\ main' = main
         /\ conn' = conn \/ RemoveConnectionEnd(h)
         /\ \/ conndevmap' = conndevmap
            \/ pc[h] = "ctor_done" /\ conndevmap' = conndevmap \cup {Dev(h)}
            \/ pc[h] = "join_writer" /\ conndevmap' = conndevmap \ {Dev(h)}
<1>1. CASE FindDevice(h) \/ RawLock(h) \/ \E k \in 0 .. MaxChunk : RawPut(h, k)
  BY <1>1 DEF FindDevice, RawLock, RawPut, mapVars, procVars
<1>2. CASE RawFreed(h) \/ AdvanceFreedIterator(h)
  BY <1>2 DEF RawFreed, AdvanceFreedIterator, Die, RawAccess, mapVars, procVars
<1>3. CASE AddExisting(h) \/ AddFails(h) \/ AddOpens(h) \/ OpenAnswer(h)
  BY <1>3 DEF AddExisting, AddFails, AddOpens, LockNode, OpenAnswer, mapVars, procVars
<1>4. CASE CtorMutex(h) \/ CtorWriter(h) \/ CtorDone(h)
  BY <1>4 DEF CtorMutex, CtorWriter, CtorDone, EnterMap, UnlockBuffer, mapVars, procVars
<1>5. CASE CloseAnswer(h) \/ RemoveDevice(h) \/ JoinReader(h) \/ JoinWriter(h)
  BY <1>5 DEF CloseAnswer, RemoveDevice, JoinReader, JoinWriter, DeleteDevice, CloseNode,
     mapVars, procVars
<1>6. CASE RemoveConnection(h) \/ RemoveConnectionEnd(h) \/ \E r \in Serials : DeleteNext(h, r)
  BY <1>6 DEF RemoveConnection, RemoveConnectionEnd, LeaveLoop, DeleteNext, mapVars,
     procVars
<1> QED
  BY <1>1, <1>2, <1>3, <1>4, <1>5, <1>6 DEF HandlerStep

(* If moreover no peer comes early, a connection that is over has no       *)
(* callback running and no Device left.                                    *)
LEMMA SessionInvariance ==
  ASSUME SerialCallbacks, ~EarlyPeers
  PROVE  Spec => []SessionInv
<1>1. Init => SessionInv
  BY HandlersInit DEF Init, SessionInv
<1>2. IInv /\ CallbackInv /\ SessionInv /\ [Next]_vars => SessionInv'
  <2> SUFFICES ASSUME IInv, CallbackInv, SessionInv, [Next]_vars PROVE SessionInv'
    OBVIOUS
  <2>1. CASE UNCHANGED vars
    BY <2>1 DEF SessionInv, vars, procVars, callVars, mapVars
  <2>2. CASE MainStep \/ \E d \in Devices : WriterStep(d) \/ ReaderStep(d)
    BY <2>2 DEF SessionInv, procVars, callVars, mapVars, MainStep, Listen, SetHandler,
       SetDiscNotify, WriterStep, WriterCheck, WriterLock, WriteNothing, WriteSome,
       EraseWritten,
       WriteError, ErrorNotification, WriterAt, ReaderStep, ReaderAt
  <2>3. CASE \E c \in Conns : Connect(c) \/ SocketClosed(c)
    BY <2>3 DEF IInv, TypeOK, SessionInv, callVars, mapVars, Connect, SocketClosed
  <2>4. ASSUME NEW c \in Conns, DiscBegin(c)
        PROVE  SessionInv'
    BY <2>4, DataDisc DEF IInv, TypeOK, SessionInv, DiscBegin, Goto, mapVars, procVars
  <2>5. ASSUME NEW c \in Conns, NEW s \in Serials, NEW l \in {"find", "add", "close_answer"},
               Dispatch(c, s, l)
        PROVE  SessionInv'
    <3>1. /\ conn[c] = "up"
          /\ \A g \in Handlers \ {Data(c)} : pc'[g] = pc[g]
          /\ UNCHANGED <<conndevmap, conn, main>>
      BY <2>5, DataDisc DEF IInv, TypeOK, Dispatch, Goto, mapVars, procVars
    <3> QED
      BY <3>1, DataDisc DEF SessionInv
  <2>6. CASE \E c \in Conns : \E s \in Serials : \/ ReceiveRawData(c, s)
                                                 \/ ReceiveOpen(c, s)
                                                 \/ ReceiveClose(c, s)
    BY <2>5, <2>6 DEF ReceiveRawData, ReceiveOpen, ReceiveClose
  <2>7. ASSUME NEW h \in Handlers, HandlerStep(h)
        PROVE  SessionInv'
    <3>1. PICK c \in Conns : h[2] = c /\ (h = Data(c) \/ h = Disc(c))
      BY HandlerCases
    <3>2. /\ pc[h] # "idle"
          /\ main' = main
          /\ \A g \in Handlers \ {h} : pc'[g] = pc[g]
          /\ pc[h] = "ctor_done" => h = Data(c)
      BY <2>7, <3>1, HandlerEffects, OtherCalls DEF IInv, LockInv, DiscLabels, Destroying
    <3>3. CASE RemoveConnectionEnd(h)
      <4>1. /\ conn' = [conn EXCEPT ![c] = "gone"]
            /\ UNCHANGED conndevmap
            /\ \A s \in Serials : <<c, s>> \notin conndevmap
            /\ h = Disc(c)
        BY <3>1, <3>3 DEF RemoveConnectionEnd, LeaveLoop, IInv, LockInv, DataLabels,
           RawAccess, Constructing,
           Destroying
      <4>2. conn[c] = "down" /\ pc[Data(c)] = "idle"
        BY <3>2, <4>1 DEF CallbackInv
      <4>3. ASSUME NEW b \in Conns
            PROVE  pc'[Data(b)] = pc[Data(b)] /\ (b # c => conn'[b] = conn[b]) /\ conn'[c] = "gone"
        BY <3>2, <4>1, DataDisc DEF IInv, TypeOK
      <4> QED
        BY <3>2, <4>1, <4>2, <4>3 DEF SessionInv
    <3>4. CASE ~RemoveConnectionEnd(h)
      <4>1. /\ conn' = conn
            /\ \/ conndevmap' \subseteq conndevmap
               \/ pc[h] = "ctor_done" /\ conndevmap' = conndevmap \cup {Dev(h)}
        BY <2>7, <3>4, HandlerEffects
      <4>2. ASSUME NEW b \in Conns
            PROVE  pc'[Data(b)] # "idle" => pc[Data(b)] # "idle"
        BY <3>1, <3>2, DataDisc
      <4>3. conn[c] = "gone" => h # Data(c)
        BY <3>2 DEF SessionInv
      <4> QED
        BY <3>1, <3>2, <4>1, <4>2, <4>3 DEF SessionInv, Dev
    <3> QED
      BY <3>3, <3>4
  <2> QED
    BY <2>1, <2>2, <2>3, <2>4, <2>6, <2>7 DEF Next, PeerStep, Finished
<1> QED
  BY <1>1, <1>2, Invariance, CallbackInvariance, PTL DEF Spec

(* A connection that is over has left nothing behind: no map entry, no     *)
(* locked node, no running thread.                                         *)
THEOREM NothingLeftBehind ==
  ASSUME SerialCallbacks, ~EarlyPeers
  PROVE  Spec => []GoneOwnsNothing
<1>1. IInv /\ CallbackInv /\ SessionInv => GoneOwnsNothing
  <2> SUFFICES ASSUME IInv, SessionInv, ~crashed,
                      NEW c \in Conns, NEW s \in Serials, conn[c] = "gone"
               PROVE  /\ <<c, s>> \notin conndevmap
                      /\ node[s] # c
                      /\ reader[<<c, s>>] \in Stopped
                      /\ writer[<<c, s>>] \in Stopped
    BY DEF GoneOwnsNothing
  <2>1. <<c, s>> \notin conndevmap /\ ~Building(c, s)
    BY DEF SessionInv, Building, Constructing
  <2>2. DeviceOK(c, s)
    BY DEF IInv, DeviceInv
  <2> QED
    BY <2>1, <2>2 DEF DeviceOK
<1> QED
  BY <1>1, Invariance, CallbackInvariance, SessionInvariance, PTL

-----------------------------------------------------------------------------
(* The server implements the registry. *)

(* The steps that the registry sees.                                       *)
LEMMA VisibleSteps ==
  ASSUME NEW h \in Handlers, HandlerStep(h)
  PROVE  \/ UNCHANGED <<conn, node, crashed>>
         \/ AddOpens(h) \/ JoinWriter(h) \/ RemoveConnectionEnd(h) \/ Die
<1>1. CASE FindDevice(h) \/ RawLock(h) \/ \E k \in 0 .. MaxChunk : RawPut(h, k)
  BY <1>1 DEF FindDevice, RawLock, RawPut, mapVars, procVars
<1>2. CASE RawFreed(h) \/ AdvanceFreedIterator(h)
  BY <1>2 DEF RawFreed, AdvanceFreedIterator, mapVars, procVars
<1>3. CASE AddExisting(h) \/ AddFails(h) \/ OpenAnswer(h)
  BY <1>3 DEF AddExisting, AddFails, OpenAnswer, mapVars, procVars
<1>4. CASE CtorMutex(h) \/ CtorWriter(h) \/ CtorDone(h)
  BY <1>4 DEF CtorMutex, CtorWriter, CtorDone, EnterMap, UnlockBuffer, mapVars, procVars
<1>5. CASE CloseAnswer(h) \/ RemoveDevice(h) \/ JoinReader(h)
  BY <1>5 DEF CloseAnswer, RemoveDevice, JoinReader, mapVars, procVars
<1>6. CASE RemoveConnection(h) \/ \E r \in Serials : DeleteNext(h, r)
  BY <1>6 DEF RemoveConnection, DeleteNext, mapVars, procVars
<1> QED
  BY <1>1, <1>2, <1>3, <1>4, <1>5, <1>6 DEF HandlerStep

(* Every step of a callback is a step of the registry or does not change   *)
(* what the registry sees.                                                 *)
LEMMA RegistryStep ==
  ASSUME IInv, CallbackInv, SessionInv, ~crashed, NEW h \in Handlers, HandlerStep(h)
  PROVE  [Registry!Next]_Registry!registryVars
<1> DEFINE session == [c \in Conns |-> Session(c)]
<1>1. PICK c \in Conns : h[2] = c /\ (h = Data(c) \/ h = Disc(c))
  BY HandlerCases
<1>2. serial[h] \in Serials
  BY DEF IInv, TypeOK
<1>3. conn' = conn => session' = session
  BY DEF Session
<1>4. CASE UNCHANGED <<conn, node, crashed>>
  BY <1>3, <1>4 DEF Registry!registryVars
<1>5. CASE AddOpens(h)
  <2>1. conn[c] \in {"up", "down"}
    BY <1>1, <1>5 DEF AddOpens, LockNode, SessionInv, CallbackInv
  <2>2. Registry!Acquire(c, serial[h])
    BY <1>1, <1>2, <1>3, <1>5, <2>1 DEF AddOpens, LockNode, Registry!Acquire, procVars,
       Session
  <2> QED
    BY <1>2, <2>2 DEF Registry!Next
<1>6. CASE JoinWriter(h)
  <2>1. node[serial[h]] = c
    BY <1>1, <1>2, <1>6 DEF JoinWriter, DeleteDevice, CloseNode, IInv, DeviceInv, DeviceOK,
       CallOK, Dev, Destroying
  <2>2. Registry!Release(c, serial[h])
    BY <1>1, <1>2, <1>3, <1>6, <2>1 DEF JoinWriter, DeleteDevice, CloseNode,
       Registry!Release, procVars
  <2> QED
    BY <1>2, <2>2 DEF Registry!Next
<1>7. CASE RemoveConnectionEnd(h)
  <2>1. /\ conn[c] = "down" /\ pc[Data(c)] = "idle"
        /\ conn' = [conn EXCEPT ![c] = "gone"] /\ UNCHANGED <<node, crashed>>
        /\ \A s \in Serials : <<c, s>> \notin conndevmap
    BY <1>1, <1>7 DEF RemoveConnectionEnd, LeaveLoop, CallbackInv, IInv, LockInv,
       DataLabels, RawAccess,
       Constructing, Destroying
  <2>2. \A s \in Serials : node[s] # c
    BY <2>1 DEF IInv, DeviceInv, DeviceOK, Building, Constructing
  <2>3. session' = [session EXCEPT ![c] = "over"]
    BY <2>1 DEF Session, IInv, TypeOK
  <2>4. Registry!Leave(c)
    BY <2>1, <2>2, <2>3 DEF Registry!Leave, Session
  <2> QED
    BY <2>4 DEF Registry!Next
<1>8. CASE Die
  <2>1. Registry!Halt
    BY <1>3, <1>8 DEF Die, Registry!Halt
  <2> QED
    BY <2>1 DEF Registry!Next
<1> QED
  BY <1>4, <1>5, <1>6, <1>7, <1>8, VisibleSteps

(* Every behaviour of the server is one that DeviceRegistry allows.        *)
THEOREM ServerImplementsRegistry ==
  ASSUME SerialCallbacks, ~EarlyPeers
  PROVE  Spec => ImplementsRegistry
<1>1. Init => Registry!Init
  BY DEF Init, Registry!Init, Session
<1>2. IInv /\ CallbackInv /\ SessionInv /\ [Next]_vars => [Registry!Next]_Registry!registryVars
  <2> SUFFICES ASSUME IInv, CallbackInv, SessionInv, [Next]_vars
               PROVE  [Registry!Next]_Registry!registryVars
    OBVIOUS
  <2>1. CASE UNCHANGED <<conn, node, crashed>>
    BY <2>1 DEF Registry!registryVars, Session
  <2>2. CASE UNCHANGED vars
    BY <2>1, <2>2 DEF vars, procVars, mapVars
  <2>3. CASE \/ MainStep
             \/ \E c \in Conns : DiscBegin(c)
             \/ \E c \in Conns : \E s \in Serials : \/ ReceiveRawData(c, s)
                                                    \/ ReceiveOpen(c, s)
                                                   \/ ReceiveClose(c, s)
             \/ \E d \in Devices : WriterStep(d) \/ ReaderStep(d)
    BY <2>1, <2>3 DEF procVars, mapVars, MainStep, Listen, SetHandler,
       SetDiscNotify, DiscBegin, ReceiveRawData, ReceiveOpen, ReceiveClose, Dispatch,
       WriterStep,
       WriterCheck, WriterLock, WriteNothing, WriteSome, EraseWritten, WriteError,
       ErrorNotification, WriterAt, ReaderStep, ReaderAt
  <2>4. ASSUME NEW c \in Conns, Connect(c), ~crashed
        PROVE  Registry!Next
    <3>1. [b \in Conns |-> Session(b)]' = [[b \in Conns |-> Session(b)] EXCEPT ![c] = "open"]
      BY <2>4 DEF Connect, Session, IInv, TypeOK
    <3>2. Registry!Join(c)
      BY <2>4, <3>1 DEF Connect, Session, Registry!Join, mapVars
    <3> QED
      BY <2>4, <3>2 DEF Registry!Next
  <2>5. ASSUME NEW c \in Conns, SocketClosed(c)
        PROVE  UNCHANGED Registry!registryVars
    <3>1. main = "running" /\ conn[c] = "up"
      BY <2>5 DEF SocketClosed, SessionInv
    <3>2. [b \in Conns |-> Session(b)]' = [b \in Conns |-> Session(b)]
      BY <2>5, <3>1 DEF SocketClosed, Session, IInv, TypeOK
    <3> QED
      BY <2>5, <3>2 DEF SocketClosed, Registry!registryVars, mapVars
  <2> QED
    BY <2>2, <2>3, <2>4, <2>5, RegistryStep DEF Next, PeerStep, Finished
<1> QED
  BY <1>1, <1>2, Invariance, CallbackInvariance, SessionInvariance, PTL
     DEF Spec, ImplementsRegistry, Registry!Spec

-----------------------------------------------------------------------------
(* The bytes. *)

(* Appending the next k bytes keeps the buffer consecutive.                *)
LEMMA AppendConsecutive ==
  ASSUME NEW buf \in Seq(Nat), NEW a \in Nat, NEW s \in Nat, NEW k \in Nat,
         Consecutive(buf, 0, a, s)
  PROVE  Consecutive(buf \o [i \in 1 .. k |-> a + i], 0, a + k, s)
<1> DEFINE new == [i \in 1 .. k |-> a + i]
<1>1. new \in Seq(Nat) /\ Len(new) = k /\ \A i \in 1 .. k : new[i] = a + i
  OBVIOUS
<1> HIDE DEF new
<1> DEFINE both == buf \o new
<1>2. /\ Len(buf) \in Nat
      /\ Len(both) = Len(buf) + k
      /\ \A i \in 1 .. Len(buf) + k :
           both[i] = IF i <= Len(buf) THEN buf[i] ELSE new[i - Len(buf)]
  <2>1. Len(buf) \in Nat
    OBVIOUS
  <2>2. /\ Len(buf \o new) = Len(buf) + Len(new)
        /\ \A i \in 1 .. Len(buf) + Len(new) :
             (buf \o new)[i] = IF i <= Len(buf) THEN buf[i] ELSE new[i - Len(buf)]
    BY <1>1, ConcatProperties, Zenon
  <2> QED
    BY <1>1, <2>1, <2>2
<1> HIDE DEF both
<1>3. ASSUME NEW i \in 1 .. Len(buf) + k
      PROVE  both[i] + 0 = s + i
  <2>1. CASE i <= Len(buf)
    <3>1. i \in 1 .. Len(buf) /\ both[i] = buf[i] /\ buf[i] \in Nat
      BY <1>2, <2>1
    <3> QED
      BY <3>1 DEF Consecutive
  <2>2. CASE i > Len(buf)
    <3>1. i - Len(buf) \in 1 .. k /\ both[i] = new[i - Len(buf)]
      BY <1>2, <2>2
    <3> QED
      BY <1>1, <1>2, <3>1 DEF Consecutive
  <2>3. i \in Int /\ Len(buf) \in Int
    BY <1>2
  <2> QED
    BY <2>1, <2>2, <2>3
<1>4. Consecutive(both, 0, a + k, s)
  BY <1>2, <1>3 DEF Consecutive
<1> QED
  BY <1>4 DEF both, new

(* A write() that takes the first k bytes makes byte buf[k] the last one   *)
(* sent.                                                                   *)
LEMMA TakeConsecutive ==
  ASSUME NEW buf \in Seq(Nat), NEW a \in Nat, NEW s \in Nat, NEW k \in 1 .. Len(buf),
         Consecutive(buf, 0, a, s)
  PROVE  Consecutive(buf, k, a, buf[k])
BY DEF Consecutive

(* Erasing the w bytes that were taken leaves the bytes from s + 1 to a.   *)
LEMMA EraseConsecutive ==
  ASSUME NEW buf \in Seq(Nat), NEW w \in Nat, NEW a \in Nat, NEW s \in Nat,
         Consecutive(buf, w, a, s)
  PROVE  /\ Consecutive(SubSeq(buf, w + 1, Len(buf)), 0, a, s)
         /\ SubSeq(buf, w + 1, Len(buf)) = [i \in 1 .. a - s |-> s + i]
<1> DEFINE rest == SubSeq(buf, w + 1, Len(buf))
<1>1. w <= Len(buf) /\ Len(buf) \in Nat /\ Len(buf) - w = a - s
  BY DEF Consecutive
<1>2. /\ rest = [i \in 1 .. Len(buf) - w |-> buf[w + i]]
      /\ Len(rest) = Len(buf) - w
  BY <1>1
<1>3. ASSUME NEW i \in 1 .. Len(buf) - w
      PROVE  rest[i] = s + i
  <2>1. w + i \in 1 .. Len(buf) /\ rest[i] = buf[w + i]
    BY <1>1, <1>2
  <2>2. buf[w + i] + w = s + (w + i) /\ buf[w + i] \in Nat
    BY <2>1 DEF Consecutive
  <2> QED
    BY <2>1, <2>2
<1> HIDE DEF rest
<1>4. Consecutive(rest, 0, a, s)
  <2>1. 0 <= Len(rest) /\ a + 0 = s + Len(rest)
    BY <1>1, <1>2
  <2>2. ASSUME NEW i \in 1 .. Len(rest)
        PROVE  rest[i] + 0 = s + i
    <3>1. i \in 1 .. Len(buf) - w
      BY <1>2
    <3>2. rest[i] = s + i /\ i \in Nat
      BY <1>1, <1>3, <3>1
    <3> QED
      BY <3>2
  <2> QED
    BY <2>1, <2>2 DEF Consecutive
<1>5. rest = [i \in 1 .. a - s |-> s + i]
  BY <1>1, <1>2, <1>3
<1> QED
  BY <1>4, <1>5 DEF rest

(* A step of a callback keeps every buffer consecutive.                    *)
LEMMA BytesHandlerStep ==
  ASSUME IInv, BytesInv, NEW h \in Handlers, HandlerStep(h)
  PROVE  BytesInv'
<1> USE DEF IInv, TypeOK
<1>1. PICK c \in Conns : h[2] = c /\ (h = Data(c) \/ h = Disc(c))
  BY HandlerCases
<1>2. Dev(h) \in Devices /\ Dev(h) = <<c, serial[h]>> /\ serial[h] \in Serials
  BY <1>1 DEF Dev, Devices
<1>3. CallOK(h) /\ DeviceOK(c, serial[h]) /\ BytesOK(Dev(h))
  BY <1>2 DEF DeviceInv, BytesInv
<1>idle. CASE /\ UNCHANGED <<bufVars, writer>>
              /\ \A d \in Devices : net_to_dev_mutex'[d] = "unmade" => net_to_dev_mutex[d] = "unmade"
  BY <1>idle DEF BytesInv, BytesOK, bufVars
<1>4. ASSUME NEW k \in 0 .. MaxChunk, RawPut(h, k)
      PROVE  BytesInv'
  <2>1. PICK d \in Devices : d = Dev(h)
    BY <1>2
  <2>2. net_to_dev_mutex[d] = "data" /\ wrote[d] = 0
    BY <1>1, <1>2, <1>3, <1>4, <2>1 DEF RawPut, CallOK, DeviceOK, BytesOK, WriterHolds
  <2>3. k \in Nat /\ net_to_dev_buffer[d] \in Seq(Nat) /\ accepted[d] \in Nat /\ sent[d] \in Nat
    BY ServerAssumption DEF ServerAssumption
  <2>4. /\ net_to_dev_buffer'[d] = net_to_dev_buffer[d] \o [i \in 1 .. k |-> accepted[d] + i]
        /\ accepted'[d] = accepted[d] + k
        /\ UNCHANGED <<sent, wrote, writer>>
        /\ \A e \in Devices \ {d} : /\ net_to_dev_buffer'[e] = net_to_dev_buffer[e]
                                    /\ accepted'[e] = accepted[e]
                                    /\ net_to_dev_mutex'[e] = net_to_dev_mutex[e]
        /\ net_to_dev_mutex'[d] = "free"
    BY <1>4, <2>1 DEF RawPut
  <2>5. BytesOK(d)'
    BY <1>3, <2>1, <2>2, <2>3, <2>4, AppendConsecutive DEF BytesOK
  <2>6. \A e \in Devices \ {d} : BytesOK(e)'
    BY <2>4 DEF BytesInv, BytesOK
  <2> QED
    BY <2>5, <2>6 DEF BytesInv
<1>5. CASE CtorMutex(h)
  <2>1. /\ net_to_dev_buffer[Dev(h)] = <<>>
        /\ UNCHANGED <<net_to_dev_buffer, wrote, accepted, sent, writer>>
    BY <1>1, <1>2, <1>3, <1>5 DEF CtorMutex, DeviceOK, Building, Constructing, LockInv,
       DiscLabels,
       Destroying, BytesOK
  <2>2. \A d \in Devices : net_to_dev_mutex'[d] = "unmade" => net_to_dev_mutex[d] = "unmade"
    BY <1>2, <1>5 DEF CtorMutex
  <2> QED
    BY <1>idle, <2>1, <2>2 DEF bufVars
<1>6. CASE CtorWriter(h)
  <2>1. wrote[Dev(h)] = 0
    BY <1>1, <1>2, <1>3, <1>6 DEF CtorWriter, DeviceOK, Building, Constructing, LockInv,
       DiscLabels,
       Destroying, BytesOK, Stopped
  <2>2. /\ UNCHANGED <<bufVars, net_to_dev_mutex>>
        /\ \A d \in Devices \ {Dev(h)} : writer'[d] = writer[d]
    BY <1>2, <1>6 DEF CtorWriter
  <2> QED
    BY <2>1, <2>2 DEF BytesInv, BytesOK, bufVars
<1>7. CASE JoinWriter(h)
  <2>1. wrote[Dev(h)] = 0
    BY <1>2, <1>3, <1>7 DEF JoinWriter, DeleteDevice, CloseNode, BytesOK, Stopped
  <2>2. /\ net_to_dev_buffer'[Dev(h)] = <<>> /\ accepted'[Dev(h)] = 0 /\ sent'[Dev(h)] = 0
        /\ UNCHANGED <<wrote, writer>>
        /\ \A d \in Devices \ {Dev(h)} : /\ net_to_dev_buffer'[d] = net_to_dev_buffer[d]
                                         /\ accepted'[d] = accepted[d]
                                        /\ sent'[d] = sent[d]
                                        /\ net_to_dev_mutex'[d] = net_to_dev_mutex[d]
    BY <1>2, <1>7 DEF JoinWriter, DeleteDevice, CloseNode
  <2>3. PICK d \in Devices : d = Dev(h)
    BY <1>2
  <2>4. BytesOK(d)'
    BY <2>1, <2>2, <2>3 DEF BytesOK, Consecutive
  <2>5. \A e \in Devices \ {d} : BytesOK(e)'
    BY <2>2, <2>3 DEF BytesInv, BytesOK
  <2> QED
    BY <2>4, <2>5 DEF BytesInv
<1>9. CASE FindDevice(h) \/ RawLock(h) \/ RawFreed(h) \/ AdvanceFreedIterator(h)
  BY <1>idle, <1>9 DEF FindDevice, RawLock, RawFreed, AdvanceFreedIterator, Die, devVars
<1>10. CASE AddExisting(h) \/ AddFails(h) \/ AddOpens(h) \/ OpenAnswer(h) \/ CtorDone(h)
  BY <1>idle, <1>10 DEF AddExisting, AddFails, AddOpens, LockNode, OpenAnswer, CtorDone,
     EnterMap, UnlockBuffer, devVars
<1>11. CASE CloseAnswer(h) \/ RemoveDevice(h) \/ JoinReader(h)
  BY <1>idle, <1>11 DEF CloseAnswer, RemoveDevice, JoinReader, devVars
<1>12. CASE RemoveConnection(h) \/ RemoveConnectionEnd(h) \/ \E r \in Serials : DeleteNext(h, r)
  BY <1>idle, <1>12 DEF RemoveConnection, RemoveConnectionEnd, LeaveLoop, DeleteNext,
     devVars
<1> QED
  BY <1>4, <1>5, <1>6, <1>7, <1>9, <1>10, <1>11, <1>12 DEF HandlerStep

(* A step of a device thread keeps every buffer consecutive.               *)
LEMMA BytesThreadStep ==
  ASSUME IInv, BytesInv, NEW d \in Devices, WriterStep(d) \/ ReaderStep(d)
  PROVE  BytesInv'
<1> USE DEF IInv, TypeOK, WriterAt, UnlockBuffer
<1> DEFINE buf == net_to_dev_buffer[d]
<1>1. /\ BytesOK(d) /\ buf \in Seq(Nat) /\ Len(buf) \in Nat
      /\ writer[d] \in WriterHolds => net_to_dev_mutex[d] = "writer"
  <2>1. PICK c \in Conns, s \in Serials : d = <<c, s>>
    BY DEF Devices
  <2> QED
    BY <2>1 DEF BytesInv, DeviceInv, DeviceOK
<1>2. ASSUME writer[d] # "erase" \/ wrote[d] = 0,
             UNCHANGED bufVars,
             \A e \in Devices \ {d} : writer'[e] = writer[e],
             \A e \in Devices : net_to_dev_mutex'[e] = "unmade" => net_to_dev_mutex[e] = "unmade"
      PROVE  BytesInv'
  BY <1>1, <1>2 DEF BytesInv, BytesOK, bufVars
<1>3. CASE WriterCheck(d) \/ WriterLock(d) \/ WriteNothing(d) \/ WriteError(d) \/ ErrorNotification(d)
  BY <1>2, <1>3 DEF WriterCheck, WriterLock, WriteNothing, WriteError, ErrorNotification
<1>4. ASSUME NEW k \in 1 .. Len(buf), WriteSome(d, k)
      PROVE  BytesInv'
  <2>1. /\ wrote[d] = 0 /\ sent'[d] = buf[k]
        /\ wrote'[d] = k /\ writer'[d] = "erase"
        /\ UNCHANGED <<net_to_dev_buffer, accepted, net_to_dev_mutex>>
        /\ \A e \in Devices \ {d} : sent'[e] = sent[e] /\ wrote'[e] = wrote[e] /\ writer'[e] = writer[e]
    BY <1>1, <1>4 DEF WriteSome, BytesOK
  <2>2. Consecutive(buf, k, accepted[d], buf[k])
    BY <1>1, <2>1, TakeConsecutive DEF BytesOK
  <2>3. net_to_dev_mutex[d] # "unmade"
    BY <1>1, <1>4 DEF WriteSome, WriterHolds
  <2>4. BytesOK(d)'
    BY <2>1, <2>2, <2>3 DEF BytesOK
  <2>5. \A e \in Devices \ {d} : BytesOK(e)'
    BY <2>1 DEF BytesInv, BytesOK
  <2> QED
    BY <2>4, <2>5 DEF BytesInv
<1>5. CASE EraseWritten(d)
  <2> DEFINE rest == SubSeq(buf, wrote[d] + 1, Len(buf))
  <2>1. /\ net_to_dev_buffer'[d] = rest /\ wrote'[d] = 0 /\ net_to_dev_mutex'[d] = "free"
        /\ UNCHANGED <<accepted, sent>>
        /\ \A e \in Devices \ {d} : /\ net_to_dev_buffer'[e] = net_to_dev_buffer[e]
                                    /\ wrote'[e] = wrote[e]
                                    /\ writer'[e] = writer[e]
                                    /\ net_to_dev_mutex'[e] = net_to_dev_mutex[e]
    BY <1>5 DEF EraseWritten
  <2>2. Consecutive(rest, 0, accepted[d], sent[d])
    BY <1>1, EraseConsecutive DEF BytesOK
  <2>4. BytesOK(d)'
    BY <2>1, <2>2 DEF BytesOK
  <2>5. \A e \in Devices \ {d} : BytesOK(e)'
    BY <2>1 DEF BytesInv, BytesOK
  <2> QED
    BY <2>4, <2>5 DEF BytesInv
<1>6. CASE ReaderStep(d)
  BY <1>6 DEF ReaderStep, ReaderAt, BytesInv, BytesOK, bufVars
<1> QED
  BY <1>3, <1>4, <1>5, <1>6 DEF WriterStep

(* Every buffer is consecutive in every reachable state.                   *)
LEMMA BytesInvariance == Spec => []BytesInv
<1>1. Init => BytesInv
  BY DEF Init, BytesInv, BytesOK, Consecutive
<1>2. IInv /\ BytesInv /\ [Next]_vars => BytesInv'
  <2> SUFFICES ASSUME IInv, BytesInv, [Next]_vars PROVE BytesInv'
    OBVIOUS
  <2>1. CASE UNCHANGED <<bufVars, devVars>>
    BY <2>1 DEF BytesInv, BytesOK, bufVars, devVars
  <2>2. CASE UNCHANGED vars
    BY <2>1, <2>2 DEF vars
  <2>3. CASE MainStep \/ \E c \in Conns : PeerStep(c) \/ DiscBegin(c)
    BY <2>1, <2>3 DEF MainStep, Listen, SetHandler, SetDiscNotify, PeerStep, Connect,
       SocketClosed,
       ReceiveRawData, ReceiveOpen, ReceiveClose, Dispatch, DiscBegin
  <2> QED
    BY <2>2, <2>3, BytesHandlerStep, BytesThreadStep DEF Next, Finished
<1> QED
  BY <1>1, <1>2, Invariance, PTL DEF Spec

(* Bytes reach the controller in the order in which they were accepted,    *)
(* none lost and none twice.                                               *)
THEOREM BytesStayInOrder == Spec => []BytesInOrder
<1>1. IInv /\ BytesInv => BytesInOrder
  <2> SUFFICES ASSUME IInv, BytesInv, NEW d \in conndevmap
               PROVE  SubSeq(net_to_dev_buffer[d], wrote[d] + 1, Len(net_to_dev_buffer[d]))
                        = [i \in 1 .. accepted[d] - sent[d] |-> sent[d] + i]
    BY DEF BytesInOrder
  <2>1. /\ d \in Devices /\ net_to_dev_buffer[d] \in Seq(Nat)
        /\ wrote[d] \in Nat /\ accepted[d] \in Nat /\ sent[d] \in Nat
    BY DEF IInv, TypeOK
  <2>2. Consecutive(net_to_dev_buffer[d], wrote[d], accepted[d], sent[d])
    BY <2>1 DEF BytesInv, BytesOK
  <2> DEFINE buf == net_to_dev_buffer[d]
             w == wrote[d]
             a == accepted[d]
             s == sent[d]
  <2>3. buf \in Seq(Nat) /\ w \in Nat /\ a \in Nat /\ s \in Nat /\ Consecutive(buf, w, a, s)
    BY <2>1, <2>2
  <2> HIDE DEF buf, w, a, s
  <2>4. SubSeq(buf, w + 1, Len(buf)) = [i \in 1 .. a - s |-> s + i]
    BY <2>3, EraseConsecutive
  <2> QED
    BY <2>4 DEF buf, w, a, s
<1> QED
  BY <1>1, Invariance, BytesInvariance, PTL

-----------------------------------------------------------------------------
(* The end of the writer. *)

(* A step of a callback keeps the end of the writer: only the destructor   *)
(* overtakes a writer that is past its loop condition.                     *)
LEMMA ExitHandlerStep ==
  ASSUME IInv, ExitInv, NEW h \in Handlers, HandlerStep(h)
  PROVE  ExitInv'
<1> USE DEF IInv, TypeOK
<1>1. Dev(h) \in Devices
  BY DEF Dev, Devices, Handlers
<1>2. ASSUME NEW d \in Devices, should_exit'[d], writer'[d] \in {"lock", "write", "erase"}
      PROVE  \E g \in Handlers : pc'[g] \in Destroying /\ Dev(g)' = d
  <2>1. /\ writer'[d] = writer[d] \/ writer'[d] \in ThreadStart
        /\ should_exit'[d] = should_exit[d] \/ (pc'[h] = "join_reader" /\ Dev(h)' = d)
    <3>1. CASE FindDevice(h) \/ RawLock(h) \/ \E k \in 0 .. MaxChunk : RawPut(h, k)
      BY <3>1 DEF FindDevice, RawLock, RawPut, devVars
    <3>2. CASE RawFreed(h) \/ AdvanceFreedIterator(h)
      BY <3>2 DEF RawFreed, AdvanceFreedIterator, Die, devVars
    <3>3. CASE AddExisting(h) \/ AddFails(h) \/ AddOpens(h) \/ OpenAnswer(h)
      BY <1>2, <3>3 DEF AddExisting, AddFails, AddOpens, LockNode, OpenAnswer, devVars
    <3>4. CASE CtorMutex(h) \/ CtorDone(h) \/ CtorWriter(h)
      BY <1>1, <1>2, <3>4 DEF CtorMutex, CtorWriter, CtorDone, EnterMap
    <3>5. CASE CloseAnswer(h) \/ JoinReader(h) \/ JoinWriter(h)
      BY <3>5 DEF CloseAnswer, JoinReader, JoinWriter, DeleteDevice, devVars
    <3>6. CASE RemoveDevice(h)
      BY <1>1, <1>2, <3>6 DEF RemoveDevice, Goto, Dev
    <3>7. CASE RemoveConnection(h) \/ RemoveConnectionEnd(h)
      BY <3>7 DEF RemoveConnection, RemoveConnectionEnd, LeaveLoop, devVars
    <3>8. ASSUME NEW r \in Serials, DeleteNext(h, r)
          PROVE  /\ writer'[d] = writer[d]
                 /\ should_exit'[d] = should_exit[d] \/ (pc'[h] = "join_reader" /\ Dev(h)' = d)
      <4>1. /\ writer' = writer /\ pc'[h] = "join_reader" /\ Dev(h)' = <<h[2], r>>
            /\ should_exit' = [should_exit EXCEPT ![<<h[2], r>>] = TRUE]
        BY <3>8 DEF DeleteNext, Goto, Dev
      <4> QED
        BY <4>1
    <3> QED
      BY <3>1, <3>2, <3>3, <3>4, <3>5, <3>6, <3>7, <3>8 DEF HandlerStep
  <2>3. CASE pc'[h] = "join_reader" /\ Dev(h)' = d
    BY <2>3 DEF Destroying
  <2>4. CASE should_exit[d] /\ writer[d] \in {"lock", "write", "erase"}
    <3>1. PICK g \in Handlers : pc[g] \in Destroying /\ Dev(g) = d
      BY <2>4 DEF ExitInv
    <3>2. CASE g # h
      BY <3>1, <3>2, OtherCalls DEF Dev
    <3>3. CASE g = h
      <4>1. JoinReader(h) \/ JoinWriter(h)
        BY <3>1, <3>3 DEF HandlerStep, FindDevice, RawLock, RawPut, RawFreed, RawAccess,
           AddExisting,
           AddFails, AddOpens, LockNode, CtorMutex, CtorWriter, CtorDone, EnterMap,
           OpenAnswer,
           CloseAnswer, RemoveDevice, RemoveConnection, RemoveConnectionEnd, LeaveLoop,
           AdvanceFreedIterator, DeleteNext, Destroying
      <4>2. JoinReader(h)
        BY <2>4, <3>1, <3>3, <4>1 DEF JoinWriter, Stopped
      <4> QED
        BY <3>1, <3>3, <4>2 DEF JoinReader, Goto, Dev, Destroying
    <3> QED
      BY <3>2, <3>3
  <2> QED
    BY <1>2, <2>1, <2>3, <2>4 DEF ThreadStart
<1> QED
  BY <1>2 DEF ExitInv

(* A controller whose write() has failed gets no further byte before the   *)
(* device is closed.                                                       *)
THEOREM FailedDeviceIsLeftAlone == Spec => FailedDeviceGetsNothing
<1>1. Init => ExitInv
  BY DEF Init, ExitInv
<1>2. IInv /\ ExitInv /\ [Next]_vars => ExitInv'
  <2> SUFFICES ASSUME IInv, ExitInv, [Next]_vars PROVE ExitInv'
    OBVIOUS
  <2>1. CASE UNCHANGED <<callVars, devVars>>
    BY <2>1 DEF ExitInv, Dev, callVars, devVars
  <2>2. CASE UNCHANGED vars
    BY <2>1, <2>2 DEF vars
  <2>3. CASE MainStep \/ \E c \in Conns : Connect(c) \/ SocketClosed(c)
    BY <2>1, <2>3 DEF MainStep, Listen, SetHandler, SetDiscNotify, Connect, SocketClosed
  <2>4. ASSUME NEW h \in Handlers, pc[h] = "idle", UNCHANGED devVars,
               \A g \in Handlers \ {h} : pc'[g] = pc[g] /\ serial'[g] = serial[g]
        PROVE  ExitInv'
    BY <2>4 DEF ExitInv, Dev, devVars, Destroying
  <2>5. ASSUME NEW c \in Conns, DiscBegin(c)
        PROVE  ExitInv'
    BY <2>4, <2>5, DataDisc DEF IInv, TypeOK, DiscBegin, Goto
  <2>7. ASSUME NEW c \in Conns, NEW s \in Serials, NEW l, Dispatch(c, s, l)
        PROVE  ExitInv'
    BY <2>4, <2>7, DataDisc DEF IInv, TypeOK, Dispatch, Goto
  <2>8. CASE \E c \in Conns : \E s \in Serials : \/ ReceiveRawData(c, s)
                                                 \/ ReceiveOpen(c, s)
                                                 \/ ReceiveClose(c, s)
    BY <2>7, <2>8 DEF ReceiveRawData, ReceiveOpen, ReceiveClose
  <2>6. ASSUME NEW d \in Devices, WriterStep(d) \/ ReaderStep(d)
        PROVE  ExitInv'
    BY <2>6 DEF IInv, TypeOK, ExitInv, Dev, WriterStep, WriterCheck, WriterLock,
       WriteNothing,
       WriteSome, EraseWritten, WriteError, ErrorNotification, WriterAt, ReaderStep,
       ReaderAt,
       callVars, mapVars
  <2> QED
    BY <2>2, <2>3, <2>5, <2>6, <2>8, ExitHandlerStep DEF Next, PeerStep, Finished
<1>3. TypeOK /\ ExitInv /\ [Next]_vars =>
        [\A d \in Devices :
           /\ should_exit[d]
           /\ \A h \in Handlers : ~(pc[h] \in Destroying /\ Dev(h) = d)
           => sent'[d] = sent[d]]_vars
  <2> SUFFICES ASSUME TypeOK, ExitInv, [Next]_vars, NEW d \in Devices, should_exit[d],
                      \A h \in Handlers : ~(pc[h] \in Destroying /\ Dev(h) = d)
               PROVE  sent'[d] = sent[d]
    OBVIOUS
  <2>1. CASE UNCHANGED sent
    BY <2>1
  <2>2. CASE UNCHANGED vars
    BY <2>1, <2>2 DEF vars, bufVars
  <2>3. CASE MainStep \/ \E c \in Conns : PeerStep(c) \/ DiscBegin(c)
    BY <2>1, <2>3 DEF MainStep, Listen, SetHandler, SetDiscNotify, PeerStep, Connect,
       SocketClosed,
       ReceiveRawData, ReceiveOpen, ReceiveClose, Dispatch, DiscBegin, bufVars
  <2>4. ASSUME NEW h \in Handlers, HandlerStep(h)
        PROVE  sent'[d] = sent[d]
    <3>1. CASE JoinWriter(h)
      BY <3>1 DEF JoinWriter, DeleteDevice, Destroying, TypeOK
    <3> QED
      BY <2>1, <2>4, <3>1 DEF HandlerStep, FindDevice, RawLock, RawPut, RawFreed, Die,
         AddExisting,
         AddFails, AddOpens, LockNode, CtorMutex, CtorWriter, CtorDone, EnterMap,
         OpenAnswer,
         CloseAnswer, RemoveDevice, JoinReader, RemoveConnection, RemoveConnectionEnd,
         LeaveLoop,
         AdvanceFreedIterator, DeleteNext, bufVars
  <2>5. ASSUME NEW e \in Devices, WriterStep(e) \/ ReaderStep(e)
        PROVE  sent'[d] = sent[d]
    <3>1. writer[d] # "write"
      BY DEF ExitInv
    <3> QED
      BY <2>1, <2>5, <3>1 DEF TypeOK, WriterStep, WriterCheck, WriterLock, WriteNothing,
         WriteSome,
         EraseWritten, WriteError, ErrorNotification, WriterAt, ReaderStep, ReaderAt,
         bufVars
  <2> QED
    BY <2>2, <2>3, <2>4, <2>5 DEF Next, Finished
<1> QED
  BY <1>1, <1>2, <1>3, TypeCorrect, Invariance, PTL DEF Spec, FailedDeviceGetsNothing

-----------------------------------------------------------------------------
(* Who waits for whom. *)

(* What a step of a callback does to the mutex of a buffer and to          *)
(* should_exit.                                                            *)
LEMMA WaitEffects ==
  ASSUME IInv, NEW h \in Handlers, HandlerStep(h), NEW d \in Devices
  PROVE  /\ net_to_dev_mutex'[d] = "data" =>
              \/ net_to_dev_mutex[d] = "data" /\ ~(pc[h] = "raw_put" /\ Dev(h) = d)
              \/ UNCHANGED <<net_to_dev_mutex, pc, serial>>
              \/ /\ pc[h] = "raw_lock" /\ Dev(h) = d
                 /\ pc'[h] = "raw_put" /\ serial'[h] = serial[h]
         /\ should_exit[d] => should_exit'[d] \/ map_mutex = NoHandler
         /\ pc'[h] \in Destroying /\ (pc[h] \in Destroying => should_exit[Dev(h)])
              => should_exit'[Dev(h)']
<1> USE DEF IInv, TypeOK, Goto, Destroying
<1>1. Dev(h) \in Devices
  BY DEF Dev, Devices, Handlers
<1>2. CASE FindDevice(h) \/ \E k \in 0 .. MaxChunk : RawPut(h, k)
  BY <1>1, <1>2 DEF FindDevice, RawPut, devVars
<1>3. CASE RawLock(h)
  BY <1>1, <1>3 DEF RawLock
<1>4. CASE RawFreed(h) \/ AdvanceFreedIterator(h)
  <2>1. CASE Die
    <3>1. pc[h] \in RawAccess \cup {"advance"}
      BY <1>4 DEF RawFreed, AdvanceFreedIterator
    <3> QED
      BY <2>1, <3>1 DEF Die, callVars, devVars, RawAccess
  <2>2. CASE ~Die
    BY <1>1, <1>4, <2>2 DEF RawFreed, AdvanceFreedIterator, RawAccess, devVars
  <2> QED
    BY <2>1, <2>2
<1>5. CASE AddExisting(h) \/ AddFails(h) \/ AddOpens(h) \/ OpenAnswer(h)
  BY <1>5 DEF AddExisting, AddFails, AddOpens, LockNode, OpenAnswer, devVars
<1>6. CASE CtorMutex(h) \/ CtorWriter(h) \/ CtorDone(h)
  BY <1>1, <1>6 DEF CtorMutex, CtorWriter, CtorDone, EnterMap, UnlockBuffer
<1>7. CASE CloseAnswer(h) \/ RemoveDevice(h)
  BY <1>1, <1>7 DEF CloseAnswer, RemoveDevice, Dev, devVars
<1>8. CASE RemoveConnection(h) \/ RemoveConnectionEnd(h)
  BY <1>8 DEF RemoveConnection, RemoveConnectionEnd, LeaveLoop, devVars
<1>9. CASE \E r \in Serials : DeleteNext(h, r)
  <2>1. PICK r \in Serials : DeleteNext(h, r)
    BY <1>9
  <2>2. /\ pc[h] = "iterate" /\ Dev(h)' = <<h[2], r>> /\ <<h[2], r>> \in Devices
        /\ should_exit' = [should_exit EXCEPT ![<<h[2], r>>] = TRUE]
        /\ net_to_dev_mutex' = net_to_dev_mutex
    BY <2>1 DEF DeleteNext, Dev, Devices, Handlers
  <2> QED
    BY <2>2
<1>10. CASE JoinReader(h) \/ JoinWriter(h)
  <2>1. /\ pc[h] \in Destroying
        /\ net_to_dev_mutex'[d] = "data" => net_to_dev_mutex[d] = "data"
        /\ should_exit' = should_exit /\ Dev(h)' = Dev(h)
    BY <1>1, <1>10 DEF JoinReader, JoinWriter, DeleteDevice, CloseNode, Dev, devVars
  <2> QED
    BY <2>1
<1> QED
  BY <1>2, <1>3, <1>4, <1>5, <1>6, <1>7, <1>8, <1>9, <1>10 DEF HandlerStep

(* A step of a callback keeps it: a buffer is locked only by the callback  *)
(* that fills it, and no device is opened while another is destroyed.      *)
LEMMA WaitHandlerStep ==
  ASSUME IInv, WaitInv, NEW h \in Handlers, HandlerStep(h)
  PROVE  WaitInv'
<1>1. ASSUME NEW c \in Conns, NEW s \in Serials, net_to_dev_mutex'[<<c, s>>] = "data"
      PROVE  pc'[Data(c)] = "raw_put" /\ serial'[Data(c)] = s
  <2>1. <<c, s>> \in Devices /\ Data(c) \in Handlers
    BY DataDisc DEF Devices
  <2>2. CASE UNCHANGED <<net_to_dev_mutex, pc, serial>>
    BY <1>1, <2>2 DEF WaitInv
  <2>3. CASE pc[h] = "raw_lock" /\ Dev(h) = <<c, s>> /\ pc'[h] = "raw_put" /\ serial'[h] = serial[h]
    <3>1. h = Data(c) /\ serial[h] = s
      BY <2>3, HandlerCases, DataDisc DEF IInv, LockInv, DiscLabels, Destroying, Dev
    <3> QED
      BY <2>3, <3>1
  <2>4. CASE net_to_dev_mutex[<<c, s>>] = "data" /\ ~(pc[h] = "raw_put" /\ Dev(h) = <<c, s>>)
    <3>1. pc[Data(c)] = "raw_put" /\ serial[Data(c)] = s
      BY <2>4 DEF WaitInv
    <3>2. Data(c) # h
      BY <2>4, <3>1, DataDisc DEF Dev
    <3> QED
      BY <2>1, <3>1, <3>2, OtherCalls DEF IInv
  <2> QED
    BY <1>1, <2>1, <2>2, <2>3, <2>4, WaitEffects
<1>2. ASSUME NEW g \in Handlers, pc'[g] \in Destroying
      PROVE  should_exit'[Dev(g)']
  <2>1. CASE g = h
    <3>1. Dev(h) \in Devices /\ (pc[h] \in Destroying => should_exit[Dev(h)])
      BY DEF IInv, TypeOK, WaitInv, Dev, Devices, Handlers
    <3> QED
      BY <1>2, <2>1, <3>1, WaitEffects
  <2>2. CASE g # h
    <3>1. pc[g] \in Destroying /\ Dev(g)' = Dev(g) /\ Dev(g) \in Devices
      BY <1>2, <2>2, OtherCalls DEF IInv, TypeOK, Dev, Devices, Handlers
    <3>2. should_exit[Dev(g)] /\ map_mutex = g /\ g # NoHandler
      BY <3>1 DEF IInv, LockInv, WaitInv, InSupermap, Handlers, NoHandler
    <3> QED
      BY <3>1, <3>2, WaitEffects
  <2> QED
    BY <2>1, <2>2
<1> QED
  BY <1>1, <1>2 DEF WaitInv

(* It holds in every reachable state, whatever the library and the peers   *)
(* do.                                                                     *)
LEMMA WaitInvariance == Spec => []WaitInv
<1>1. Init => WaitInv
  BY DataDisc DEF Init, WaitInv, Devices, Destroying
<1>2. IInv /\ WaitInv /\ [Next]_vars => WaitInv'
  <2> SUFFICES ASSUME IInv, WaitInv, [Next]_vars PROVE WaitInv'
    OBVIOUS
  <2>1. CASE UNCHANGED <<pc, serial, should_exit, net_to_dev_mutex>>
    BY <2>1 DEF WaitInv, Dev
  <2>2. CASE UNCHANGED vars \/ MainStep \/ \E c \in Conns : Connect(c) \/ SocketClosed(c)
    BY <2>1, <2>2 DEF MainStep, Listen, SetHandler, SetDiscNotify, Connect, SocketClosed, vars,
       callVars, devVars
  <2>3. ASSUME NEW h \in Handlers, pc[h] = "idle", pc'[h] \notin Destroying, UNCHANGED devVars,
               \A g \in Handlers \ {h} : pc'[g] = pc[g] /\ serial'[g] = serial[g]
        PROVE  WaitInv'
    <3>1. ASSUME NEW c \in Conns, NEW s \in Serials, net_to_dev_mutex'[<<c, s>>] = "data"
          PROVE  pc'[Data(c)] = "raw_put" /\ serial'[Data(c)] = s
      BY <2>3, <3>1, DataDisc DEF WaitInv, devVars
    <3>2. ASSUME NEW g \in Handlers, pc'[g] \in Destroying
          PROVE  should_exit'[Dev(g)']
      BY <2>3, <3>2 DEF WaitInv, Dev, devVars
    <3> QED
      BY <3>1, <3>2 DEF WaitInv
  <2>4. ASSUME NEW c \in Conns, DiscBegin(c)
        PROVE  WaitInv'
    BY <2>3, <2>4, DataDisc DEF IInv, TypeOK, DiscBegin, Goto, Destroying
  <2>5. ASSUME NEW c \in Conns, NEW s \in Serials, NEW l \in {"find", "add", "close_answer"},
               Dispatch(c, s, l)
        PROVE  WaitInv'
    BY <2>3, <2>5, DataDisc DEF IInv, TypeOK, Dispatch, Goto, Destroying
  <2>6. CASE \E c \in Conns : \E s \in Serials : \/ ReceiveRawData(c, s)
                                                 \/ ReceiveOpen(c, s)
                                                 \/ ReceiveClose(c, s)
    BY <2>5, <2>6 DEF ReceiveRawData, ReceiveOpen, ReceiveClose
  <2>7. ASSUME NEW d \in Devices, WriterStep(d) \/ ReaderStep(d)
        PROVE  WaitInv'
    <3>1. /\ UNCHANGED <<pc, serial>>
          /\ \A e \in Devices : /\ net_to_dev_mutex'[e] = "data" => net_to_dev_mutex[e] = "data"
                                /\ should_exit[e] => should_exit'[e]
      BY <2>7 DEF IInv, TypeOK, WriterStep, WriterCheck, WriterLock, WriteNothing, WriteSome,
         EraseWritten, WriteError, ErrorNotification, WriterAt, UnlockBuffer, ReaderStep, ReaderAt,
         callVars, devVars
    <3>2. \A h \in Handlers : Dev(h) \in Devices /\ Dev(h)' = Dev(h)
      BY <3>1 DEF IInv, TypeOK, Dev, Devices, Handlers
    <3> QED
      BY <3>1, <3>2 DEF WaitInv, Devices
  <2> QED
    BY <2>2, <2>4, <2>6, <2>7, WaitHandlerStep DEF Next, PeerStep, Finished
<1> QED
  BY <1>1, <1>2, Invariance, PTL DEF Spec

(* Nobody waits in a circle, if no peer opens a device it already holds;   *)
(* with such a peer map_mutex is kept for ever (AddExisting) and everybody *)
(* who needs it waits for nobody.                                          *)
THEOREM NobodyWaitsInACircle ==
  ASSUME ~Reopens
  PROVE  Spec => []WaitsEnd
<1>1. IInv /\ MutexInv /\ WaitInv => WaitsEnd
  <2> SUFFICES ASSUME IInv, MutexInv, WaitInv PROVE WaitsEnd
    OBVIOUS
  <2>1. ASSUME NEW h \in Handlers
        PROVE  Dev(h) \in Devices /\ h # NoHandler
    BY DEF IInv, TypeOK, Dev, Devices, Handlers, NoHandler
  <2>2. ASSUME NEW h \in Handlers, pc[h] = "raw_lock",
               net_to_dev_mutex[Dev(h)] \notin {"free", "unmade"}
        PROVE  WriterRuns(Dev(h))
    <3>1. PICK c \in Conns : h = Data(c) /\ Dev(h) = <<c, serial[h]>> /\ serial[h] \in Serials
      BY <2>2, HandlerCases DEF IInv, TypeOK, LockInv, DiscLabels, Destroying, Dev
    <3>2. ~Building(c, serial[h]) /\ net_to_dev_mutex[Dev(h)] # "data"
      BY <2>2, <3>1 DEF WaitInv, Building, Constructing
    <3>3. DeviceOK(c, serial[h])
      BY <3>1 DEF IInv, DeviceInv
    <3>4. net_to_dev_mutex[Dev(h)] = "writer"
      BY <2>1, <2>2, <3>1, <3>2, <3>3 DEF DeviceOK, IInv, TypeOK
    <3> QED
      BY <3>1, <3>3, <3>4 DEF DeviceOK, WriterRuns, WriterWaits, WriterHolds, Stopped
  <2>3. ASSUME NEW h \in Handlers, map_mutex # NoHandler
        PROVE  map_mutex \in Handlers /\ pc[map_mutex] \in InSupermap
    BY <2>3 DEF IInv, TypeOK, MutexInv
  <2>4. ASSUME NEW h \in Handlers, pc[h] \in Destroying
        PROVE  should_exit[Dev(h)]
    BY <2>4 DEF WaitInv
  <2>5. ASSUME NEW d \in Devices, WriterWaits(d)
        PROVE  \E h \in Handlers : Dev(h) = d /\ HandlerRuns(h)
    <3>1. PICK c \in Conns, s \in Serials : d = <<c, s>>
      BY DEF Devices
    <3>2. DeviceOK(c, s) /\ Data(c) \in Handlers /\ Data(c)[2] = c
      BY DataDisc DEF IInv, DeviceInv
    <3>3. writer[d] = "lock" /\ net_to_dev_mutex[d] # "free"
      BY <2>5 DEF WriterWaits
    <3>4. net_to_dev_mutex[d] = "data" \/ Building(c, s)
      BY <3>1, <3>2, <3>3 DEF DeviceOK, WriterHolds, Stopped, IInv, TypeOK
    <3>5. /\ serial[Data(c)] = s
          /\ pc[Data(c)] \in Constructing \cup {"raw_put"}
      BY <3>1, <3>4 DEF WaitInv, Building
    <3> QED
      BY <3>1, <3>2, <3>5 DEF Dev, HandlerRuns, HandlerWaits, Constructing
  <2>6. ASSUME NEW h \in Handlers, HandlerWaits(h)
        PROVE  CASE pc[h] = "raw_lock" -> WriterRuns(Dev(h))
                 [] pc[h] = "join_reader" -> should_exit[Dev(h)] /\ ReaderRuns(Dev(h))
                 [] pc[h] = "join_writer" ->
                      /\ should_exit[Dev(h)] /\ writer[Dev(h)] \notin Stopped
                 [] OTHER -> map_mutex \in Handlers /\ pc[map_mutex] \in InSupermap
    BY <2>2, <2>3, <2>4, <2>6 DEF HandlerWaits, ReaderRuns, Destroying
  <2> QED
    BY <2>5, <2>6 DEF WaitsEnd
<1> QED
  BY <1>1, Invariance, MutexInvariance, WaitInvariance, PTL

(* As long as a callback has not returned to the library, some thread can  *)
(* make a step: the server never stands still in the middle of its work.   *)
THEOREM ServerNeverStandsStill ==
  ASSUME ~Reopens
  PROVE  Spec => []SomebodyRuns
<1>1. TypeOK /\ WaitsEnd => SomebodyRuns
  <2> SUFFICES ASSUME TypeOK, WaitsEnd, NEW h \in Handlers, pc[h] # "idle",
                      \A g \in Handlers : ~HandlerRuns(g),
                      \A d \in Devices : ~WriterRuns(d) /\ ~ReaderRuns(d)
               PROVE  FALSE
    BY DEF SomebodyRuns
  <2>1. \A g \in Handlers : Dev(g) \in Devices
    BY DEF TypeOK, Dev, Devices, Handlers
  <2>2. \A d \in Devices : ~WriterWaits(d) /\ writer[d] \in Stopped
    BY DEF WaitsEnd, WriterRuns
  <2>3. ASSUME NEW g \in Handlers, HandlerWaits(g)
        PROVE  map_mutex \in Handlers /\ pc[map_mutex] \in InSupermap /\ pc[g] \notin InSupermap
    <3>1. pc[g] \notin {"raw_lock", "join_reader", "join_writer"}
      BY <2>1, <2>2, <2>3 DEF WaitsEnd
    <3>2. pc[g] \in {"find", "add", "remove", "disc"}
      BY <2>3, <3>1 DEF HandlerWaits
    <3> QED
      BY <2>3, <3>2 DEF WaitsEnd, InSupermap, Constructing, Destroying
  <2>4. map_mutex \in Handlers /\ pc[map_mutex] \in InSupermap
    BY <2>3 DEF HandlerRuns
  <2>5. pc[map_mutex] # "idle"
    BY <2>4 DEF InSupermap, Constructing, Destroying
  <2> QED
    BY <2>3, <2>4, <2>5 DEF HandlerRuns
<1> QED
  BY <1>1, TypeCorrect, NobodyWaitsInACircle, PTL
=============================================================================
