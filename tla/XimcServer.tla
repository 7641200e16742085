----------------------------- MODULE XimcServer -----------------------------
(***************************************************************************)
(* linux-server.cpp: the process that exports the XIMC controllers of a    *)
(* host over the network.  Three kinds of thread run in it:                *)
(*                                                                         *)
(*   - main, which registers the two callbacks of the transport library    *)
(*     (bindy, not part of this repository) and then waits;                *)
(*   - the library's threads, which run callback_data for every packet and *)
(*     callback_disc when a connection is closed.  A handler <<"data", c>> *)
(*     or <<"disc", c>> stands for the callback of connection c;           *)
(*   - the two threads of every Device object: the reader                  *)
(*     (dev_to_net_function) and the writer (buf_to_dev_function).         *)
(*                                                                         *)
(* They share supermap (conndevmap under map_mutex) and, per device, the   *)
(* output buffer (net_to_dev_buffer under net_to_dev_mutex) and the flag   *)
(* should_exit, which no mutex protects.                                   *)
(*                                                                         *)
(* A critical section whose body is one look at the map is one action;     *)
(* addDevice, removeDevice and removeConnection start and join threads     *)
(* while they hold map_mutex and are split at every such point.            *)
(***************************************************************************)
EXTENDS Naturals, Sequences

CONSTANTS
  Conns,            \* connections of the transport library
  Serials,          \* serial numbers of the controllers of this host
  NoConn,           \* no connection: a device node that nobody has locked
  MaxChunk,         \* largest payload of one RawData packet, in bytes
  MaxBytes,         \* bound: bytes accepted during the life of one Device
  SerialCallbacks,  \* callback_disc(c) starts after the last callback_data(c)
  Reopens,          \* a peer may ask again for a device it already holds
  EarlyPeers        \* a peer may connect before main has set both callbacks

ASSUME ServerAssumption ==
  /\ NoConn \notin Conns
  /\ MaxChunk \in Nat
  /\ MaxBytes \in Nat
  /\ SerialCallbacks \in BOOLEAN
  /\ Reopens \in BOOLEAN
  /\ EarlyPeers \in BOOLEAN

Devices == Conns \X Serials
Handlers == {"data", "disc"} \X Conns
NoHandler == <<"none", NoConn>>

VARIABLES
  main,      \* progress of main: which callbacks are registered
  conn,      \* what the library knows of each connection
  crashed,   \* the process has died
  pc,        \* where each handler is
  serial,    \* the serial number each handler works on
  opened,    \* what addDevice returned to the handler
  conndevmap,          \* the <<connection, serial>> pairs with a Device*
  map_mutex,           \* the handler that has locked it, or NoHandler
  node,                \* the connection whose Device holds flock on /dev/ximc/s
  should_exit,         \* Device::should_exit
  net_to_dev_mutex,    \* "unmade", "free", or who has locked it
  net_to_dev_buffer,   \* bytes from the network waiting for the controller
  wrote,               \* what write() returned, until the bytes are erased
  reader,              \* where dev_to_net_thread is
  writer,              \* where buf_to_dev_thread is
  accepted,  \* history: bytes put in the buffer so far, numbered from 1
  sent       \* history: the number of the last byte the controller took

procVars == <<main, conn, crashed>>
callVars == <<pc, serial, opened>>
mapVars == <<conndevmap, map_mutex, node>>
bufVars == <<net_to_dev_buffer, wrote, accepted, sent>>
devVars == <<should_exit, net_to_dev_mutex, reader, writer>>
vars == <<procVars, callVars, mapVars, bufVars, devVars>>

-----------------------------------------------------------------------------
(* Where a handler can be.  The handlers of the second set hold map_mutex. *)
Constructing == {"ctor_mutex", "ctor_writer", "ctor_done"}
Destroying == {"join_reader", "join_writer"}
InSupermap == Constructing \cup Destroying \cup {"iterate", "advance"}
RawAccess == {"raw_lock", "raw_put"}
Labels == {"idle", "find", "add", "answer", "close_answer", "remove", "disc"}
            \cup RawAccess \cup InSupermap

WriterLabels == {"none", "check", "lock", "write", "erase", "notify", "done"}
WriterHolds == {"write", "erase", "notify"}
ReaderLabels == {"none", "check", "read", "send", "done"}
Stopped == {"none", "done"}

Data(c) == <<"data", c>>
Disc(c) == <<"disc", c>>
Dev(h) == <<h[2], serial[h]>>
Goto(h, label) == pc' = [pc EXCEPT ![h] = label]

TypeOK ==
  /\ main \in {"start", "listening", "handling", "running"}
  /\ conn \in [Conns -> {"new", "up", "down", "gone"}]
  /\ crashed \in BOOLEAN
  /\ pc \in [Handlers -> Labels]
  /\ serial \in [Handlers -> Serials]
  /\ opened \in [Conns -> BOOLEAN]
  /\ conndevmap \in SUBSET Devices
  /\ map_mutex \in Handlers \cup {NoHandler}
  /\ node \in [Serials -> Conns \cup {NoConn}]
  /\ should_exit \in [Devices -> BOOLEAN]
  /\ net_to_dev_mutex \in [Devices -> {"unmade", "free", "ctor", "data", "writer"}]
  /\ net_to_dev_buffer \in [Devices -> Seq(Nat)]
  /\ wrote \in [Devices -> Nat]
  /\ reader \in [Devices -> ReaderLabels]
  /\ writer \in [Devices -> WriterLabels]
  /\ accepted \in [Devices -> Nat]
  /\ sent \in [Devices -> Nat]

Init ==
  /\ main = "start"
  /\ conn = [c \in Conns |-> "new"]
  /\ crashed = FALSE
  /\ pc = [h \in Handlers |-> "idle"]
  /\ serial \in {[h \in Handlers |-> s] : s \in Serials}
  /\ opened = [c \in Conns |-> FALSE]
  /\ conndevmap = {}
  /\ map_mutex = NoHandler
  /\ node = [s \in Serials |-> NoConn]
  /\ should_exit = [d \in Devices |-> FALSE]
  /\ net_to_dev_mutex = [d \in Devices |-> "unmade"]
  /\ net_to_dev_buffer = [d \in Devices |-> <<>>]
  /\ wrote = [d \in Devices |-> 0]
  /\ reader = [d \in Devices |-> "none"]
  /\ writer = [d \in Devices |-> "none"]
  /\ accepted = [d \in Devices |-> 0]
  /\ sent = [d \in Devices |-> 0]

-----------------------------------------------------------------------------
(* main: the library listens, then the two callbacks are registered one    *)
(* after the other.                                                        *)
Listen ==
  /\ main = "start"
  /\ main' = "listening"
  /\ UNCHANGED <<conn, crashed, callVars, mapVars, bufVars, devVars>>

SetHandler ==
  /\ main = "listening"
  /\ main' = "handling"
  /\ UNCHANGED <<conn, crashed, callVars, mapVars, bufVars, devVars>>

SetDiscNotify ==
  /\ main = "handling"
  /\ main' = "running"
  /\ UNCHANGED <<conn, crashed, callVars, mapVars, bufVars, devVars>>

(* The library, as this program uses it: a peer connects; the end of a     *)
(* connection is reported only if callback_disc is registered by then.     *)
Connect(c) ==
  /\ conn[c] = "new"
  /\ main = "running" \/ (EarlyPeers /\ main # "start")
  /\ conn' = [conn EXCEPT ![c] = "up"]
  /\ UNCHANGED <<main, crashed, callVars, mapVars, bufVars, devVars>>

SocketClosed(c) ==
  /\ conn[c] = "up"
  /\ conn' = [conn EXCEPT ![c] = IF main = "running" THEN "down" ELSE "gone"]
  /\ UNCHANGED <<main, crashed, callVars, mapVars, bufVars, devVars>>

-----------------------------------------------------------------------------
(* callback_data: one packet of connection c is dispatched.                *)
Dispatch(c, s, label) ==
  /\ main \in {"handling", "running"}
  /\ conn[c] = "up"
  /\ pc[Data(c)] = "idle"
  /\ Goto(Data(c), label)
  /\ serial' = [serial EXCEPT ![Data(c)] = s]
  /\ UNCHANGED <<procVars, opened, mapVars, bufVars, devVars>>

ReceiveRawData(c, s) == Dispatch(c, s, "find")

ReceiveOpen(c, s) ==
  /\ Reopens \/ <<c, s>> \notin conndevmap
  /\ Dispatch(c, s, "add")

ReceiveClose(c, s) == Dispatch(c, s, "close_answer")

(* RawData: the pointer is looked up under map_mutex and used after the    *)
(* mutex has been released.  An unopened serial makes the callback throw.  *)
FindUnchecked(h) ==  \* faulty variant: a serial that is not in the map is used
  /\ pc[h] = "find"
  /\ map_mutex = NoHandler
  /\ Goto(h, "raw_lock")
  /\ UNCHANGED <<procVars, serial, opened, mapVars, bufVars, devVars>>

FindDevice(h) ==
  /\ pc[h] = "find"
  /\ map_mutex = NoHandler
  /\ Goto(h, IF Dev(h) \in conndevmap THEN "raw_lock" ELSE "idle")
  /\ UNCHANGED <<procVars, serial, opened, mapVars, bufVars, devVars>>

RawNoLock(h) ==  \* faulty variant: the buffer is used without its mutex
  /\ pc[h] = "raw_lock"
  /\ net_to_dev_mutex[Dev(h)] # "unmade"
  /\ Goto(h, "raw_put")
  /\ UNCHANGED <<procVars, serial, opened, mapVars, bufVars, devVars>>

RawLock(h) ==
  /\ pc[h] = "raw_lock"
  /\ net_to_dev_mutex[Dev(h)] = "free"
  /\ net_to_dev_mutex' = [net_to_dev_mutex EXCEPT ![Dev(h)] = "data"]
  /\ Goto(h, "raw_put")
  /\ UNCHANGED <<procVars, serial, opened, mapVars, bufVars,
                 should_exit, reader, writer>>

(* The k payload bytes of the packet go to the end of the buffer.          *)
RawPut(h, k) ==
  LET d == Dev(h)
  IN  /\ pc[h] = "raw_put"
      /\ net_to_dev_mutex[d] # "unmade"
      /\ accepted[d] + k <= MaxBytes
      /\ net_to_dev_buffer' = [net_to_dev_buffer EXCEPT ![d] =
                                 @ \o [i \in 1 .. k |-> accepted[d] + i]]
      /\ accepted' = [accepted EXCEPT ![d] = @ + k]
      /\ net_to_dev_mutex' = [net_to_dev_mutex EXCEPT ![d] = "free"]
      /\ Goto(h, "idle")
      /\ UNCHANGED <<procVars, serial, opened, mapVars, wrote, sent,
                     should_exit, reader, writer>>

(* The process dies; the kernel closes the device nodes it had open.       *)
Die ==
  /\ crashed' = TRUE
  /\ node' = [s \in Serials |-> NoConn]
  /\ UNCHANGED <<main, conn, conndevmap, map_mutex, callVars, bufVars, devVars>>

(* Undefined behaviour: the Device found above has been deleted since.     *)
RawFreed(h) ==
  /\ pc[h] \in RawAccess
  /\ net_to_dev_mutex[Dev(h)] = "unmade"
  /\ \/ Die
     \/ /\ Goto(h, "idle")
        /\ UNCHANGED <<procVars, serial, opened, mapVars, bufVars, devVars>>

-----------------------------------------------------------------------------
(* OpenDeviceRequest: addDevice, with the constructor of Device inside.    *)

(* The device is already there: addDevice returns without the unlock.      *)
AddExisting(h) ==
  /\ pc[h] = "add"
  /\ map_mutex = NoHandler
  /\ Dev(h) \in conndevmap
  /\ map_mutex' = h
  /\ opened' = [opened EXCEPT ![h[2]] = TRUE]
  /\ Goto(h, "answer")
  /\ UNCHANGED <<procVars, serial, conndevmap, node, bufVars, devVars>>

(* The constructor throws: the node is missing, locked or not a terminal.  *)
AddFailsLeaky(h) ==  \* faulty variant: a failing constructor forgets close(handle)
  /\ pc[h] = "add"
  /\ map_mutex = NoHandler
  /\ Dev(h) \notin conndevmap
  /\ node[serial[h]] = NoConn
  /\ node' = [node EXCEPT ![serial[h]] = h[2]]
  /\ Goto(h, "answer")
  /\ UNCHANGED <<procVars, serial, opened, conndevmap, map_mutex, bufVars, devVars>>

AddFails(h) ==
  /\ pc[h] = "add"
  /\ map_mutex = NoHandler
  /\ Dev(h) \notin conndevmap
  /\ opened' = [opened EXCEPT ![h[2]] = FALSE]
  /\ Goto(h, "answer")
  /\ UNCHANGED <<procVars, serial, mapVars, bufVars, devVars>>

(* A thread that cannot be created counts as one that has ended.           *)
ThreadStart == {"check", "done"}

(* The node is opened and locked, and the reader is started.               *)
LockNode(h, next) ==
  LET d == Dev(h)
  IN  /\ pc[h] = "add"
      /\ map_mutex = NoHandler
      /\ d \notin conndevmap
      /\ map_mutex' = h
      /\ node' = [node EXCEPT ![serial[h]] = h[2]]
      /\ should_exit' = [should_exit EXCEPT ![d] = FALSE]
      /\ \E l \in ThreadStart : reader' = [reader EXCEPT ![d] = l]
      /\ Goto(h, next)
      /\ UNCHANGED <<procVars, serial, opened, conndevmap, bufVars,
                     net_to_dev_mutex, writer>>

AddOpensShared(h) ==  \* faulty variant: a node that is locked is opened as well
  LockNode(h, "ctor_mutex")

AddOpensUnmade(h) ==  \* faulty variant: the writer is started before the mutex is made
  node[serial[h]] = NoConn /\ LockNode(h, "ctor_writer")

AddOpens(h) ==
  node[serial[h]] = NoConn /\ LockNode(h, "ctor_mutex")

(* net_to_dev_mutex is created and locked, and the buffer is created.      *)
CtorMutex(h) ==
  LET d == Dev(h)
  IN  /\ pc[h] = "ctor_mutex"
      /\ net_to_dev_mutex' = [net_to_dev_mutex EXCEPT ![d] = "ctor"]
      /\ net_to_dev_buffer' = [net_to_dev_buffer EXCEPT ![d] = <<>>]
      /\ Goto(h, "ctor_writer")
      /\ UNCHANGED <<procVars, serial, opened, mapVars, wrote, accepted, sent,
                     should_exit, reader, writer>>

CtorWriter(h) ==
  /\ pc[h] = "ctor_writer"
  /\ \E l \in ThreadStart : writer' = [writer EXCEPT ![Dev(h)] = l]
  /\ Goto(h, "ctor_done")
  /\ UNCHANGED <<procVars, serial, opened, mapVars, bufVars,
                 should_exit, net_to_dev_mutex, reader>>

(* The mutex is unlocked, the object goes into the map, map_mutex is free. *)
EnterMap(h) ==
  /\ pc[h] = "ctor_done"
  /\ conndevmap' = conndevmap \cup {Dev(h)}
  /\ map_mutex' = NoHandler
  /\ opened' = [opened EXCEPT ![h[2]] = TRUE]
  /\ Goto(h, "answer")
  /\ UNCHANGED <<procVars, serial, node, bufVars, should_exit, reader, writer>>

UnlockBuffer(d) ==
  net_to_dev_mutex' = [net_to_dev_mutex EXCEPT ![d] = "free"]

CtorDoneLocked(h) ==  \* faulty variant: net_to_dev_mutex is never unlocked
  EnterMap(h) /\ UNCHANGED net_to_dev_mutex

CtorDone(h) ==
  EnterMap(h) /\ UnlockBuffer(Dev(h))

(* send_data of the OpenDeviceAnswer; whether it succeeds is ignored.      *)
OpenAnswer(h) ==
  /\ pc[h] = "answer"
  /\ opened' = [opened EXCEPT ![h[2]] = FALSE]
  /\ Goto(h, "idle")
  /\ UNCHANGED <<procVars, serial, mapVars, bufVars, devVars>>

-----------------------------------------------------------------------------
(* CloseDeviceRequest: the answer first, then removeDevice.                *)
CloseAnswer(h) ==
  /\ pc[h] = "close_answer"
  /\ Goto(h, "remove")
  /\ UNCHANGED <<procVars, serial, opened, mapVars, bufVars, devVars>>

(* removeDevice: nothing to do, or the destructor of Device starts.        *)
RemoveDevice(h) ==
  /\ pc[h] = "remove"
  /\ map_mutex = NoHandler
  /\ IF Dev(h) \in conndevmap
       THEN /\ map_mutex' = h
            /\ should_exit' = [should_exit EXCEPT ![Dev(h)] = TRUE]
            /\ Goto(h, "join_reader")
       ELSE /\ Goto(h, "idle")
            /\ UNCHANGED <<map_mutex, should_exit>>
  /\ UNCHANGED <<procVars, serial, opened, conndevmap, node, bufVars,
                 net_to_dev_mutex, reader, writer>>

(* ~Device: both threads are joined, one after the other.                  *)
JoinReaderLate(h) ==  \* faulty variant: the reader is not joined
  /\ pc[h] = "join_reader"
  /\ Goto(h, "join_writer")
  /\ UNCHANGED <<procVars, serial, opened, mapVars, bufVars, devVars>>

JoinReader(h) ==
  /\ pc[h] = "join_reader"
  /\ reader[Dev(h)] \in Stopped
  /\ Goto(h, "join_writer")
  /\ UNCHANGED <<procVars, serial, opened, mapVars, bufVars, devVars>>

(* close(handle) drops the lock on the node.                               *)
NodeLeftOpen(h) ==  \* faulty variant: close(handle) is missing
  UNCHANGED node

CloseNode(h) ==
  node' = [node EXCEPT ![serial[h]] = NoConn]

(* The object is deleted and its map entry erased.  removeDevice then      *)
(* unlocks map_mutex and returns; removeConnection goes on.                *)
DeleteDevice(h) ==
  LET d == Dev(h)
  IN  /\ pc[h] = "join_writer"
      /\ CloseNode(h)
      /\ net_to_dev_mutex' = [net_to_dev_mutex EXCEPT ![d] = "unmade"]
      /\ net_to_dev_buffer' = [net_to_dev_buffer EXCEPT ![d] = <<>>]
      /\ accepted' = [accepted EXCEPT ![d] = 0]
      /\ sent' = [sent EXCEPT ![d] = 0]
      /\ conndevmap' = conndevmap \ {d}
      /\ IF h[1] = "data"
           THEN map_mutex' = NoHandler /\ Goto(h, "idle")
           ELSE Goto(h, "advance") /\ UNCHANGED map_mutex
      /\ UNCHANGED <<procVars, serial, opened, wrote,
                     should_exit, reader, writer>>

DeleteUnjoined(h) ==  \* faulty variant: the writer is not joined
  DeleteDevice(h)

JoinWriter(h) ==
  writer[Dev(h)] \in Stopped /\ DeleteDevice(h)

-----------------------------------------------------------------------------
(* callback_disc: removeConnection deletes every device of the connection. *)
DiscBegin(c) ==
  /\ conn[c] = "down"
  /\ pc[Disc(c)] = "idle"
  /\ SerialCallbacks => pc[Data(c)] = "idle"
  /\ Goto(Disc(c), "disc")
  /\ UNCHANGED <<procVars, serial, opened, mapVars, bufVars, devVars>>

RemoveConnection(h) ==
  /\ pc[h] = "disc"
  /\ map_mutex = NoHandler
  /\ map_mutex' = h
  /\ Goto(h, "iterate")
  /\ UNCHANGED <<procVars, serial, opened, conndevmap, node, bufVars, devVars>>

(* The loop: one more device of the connection is deleted ...              *)
DeleteNext(h, s) ==
  /\ pc[h] = "iterate"
  /\ <<h[2], s>> \in conndevmap
  /\ serial' = [serial EXCEPT ![h] = s]
  /\ should_exit' = [should_exit EXCEPT ![<<h[2], s>>] = TRUE]
  /\ Goto(h, "join_reader")
  /\ UNCHANGED <<procVars, opened, mapVars, bufVars,
                 net_to_dev_mutex, reader, writer>>

(* ... or none is left, and the callback returns.                          *)
LeaveLoop(h) ==
  /\ pc[h] = "iterate"
  /\ conn' = [conn EXCEPT ![h[2]] = "gone"]
  /\ Goto(h, "idle")
  /\ UNCHANGED <<main, crashed, serial, opened, conndevmap, node, bufVars, devVars>>

RemoveFirstOnly(h) ==  \* faulty variant: the loop ends after any device
  LeaveLoop(h) /\ map_mutex' = NoHandler

RemoveKeepsMutex(h) ==  \* faulty variant: map_mutex is not unlocked
  /\ \A s \in Serials : <<h[2], s>> \notin conndevmap
  /\ LeaveLoop(h) /\ UNCHANGED map_mutex

RemoveConnectionEnd(h) ==
  /\ \A s \in Serials : <<h[2], s>> \notin conndevmap
  /\ LeaveLoop(h) /\ map_mutex' = NoHandler

(* Undefined behaviour: the iterator is advanced after its element has     *)
(* been erased.  The freed tree node either still has its links, and the   *)
(* loop goes on as it was meant to, or it has not, and following them      *)
(* kills the process.                                                      *)
AdvanceFreedIterator(h) ==
  /\ pc[h] = "advance"
  /\ \/ Die
     \/ /\ Goto(h, "iterate")
        /\ UNCHANGED <<procVars, serial, opened, mapVars, bufVars, devVars>>

-----------------------------------------------------------------------------
(* buf_to_dev_function, the writer of device d.                            *)
WriterAt(d, from, to) ==
  /\ writer[d] = from
  /\ writer' = [writer EXCEPT ![d] = to]
  /\ UNCHANGED <<procVars, callVars, mapVars, reader>>

WriterOnce(d) ==  \* faulty variant: the loop condition is not looked at again
  /\ WriterAt(d, "check", "lock")
  /\ UNCHANGED <<bufVars, should_exit, net_to_dev_mutex>>

WriterCheck(d) ==
  /\ WriterAt(d, "check", IF should_exit[d] THEN "done" ELSE "lock")
  /\ UNCHANGED <<bufVars, should_exit, net_to_dev_mutex>>

WriterLock(d) ==
  /\ net_to_dev_mutex[d] = "free"
  /\ net_to_dev_mutex' = [net_to_dev_mutex EXCEPT ![d] = "writer"]
  /\ WriterAt(d, "lock", "write")
  /\ UNCHANGED <<bufVars, should_exit>>

(* Nothing to write, or write() took nothing.                              *)
WriteNothing(d) ==
  /\ WriterAt(d, "write", "check")
  /\ UnlockBuffer(d)
  /\ UNCHANGED <<bufVars, should_exit>>

(* write() took the first k bytes; they are erased in the next step.       *)
WriteSome(d, k) ==
  /\ WriterAt(d, "write", "erase")
  /\ sent' = [sent EXCEPT ![d] = net_to_dev_buffer[d][k]]
  /\ wrote' = [wrote EXCEPT ![d] = k]
  /\ UNCHANGED <<net_to_dev_buffer, accepted, should_exit, net_to_dev_mutex>>

EraseTooFew(d) ==  \* faulty variant: the last byte written stays in the buffer
  /\ WriterAt(d, "erase", "check")
  /\ net_to_dev_buffer' = [net_to_dev_buffer EXCEPT ![d] =
                             SubSeq(@, wrote[d], Len(@))]
  /\ wrote' = [wrote EXCEPT ![d] = 0]
  /\ UnlockBuffer(d)
  /\ UNCHANGED <<accepted, sent, should_exit>>

EraseWritten(d) ==
  /\ WriterAt(d, "erase", "check")
  /\ net_to_dev_buffer' = [net_to_dev_buffer EXCEPT ![d] =
                             SubSeq(@, wrote[d] + 1, Len(@))]
  /\ wrote' = [wrote EXCEPT ![d] = 0]
  /\ UnlockBuffer(d)
  /\ UNCHANGED <<accepted, sent, should_exit>>

(* write() failed: the device is given up, and the peer is told while the  *)
(* mutex is still locked.                                                  *)
WriteError(d) ==
  /\ net_to_dev_buffer[d] # <<>>
  /\ should_exit' = [should_exit EXCEPT ![d] = TRUE]
  /\ WriterAt(d, "write", "notify")
  /\ UNCHANGED <<bufVars, net_to_dev_mutex>>

ErrorNotification(d) ==
  /\ WriterAt(d, "notify", "check")
  /\ UnlockBuffer(d)
  /\ UNCHANGED <<bufVars, should_exit>>

WriterStep(d) ==
  \/ WriterCheck(d) \/ WriterLock(d)
  \/ WriteNothing(d)
  \/ \E k \in 1 .. Len(net_to_dev_buffer[d]) : WriteSome(d, k)
  \/ EraseWritten(d)
  \/ WriteError(d) \/ ErrorNotification(d)

(* dev_to_net_function, the reader of device d.  A read() that fails is    *)
(* treated like one that finds nothing.                                    *)
ReaderAt(d, from, to) ==
  /\ reader[d] = from
  /\ reader' = [reader EXCEPT ![d] = to]
  /\ UNCHANGED <<procVars, callVars, mapVars, bufVars,
                 should_exit, net_to_dev_mutex, writer>>

ReaderStep(d) ==
  \/ ReaderAt(d, "check", IF should_exit[d] THEN "done" ELSE "read")
  \/ ReaderAt(d, "read", "send")
  \/ ReaderAt(d, "read", "check")
  \/ ReaderAt(d, "send", "check")

-----------------------------------------------------------------------------
(* A callback of the library makes a step.                                 *)
HandlerStep(h) ==
  \/ FindDevice(h) \/ RawLock(h) \/ RawFreed(h)
  \/ \E k \in 0 .. MaxChunk : RawPut(h, k)
  \/ AddExisting(h) \/ AddFails(h) \/ AddOpens(h)
  \/ CtorMutex(h) \/ CtorWriter(h) \/ CtorDone(h) \/ OpenAnswer(h)
  \/ CloseAnswer(h) \/ RemoveDevice(h) \/ JoinReader(h) \/ JoinWriter(h)
  \/ RemoveConnection(h) \/ RemoveConnectionEnd(h) \/ AdvanceFreedIterator(h)
  \/ \E s \in Serials : DeleteNext(h, s)

MainStep == Listen \/ SetHandler \/ SetDiscNotify

PeerStep(c) ==
  \/ Connect(c) \/ SocketClosed(c)
  \/ \E s \in Serials : \/ ReceiveRawData(c, s)
                        \/ ReceiveOpen(c, s)
                          \/ ReceiveClose(c, s)

(* Nothing is left to do: every peer has come and gone.                    *)
Finished ==
  /\ crashed \/ /\ \A c \in Conns : conn[c] = "gone"
                /\ \A h \in Handlers : pc[h] = "idle"
  /\ UNCHANGED vars

Next ==
  \/ /\ ~crashed
     /\ \/ MainStep
        \/ \E c \in Conns : PeerStep(c) \/ DiscBegin(c)
        \/ \E h \in Handlers : HandlerStep(h)
        \/ \E d \in Devices : WriterStep(d) \/ ReaderStep(d)
  \/ Finished

Spec == Init /\ [][Next]_vars

(* Fairness.  The operating system runs every thread that can run; a       *)
(* thread that waits for a mutex which is unlocked again and again gets it *)
(* (the writer sleeps between two rounds, handlers return to the library). *)
(* The library does report a closed connection once the handler is set.    *)
(* Nothing is assumed of the peers.                                        *)
Fairness ==
  /\ WF_vars(~crashed /\ MainStep)
  /\ \A c \in Conns : WF_vars(~crashed /\ DiscBegin(c))
  /\ \A h \in Handlers : SF_vars(~crashed /\ HandlerStep(h))
  /\ \A d \in Devices : /\ WF_vars(~crashed /\ WriterStep(d))
                        /\ WF_vars(~crashed /\ ReaderStep(d))

FairSpec == Spec /\ Fairness

-----------------------------------------------------------------------------
(* The Device that a RawData callback has looked up is still in the map    *)
(* when the callback locks its mutex and fills its buffer, although        *)
(* map_mutex was released in between (callback_data, findDevice).          *)
NoUseAfterFree ==
  \A c \in Conns : pc[Data(c)] \in RawAccess => Dev(Data(c)) \in conndevmap

(* The two threads of a Device never outlive it: while one of them runs,   *)
(* the object is in the map, or the handler that constructs it has not     *)
(* finished (~Device joins both before it deletes what they use).          *)
ThreadsWithinDevice ==
  \A d \in Devices :
    reader[d] \notin Stopped \/ writer[d] \notin Stopped =>
      \/ d \in conndevmap
      \/ \E h \in Handlers : pc[h] \in Constructing /\ Dev(h) = d

(* The writer finds net_to_dev_mutex constructed: the Device constructor   *)
(* makes it before it starts the thread, the destructor deletes it last.   *)
MutexBeforeWriter ==
  \A d \in Devices : writer[d] \notin Stopped => net_to_dev_mutex[d] # "unmade"

(* Nobody but the holder of net_to_dev_mutex works on the buffer: the      *)
(* RawData callback and the writer exclude each other.                     *)
BufferExclusive ==
  \A c \in Conns : pc[Data(c)] = "raw_put" =>
    writer[Dev(Data(c))] \notin WriterHolds

(* The lock on a device node is held exactly as long as the Device that    *)
(* took it exists: no path of addDevice, removeDevice or removeConnection  *)
(* leaks the descriptor or drops it early.                                 *)
NodeAccounted ==
  ~crashed =>
    \A c \in Conns, s \in Serials :
      node[s] = c <=> \/ <<c, s>> \in conndevmap
                      \/ \E h \in Handlers : /\ pc[h] \in Constructing
                                             /\ Dev(h) = <<c, s>>

(* A connection whose callback_disc has returned owns nothing: no map      *)
(* entry, no device node, no thread at work for it.                        *)
GoneOwnsNothing ==
  ~crashed =>
    \A c \in Conns, s \in Serials : conn[c] = "gone" =>
      /\ <<c, s>> \notin conndevmap
      /\ node[s] # c
      /\ reader[<<c, s>>] \in Stopped
      /\ writer[<<c, s>>] \in Stopped

(* map_mutex is locked only while its holder is inside addDevice,          *)
(* removeDevice or removeConnection.                                       *)
MapMutexInside ==
  \A h \in Handlers : map_mutex = h <=> pc[h] \in InSupermap

(* "returns true if addition was successful, or device already exists and  *)
(* available" (comment of addDevice): once it has returned true, the       *)
(* device is in the map and the map can be searched by others, that is,    *)
(* this handler has not kept map_mutex.                                    *)
TrueMeansAvailable ==
  \A c \in Conns : pc[Data(c)] = "answer" /\ opened[c] =>
    /\ Dev(Data(c)) \in conndevmap
    /\ map_mutex # Data(c)

(* Bytes reach the controller in the order in which they came from the     *)
(* network, none lost and none twice: what is still in the buffer, less    *)
(* the part that write() has taken and that is about to be erased,         *)
(* continues the bytes the controller has, up to the last one accepted.    *)
BytesInOrder ==
  \A d \in conndevmap :
    LET left == SubSeq(net_to_dev_buffer[d], wrote[d] + 1, Len(net_to_dev_buffer[d]))
    IN  left = [i \in 1 .. accepted[d] - sent[d] |-> sent[d] + i]

(* A controller whose write() has failed gets no further byte: should_exit *)
(* is set, the peer is told, and until the peer closes the device or goes  *)
(* away (which runs ~Device) the writer never writes again.                *)
FailedDeviceGetsNothing ==
  [][\A d \in Devices :
       /\ should_exit[d]
       /\ \A h \in Handlers : ~(pc[h] \in Destroying /\ Dev(h) = d)
       => sent'[d] = sent[d]]_vars

(* "server will close the device when socket is closed" (bindy_close in    *)
(* wrapper.cpp counts on it): when the peer goes away, its device nodes    *)
(* are unlocked in the end.                                                *)
ClosedSocketFreesDevices ==
  \A c \in Conns, s \in Serials : conn[c] \in {"down", "gone"} ~> node[s] # c

(* Every callback returns to the library: no handler waits forever for     *)
(* map_mutex, for a device mutex or for a thread it joins.                 *)
CallbacksReturn ==
  \A h \in Handlers : pc[h] # "idle" ~> (pc[h] = "idle" \/ crashed)

-----------------------------------------------------------------------------
(* The refinement: the owner of a controller is the connection whose       *)
(* Device has locked the node.                                             *)
Session(c) ==
  CASE conn[c] = "new" -> "new"
    [] conn[c] \in {"up", "down"} -> "open"
    [] conn[c] = "gone" -> "over"

Registry == INSTANCE DeviceRegistry
              WITH session <- [c \in Conns |-> Session(c)],
                   owner <- node,
                   halted <- crashed

(* Every behaviour of the server is one the registry allows.               *)
ImplementsRegistry == Registry!Spec
=============================================================================
