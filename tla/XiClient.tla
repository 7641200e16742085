------------------------------ MODULE XiClient ------------------------------
(***************************************************************************)
(* wrapper.cpp: the client library.  Threads of a program call bindy_open, *)
(* bindy_write, bindy_read and bindy_close; threads of the transport       *)
(* library (bindy, not part of this repository) run callback_data for      *)
(* every packet.  They share device_by_conn and open_ok under global_mutex *)
(* and the receive buffer of each device under the mutex of the device.    *)
(*                                                                         *)
(* A Device of the client belongs to one connection for its whole life, so *)
(* it has no identity of its own: device_by_conn is the set of connections *)
(* that have one, and a call that works on the Device of a connection that *)
(* has left this set uses a deleted object.  open_ok is the set of serials *)
(* whose entry is true: an entry that is false and one that is absent are  *)
(* never told apart.                                                       *)
(*                                                                         *)
(* How long a call waits is left open: every timeout may strike at any     *)
(* time.  The two packet queues of a connection are the network.           *)
(***************************************************************************)
EXTENDS Naturals, Sequences

CONSTANTS
  Threads,          \* threads of the program
  Conns,            \* connection ids that bindy hands out
  Serials,          \* serial numbers of the controllers
  NoConn,           \* conn_id_invalid; the owner of a free controller
  NoOne,            \* nobody has locked a mutex
  MaxPackets,       \* bound: RawData packets waiting to be served
  OneCallPerDevice, \* the program makes one call at a time for a controller
  TimeoutsSuffice   \* bindy_open gives up only when no answer is on its way

ASSUME ClientAssumption ==
  /\ NoConn \notin Conns
  /\ NoOne \notin Threads \cup Conns
  /\ Threads \cap Conns = {}
  /\ MaxPackets \in Nat
  /\ OneCallPerDevice \in BOOLEAN
  /\ TimeoutsSuffice \in BOOLEAN

VARIABLES
  pc,        \* where each thread is in the call it makes
  conn_id,   \* the connection each thread works on
  serial,    \* the serial each thread opens
  callback,  \* the packet that callback_data of each connection handles
  handles,   \* what bindy_open has returned and bindy_close has not had yet
  known,     \* all that bindy_open has ever returned: the program may use any of it
  unsent,    \* history: connections that were up when a close could not be sent
  crashed,   \* the process has died
  device_by_conn,  \* the connections that have a Device
  open_ok,         \* the serials whose open is known to have succeeded
  global_mutex,    \* the thread or the connection (its callback) that holds it
  mutex,           \* Device::mutex: the thread that reads, or NoOne
  buffer,          \* Device::buffer: numbers of the bytes not read yet
  arrived,   \* history: the number of the last byte that callback_data is done with
  taken,     \* history: the number of the last byte that bindy_read returned
  link,      \* "none", "up", "closed" by this program, or "lost"
  target,    \* the serial that the packets of the connection name
  toServer,  \* packets on their way to the server
  toClient   \* packets on their way to the client

callVars == <<pc, conn_id, serial>>
progVars == <<handles, known, unsent, crashed>>
objVars == <<device_by_conn, mutex, buffer, arrived, taken>>
netVars == <<link, target, toServer, toClient>>
clientVars == <<callVars, callback, progVars, open_ok, global_mutex,
                objVars, netVars>>

Requests == {"open", "raw", "close"}
Answers == {"granted", "refused", "data", "closed", "failed"}

(* A packet for the client.  RawData brings one byte, known by its number; *)
(* the other packets bring none, and have number 0.                        *)
Packets == [kind : Answers, byte : Nat]
Idle == [kind |-> "idle", byte |-> 0]

Opening == {"open_reset", "open_connect", "open_send", "open_finish"}
Reading == {"read_find", "read_lock", "read_copy"}
Closing == {"close_find", "close_return", "close_request", "close_send",
            "close_disconnect", "close_erase"}
Labels == {"idle", "write_find", "write_send"} \cup Opening \cup Reading \cup Closing

ClientTypeOK ==
  /\ pc \in [Threads -> Labels]
  /\ conn_id \in [Threads -> Conns \cup {NoConn}]
  /\ serial \in [Threads -> Serials]
  /\ callback \in [Conns -> [kind : Answers \cup {"idle", "put"}, byte : Nat]]
  /\ handles \in SUBSET Conns
  /\ known \in SUBSET Conns
  /\ unsent \in SUBSET Conns
  /\ crashed \in BOOLEAN
  /\ device_by_conn \in SUBSET Conns
  /\ open_ok \in SUBSET Serials
  /\ global_mutex \in Threads \cup Conns \cup {NoOne}
  /\ mutex \in [Conns -> Threads \cup {NoOne}]
  /\ buffer \in [Conns -> Seq(Nat)]
  /\ arrived \in [Conns -> Nat]
  /\ taken \in [Conns -> Nat]
  /\ link \in [Conns -> {"none", "up", "closed", "lost"}]
  /\ target \in [Conns -> Serials]
  /\ toServer \in [Conns -> Seq(Requests)]
  /\ toClient \in [Conns -> Seq(Packets)]

ClientInit ==
  /\ pc = [t \in Threads |-> "idle"]
  /\ conn_id = [t \in Threads |-> NoConn]
  /\ serial \in {[t \in Threads |-> s] : s \in Serials}
  /\ callback = [c \in Conns |-> Idle]
  /\ handles = {}
  /\ known = {}
  /\ unsent = {}
  /\ crashed = FALSE
  /\ device_by_conn = {}
  /\ open_ok = {}
  /\ global_mutex = NoOne
  /\ mutex = [c \in Conns |-> NoOne]
  /\ buffer = [c \in Conns |-> <<>>]
  /\ arrived = [c \in Conns |-> 0]
  /\ taken = [c \in Conns |-> 0]
  /\ link = [c \in Conns |-> "none"]
  /\ target \in {[c \in Conns |-> s] : s \in Serials}
  /\ toServer = [c \in Conns |-> <<>>]
  /\ toClient = [c \in Conns |-> <<>>]

-----------------------------------------------------------------------------
Goto(t, label) == pc' = [pc EXCEPT ![t] = label]

(* The call returns to the program.                                        *)
Return(t) ==
  /\ Goto(t, "idle")
  /\ conn_id' = [conn_id EXCEPT ![t] = NoConn]

(* instance->send_data hands a packet to an established connection.        *)
Transmit(c, packet) ==
  /\ link[c] = "up"
  /\ toServer' = [toServer EXCEPT ![c] = Append(@, packet)]

Disconnect(c) ==
  link' = [link EXCEPT ![c] = "closed"]

(* delete d, and its entry in the map is erased.                           *)
DeleteDevice(c) ==
  /\ device_by_conn' = device_by_conn \ {c}
  /\ mutex' = [mutex EXCEPT ![c] = NoOne]
  /\ buffer' = [buffer EXCEPT ![c] = <<>>]
  /\ UNCHANGED <<arrived, taken>>

(* The process dies, and its connections with it.                          *)
Die ==
  /\ crashed' = TRUE
  /\ link' = [c \in Conns |-> IF link[c] = "up" THEN "closed" ELSE link[c]]
  /\ UNCHANGED <<callVars, callback, handles, known, unsent, open_ok, global_mutex,
                 objVars, target, toServer, toClient>>

-----------------------------------------------------------------------------
(* The program makes a call.                                               *)
Alone(c) ==
  OneCallPerDevice => \A u \in Threads : conn_id[u] # c

CallOpen(t, s) ==
  /\ pc[t] = "idle"
  /\ OneCallPerDevice => \A u \in Threads : pc[u] \in Opening => serial[u] # s
  /\ Goto(t, "open_reset")
  /\ serial' = [serial EXCEPT ![t] = s]
  /\ UNCHANGED <<conn_id, callback, progVars, open_ok, global_mutex,
                 objVars, netVars>>

(* ... for a handle that it has got once, also when it has closed it.      *)
CallOn(t, c, label) ==
  /\ pc[t] = "idle"
  /\ c \in known
  /\ Alone(c)
  /\ Goto(t, label)
  /\ conn_id' = [conn_id EXCEPT ![t] = c]
  /\ UNCHANGED <<serial, callback, known, unsent, crashed, open_ok, global_mutex,
                 objVars, netVars>>

CallWrite(t, c) == CallOn(t, c, "write_find") /\ UNCHANGED handles
CallRead(t, c) == CallOn(t, c, "read_find") /\ UNCHANGED handles
CallClose(t, c) == CallOn(t, c, "close_find") /\ handles' = handles \ {c}

-----------------------------------------------------------------------------
(* bindy_open.  An entry left over from an earlier open is reset first.    *)
OpenReset(t) ==
  /\ pc[t] = "open_reset"
  /\ global_mutex = NoOne
  /\ open_ok' = open_ok \ {serial[t]}
  /\ Goto(t, "open_connect")
  /\ UNCHANGED <<conn_id, serial, callback, progVars, global_mutex,
                 objVars, netVars>>

OpenConnectSwapped(t, c) ==  \* faulty variant: the serial is taken for the connection id
  /\ pc[t] = "open_connect"
  /\ link[c] = "none"
  /\ link' = [link EXCEPT ![c] = "up"]
  /\ target' = [target EXCEPT ![c] = serial[t]]
  /\ conn_id' = [conn_id EXCEPT ![t] = serial[t]]
  /\ Goto(t, "open_send")
  /\ UNCHANGED <<serial, callback, progVars, open_ok, global_mutex,
                 objVars, toServer, toClient>>

OpenConnect(t, c) ==
  /\ pc[t] = "open_connect"
  /\ link[c] = "none"
  /\ link' = [link EXCEPT ![c] = "up"]
  /\ target' = [target EXCEPT ![c] = serial[t]]
  /\ conn_id' = [conn_id EXCEPT ![t] = c]
  /\ Goto(t, "open_send")
  /\ UNCHANGED <<serial, callback, progVars, open_ok, global_mutex,
                 objVars, toServer, toClient>>

OpenConnectFails(t) ==
  /\ pc[t] = "open_connect"
  /\ Return(t)
  /\ UNCHANGED <<serial, callback, progVars, open_ok, global_mutex,
                 objVars, netVars>>

(* adaptive_wait_send: the request goes out, or the time is up without it. *)
OpenSend(t) ==
  /\ pc[t] = "open_send"
  /\ Transmit(conn_id[t], "open") \/ UNCHANGED toServer
  /\ Goto(t, "open_finish")
  /\ UNCHANGED <<conn_id, serial, callback, progVars, open_ok,
                 global_mutex, objVars, link, target, toClient>>

(* ... or it throws something else than a runtime_error.                   *)
OpenSendThrows(t) ==
  /\ pc[t] = "open_send"
  /\ Disconnect(conn_id[t])
  /\ Return(t)
  /\ UNCHANGED <<serial, callback, progVars, open_ok, global_mutex,
                 objVars, target, toServer, toClient>>

(* sleep_until_open looks at open_ok until it is true or the time is up;   *)
(* since the time may be up at any moment, only its end is a step.         *)
Answered(c) ==
  /\ \A i \in DOMAIN toServer[c] : toServer[c][i] # "open"
  /\ \A i \in DOMAIN toClient[c] : toClient[c][i].kind \notin {"granted", "refused"}
  /\ callback[c].kind \notin {"granted", "refused"}

FinishOpen(t) ==
  /\ pc[t] = "open_finish"
  /\ global_mutex = NoOne
  /\ open_ok' = open_ok \ {serial[t]}
  /\ Return(t)
  /\ UNCHANGED <<serial, callback, unsent, crashed, global_mutex, mutex, buffer, arrived,
                 taken, target, toServer, toClient>>

NewHandle(c) ==
  /\ handles' = handles \cup {c}
  /\ known' = known \cup {c}

OpenAnyway(t) ==  \* faulty variant: the result of the open is not looked at
  /\ FinishOpen(t)
  /\ device_by_conn' = device_by_conn \cup {conn_id[t]}
  /\ NewHandle(conn_id[t])
  /\ UNCHANGED link

OpenNoDevice(t) ==  \* faulty variant: the new Device is not entered in the map
  /\ serial[t] \in open_ok
  /\ FinishOpen(t)
  /\ NewHandle(conn_id[t])
  /\ UNCHANGED <<link, device_by_conn>>

OpenSucceeds(t) ==
  /\ serial[t] \in open_ok
  /\ FinishOpen(t)
  /\ device_by_conn' = device_by_conn \cup {conn_id[t]}
  /\ NewHandle(conn_id[t])
  /\ UNCHANGED link

OpenForgotten(t) ==  \* faulty variant: the connection of a failed open is kept
  /\ serial[t] \notin open_ok
  /\ FinishOpen(t)
  /\ TimeoutsSuffice => Answered(conn_id[t])
  /\ UNCHANGED <<device_by_conn, handles, known, link>>

OpenFails(t) ==
  /\ serial[t] \notin open_ok
  /\ FinishOpen(t)
  /\ TimeoutsSuffice => Answered(conn_id[t])
  /\ Disconnect(conn_id[t])
  /\ UNCHANGED <<device_by_conn, handles, known>>

-----------------------------------------------------------------------------
(* bindy_write: the device is looked up for its serial only.               *)
WriteFind(t) ==
  /\ pc[t] = "write_find"
  /\ global_mutex = NoOne
  /\ IF conn_id[t] \in device_by_conn
       THEN Goto(t, "write_send") /\ UNCHANGED conn_id
       ELSE Return(t)
  /\ UNCHANGED <<serial, callback, progVars, open_ok, global_mutex,
                 objVars, netVars>>

WriteSend(t) ==
  /\ pc[t] = "write_send"
  /\ \/ Transmit(conn_id[t], "raw") /\ Len(toServer[conn_id[t]]) < MaxPackets
     \/ UNCHANGED toServer
  /\ Return(t)
  /\ UNCHANGED <<serial, callback, progVars, open_ok, global_mutex,
                 objVars, link, target, toClient>>

-----------------------------------------------------------------------------
(* bindy_read: Device::mutex is locked under global_mutex, the bytes are   *)
(* taken under Device::mutex alone.                                        *)
ReadFind(t) ==
  /\ pc[t] = "read_find"
  /\ global_mutex = NoOne
  /\ IF conn_id[t] \in device_by_conn
       THEN global_mutex' = t /\ Goto(t, "read_lock") /\ UNCHANGED conn_id
       ELSE Return(t) /\ UNCHANGED global_mutex
  /\ UNCHANGED <<serial, callback, progVars, open_ok, objVars, netVars>>

ReadLockKeeps(t) ==  \* faulty variant: global_mutex is kept for the whole read
  /\ pc[t] = "read_lock"
  /\ mutex[conn_id[t]] = NoOne
  /\ mutex' = [mutex EXCEPT ![conn_id[t]] = t]
  /\ Goto(t, "read_copy")
  /\ UNCHANGED <<conn_id, serial, callback, progVars, open_ok, global_mutex,
                 device_by_conn, buffer, arrived, taken, netVars>>

ReadLock(t) ==
  /\ pc[t] = "read_lock"
  /\ mutex[conn_id[t]] = NoOne
  /\ mutex' = [mutex EXCEPT ![conn_id[t]] = t]
  /\ global_mutex' = NoOne
  /\ Goto(t, "read_copy")
  /\ UNCHANGED <<conn_id, serial, callback, progVars, open_ok,
                 device_by_conn, buffer, arrived, taken, netVars>>

(* k bytes are copied: the size asked for, or all there are.               *)
ReadBytes(t, k, rest) ==
  LET c == conn_id[t]
  IN  /\ pc[t] = "read_copy"
      /\ c \in device_by_conn
      /\ taken' = [taken EXCEPT ![c] = IF k = 0 THEN @ ELSE buffer[c][k]]
      /\ buffer' = [buffer EXCEPT ![c] = rest]
      /\ mutex' = [mutex EXCEPT ![c] = NoOne]
      /\ Return(t)
      /\ UNCHANGED <<serial, callback, progVars, open_ok, global_mutex,
                     device_by_conn, arrived, netVars>>

ReadCopyBack(t, k) ==  \* faulty variant: the bytes are erased at the wrong end
  ReadBytes(t, k, SubSeq(buffer[conn_id[t]], 1, Len(buffer[conn_id[t]]) - k))

ReadCopy(t, k) ==
  ReadBytes(t, k, SubSeq(buffer[conn_id[t]], k + 1, Len(buffer[conn_id[t]])))

(* Undefined behaviour: the callback has deleted the Device meanwhile.     *)
ReadFreed(t) ==
  /\ pc[t] = "read_copy"
  /\ conn_id[t] \notin device_by_conn
  /\ \/ Die
     \/ /\ Return(t)
        /\ UNCHANGED <<serial, callback, progVars, open_ok, global_mutex,
                       objVars, netVars>>

-----------------------------------------------------------------------------
(* bindy_close: nothing to do without a Device.                            *)
CloseFind(t) ==
  /\ pc[t] = "close_find"
  /\ global_mutex = NoOne
  /\ Goto(t, IF conn_id[t] \in device_by_conn THEN "close_request" ELSE "close_return")
  /\ UNCHANGED <<conn_id, serial, callback, progVars, open_ok, global_mutex,
                 objVars, netVars>>

CloseReturn(t) ==
  /\ pc[t] = "close_return"
  /\ Return(t)
  /\ UNCHANGED <<serial, callback, progVars, open_ok, global_mutex,
                 objVars, netVars>>

(* The map is looked at once more, without the mutex.  A Device that is no *)
(* longer there is a NULL pointer; and whoever changes the map at the same *)
(* time makes the look undefined behaviour.                                *)
MapChanges(t) ==
  \/ \E u \in Threads \ {t} : pc[u] \in {"open_finish", "close_erase"}
  \/ \E c \in Conns : callback[c].kind \in {"closed", "failed"}

CloseRequest(t) ==
  /\ pc[t] = "close_request"
  /\ \/ /\ conn_id[t] \in device_by_conn
        /\ Goto(t, "close_send")
        /\ UNCHANGED <<conn_id, serial, callback, progVars, open_ok,
                       global_mutex, objVars, netVars>>
     \/ conn_id[t] \notin device_by_conn /\ Die
     \/ MapChanges(t) /\ Die

(* The request is sent, or send_data throws, which skips disconnect.  It   *)
(* is not tried again, so it may throw on a connection that stays up.      *)
CloseSend(t) ==
  /\ pc[t] = "close_send"
  /\ \/ /\ Transmit(conn_id[t], "close")
        /\ Goto(t, "close_disconnect")
        /\ UNCHANGED unsent
     \/ /\ Goto(t, "close_erase")
        /\ unsent' = IF link[conn_id[t]] = "up" THEN unsent \cup {conn_id[t]} ELSE unsent
        /\ UNCHANGED toServer
  /\ UNCHANGED <<conn_id, serial, callback, handles, known, crashed, open_ok,
                 global_mutex, objVars, link, target, toClient>>

CloseDisconnect(t) ==
  /\ pc[t] = "close_disconnect"
  /\ Disconnect(conn_id[t])
  /\ Goto(t, "close_erase")
  /\ UNCHANGED <<conn_id, serial, callback, progVars, open_ok, global_mutex,
                 objVars, target, toServer, toClient>>

CloseErase(t) ==
  /\ pc[t] = "close_erase"
  /\ global_mutex = NoOne
  /\ conn_id[t] \in device_by_conn
  /\ DeleteDevice(conn_id[t])
  /\ Return(t)
  /\ UNCHANGED <<serial, callback, progVars, open_ok, global_mutex, netVars>>

(* Undefined behaviour: the callback has deleted the Device already, and   *)
(* it is deleted a second time.                                            *)
CloseErased(t) ==
  /\ pc[t] = "close_erase"
  /\ global_mutex = NoOne
  /\ conn_id[t] \notin device_by_conn
  /\ \/ Die
     \/ /\ Return(t)
        /\ UNCHANGED <<serial, callback, progVars, open_ok, global_mutex,
                       objVars, netVars>>

-----------------------------------------------------------------------------
(* callback_data.  bindy delivers what has arrived, also when this program *)
(* has disconnected in the meantime; the callback waits for global_mutex.  *)
Deliver(c) ==
  /\ callback[c] = Idle
  /\ toClient[c] # <<>>
  /\ callback' = [callback EXCEPT ![c] = Head(toClient[c])]
  /\ toClient' = [toClient EXCEPT ![c] = Tail(@)]
  /\ UNCHANGED <<callVars, progVars, open_ok, global_mutex, objVars,
                 link, target, toServer>>

CallbackDone(c) == callback' = [callback EXCEPT ![c] = Idle]

AnswerIgnored(c) ==  \* faulty variant: any answer counts as a success
  /\ callback[c].kind \in {"granted", "refused"}
  /\ global_mutex = NoOne
  /\ open_ok' = open_ok \cup {target[c]}
  /\ CallbackDone(c)
  /\ UNCHANGED <<callVars, progVars, global_mutex, objVars, netVars>>

OpenDeviceAnswer(c) ==
  /\ callback[c].kind \in {"granted", "refused"}
  /\ global_mutex = NoOne
  /\ open_ok' = IF callback[c].kind = "granted" THEN open_ok \cup {target[c]}
                                                ELSE open_ok \ {target[c]}
  /\ CallbackDone(c)
  /\ UNCHANGED <<callVars, progVars, global_mutex, objVars, netVars>>

(* CloseDeviceAnswer and DeviceReadWriteErrorNotification delete the       *)
(* Device without locking its mutex.                                       *)
DeviceEnds(c) ==
  /\ callback[c].kind \in {"closed", "failed"}
  /\ global_mutex = NoOne
  /\ IF c \in device_by_conn THEN DeleteDevice(c) ELSE UNCHANGED objVars
  /\ CallbackDone(c)
  /\ UNCHANGED <<callVars, progVars, open_ok, global_mutex, netVars>>

(* RawData for a connection without a Device goes into one nobody knows.   *)
DataLost(c) ==
  /\ callback[c].kind = "data"
  /\ global_mutex = NoOne
  /\ c \notin device_by_conn
  /\ arrived' = [arrived EXCEPT ![c] = callback[c].byte]
  /\ CallbackDone(c)
  /\ UNCHANGED <<callVars, progVars, open_ok, global_mutex,
                 device_by_conn, mutex, buffer, taken, netVars>>

DataFind(c) ==
  /\ callback[c].kind = "data"
  /\ global_mutex = NoOne
  /\ c \in device_by_conn
  /\ global_mutex' = c
  /\ callback' = [callback EXCEPT ![c].kind = "put"]
  /\ UNCHANGED <<callVars, progVars, open_ok, objVars, netVars>>

DataPut(c) ==
  /\ callback[c].kind = "put"
  /\ mutex[c] = NoOne
  /\ arrived' = [arrived EXCEPT ![c] = callback[c].byte]
  /\ buffer' = [buffer EXCEPT ![c] = Append(@, callback[c].byte)]
  /\ global_mutex' = NoOne
  /\ CallbackDone(c)
  /\ UNCHANGED <<callVars, progVars, open_ok, device_by_conn, mutex,
                 taken, netVars>>

-----------------------------------------------------------------------------
Call(t) ==
  \/ \E s \in Serials : CallOpen(t, s)
  \/ \E c \in Conns : CallWrite(t, c) \/ CallRead(t, c) \/ CallClose(t, c)

(* A thread goes on with its call.                                         *)
ThreadStep(t) ==
  \/ OpenReset(t) \/ OpenConnectFails(t) \/ OpenSend(t) \/ OpenSendThrows(t)
  \/ \E c \in Conns : OpenConnect(t, c)
  \/ OpenSucceeds(t) \/ OpenFails(t)
  \/ WriteFind(t) \/ WriteSend(t)
  \/ ReadFind(t) \/ ReadLock(t) \/ ReadFreed(t)
  \/ /\ conn_id[t] \in device_by_conn
     /\ \E k \in 0 .. Len(buffer[conn_id[t]]) : ReadCopy(t, k)
  \/ CloseFind(t) \/ CloseReturn(t) \/ CloseRequest(t) \/ CloseSend(t)
  \/ CloseDisconnect(t) \/ CloseErase(t) \/ CloseErased(t)

(* A callback of the library goes on.                                      *)
CallbackStep(c) ==
  \/ Deliver(c) \/ OpenDeviceAnswer(c) \/ DeviceEnds(c)
  \/ DataLost(c) \/ DataFind(c) \/ DataPut(c)

(* The network breaks a connection; packets that have arrived stay.        *)
LinkLost(c) ==
  /\ link[c] = "up"
  /\ link' = [link EXCEPT ![c] = "lost"]
  /\ UNCHANGED <<callVars, callback, progVars, open_ok, global_mutex,
                 objVars, target, toServer, toClient>>
=============================================================================
