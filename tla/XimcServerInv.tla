---------------------------- MODULE XimcServerInv ----------------------------
(***************************************************************************)
(* The inductive invariant of XimcServer.  The safety properties alone are *)
(* not inductive: none of them says which mutex a handler holds, or how    *)
(* far a Device is through its construction and destruction.               *)
(***************************************************************************)
EXTENDS XimcServer

DataLabels == {"idle", "find", "add", "answer", "close_answer", "remove"}
                \cup RawAccess \cup Constructing \cup Destroying
DiscLabels == {"idle", "disc", "iterate", "advance"} \cup Destroying

(* A callback is only ever inside its own code, and whoever is inside      *)
(* addDevice, removeDevice or removeConnection holds map_mutex.            *)
LockInv ==
  /\ \A c \in Conns : pc[Data(c)] \in DataLabels /\ pc[Disc(c)] \in DiscLabels
  /\ \A h \in Handlers : pc[h] \in InSupermap => map_mutex = h

Building(c, s) == pc[Data(c)] \in Constructing /\ serial[Data(c)] = s

(* What the Device of connection c for serial s consists of, from before   *)
(* its constructor until after its destructor.                             *)
DeviceOK(c, s) ==
  LET d == <<c, s>>
      mutex == net_to_dev_mutex[d]
  IN  /\ ~crashed => (node[s] = c <=> d \in conndevmap \/ Building(c, s))
      /\ d \in conndevmap => ~Building(c, s) /\ mutex \notin {"unmade", "ctor"}
      /\ Building(c, s) =>
           /\ mutex = IF pc[Data(c)] = "ctor_mutex" THEN "unmade" ELSE "ctor"
           /\ pc[Data(c)] # "ctor_done" => writer[d] \in Stopped
      /\ d \notin conndevmap /\ ~Building(c, s) =>
           mutex = "unmade" /\ reader[d] \in Stopped /\ writer[d] \in Stopped
      /\ writer[d] \in WriterHolds <=> mutex = "writer"

(* What a callback knows of the Device it works on.                        *)
CallOK(h) ==
  /\ pc[h] = "raw_put" => net_to_dev_mutex[Dev(h)] \in {"data", "unmade"}
  /\ pc[h] \in Destroying => Dev(h) \in conndevmap
  /\ pc[h] = "join_writer" => reader[Dev(h)] \in Stopped

DeviceInv ==
  /\ \A c \in Conns, s \in Serials : DeviceOK(c, s)
  /\ \A h \in Handlers : CallOK(h)

IInv == TypeOK /\ LockInv /\ DeviceInv

-----------------------------------------------------------------------------
(* A buffer whose first w bytes the controller has taken: consecutive      *)
(* bytes, the w-th being byte s and the last one byte a.                   *)
Consecutive(buf, w, a, s) ==
  /\ w <= Len(buf)
  /\ a + w = s + Len(buf)
  /\ \A i \in 1 .. Len(buf) : buf[i] + w = s + i

BytesOK(d) ==
  /\ Consecutive(net_to_dev_buffer[d], wrote[d], accepted[d], sent[d])
  /\ wrote[d] # 0 => writer[d] = "erase"
  /\ net_to_dev_mutex[d] = "unmade" => net_to_dev_buffer[d] = <<>>

BytesInv == \A d \in Devices : BytesOK(d)

(* A writer that is past its loop condition although should_exit is set    *)
(* has been overtaken by the destructor, which waits for it.               *)
ExitInv ==
  \A d \in Devices :
    should_exit[d] /\ writer[d] \in {"lock", "write", "erase"} =>
      \E h \in Handlers : pc[h] \in Destroying /\ Dev(h) = d

-----------------------------------------------------------------------------
(* What holds besides when no peer opens a device it already holds:        *)
(* addDevice never finds the device there, so it never keeps map_mutex.    *)
MutexInv ==
  /\ \A c \in Conns : pc[Data(c)] = "add" => Dev(Data(c)) \notin conndevmap
  /\ \A h \in Handlers : map_mutex = h => pc[h] \in InSupermap

(* What holds besides when callback_disc(c) waits for callback_data(c):    *)
(* callback_disc runs alone, and a pointer that findDevice has returned    *)
(* stays good until the callback that asked for it is done with it.        *)
CallbackInv ==
  \A c \in Conns :
    /\ pc[Disc(c)] # "idle" => conn[c] = "down" /\ pc[Data(c)] = "idle"
    /\ pc[Data(c)] \in RawAccess => Dev(Data(c)) \in conndevmap

(* And when, moreover, no peer comes before both callbacks are set: a      *)
(* connection that is over has no callback running and no Device left.     *)
SessionInv ==
  \A c \in Conns :
    /\ conn[c] # "new" => main = "running"
    /\ pc[Data(c)] # "idle" => conn[c] \in {"up", "down"}
    /\ conn[c] = "gone" => \A s \in Serials : <<c, s>> \notin conndevmap

-----------------------------------------------------------------------------
(* Who waits: a callback for map_mutex, for net_to_dev_mutex, or for a     *)
(* thread that it joins; a writer for net_to_dev_mutex.  All others run.   *)
HandlerWaits(h) ==
  \/ pc[h] \in {"find", "add", "remove", "disc"} /\ map_mutex # NoHandler
  \/ pc[h] = "raw_lock" /\ net_to_dev_mutex[Dev(h)] \notin {"free", "unmade"}
  \/ pc[h] = "join_reader" /\ reader[Dev(h)] \notin Stopped
  \/ pc[h] = "join_writer" /\ writer[Dev(h)] \notin Stopped

WriterWaits(d) == writer[d] = "lock" /\ net_to_dev_mutex[d] # "free"

HandlerRuns(h) == pc[h] # "idle" /\ ~HandlerWaits(h)
WriterRuns(d) == writer[d] \notin Stopped /\ ~WriterWaits(d)
ReaderRuns(d) == reader[d] \notin Stopped

(* A RawData callback that has locked a buffer is about to fill it, and    *)
(* the threads that a destructor joins have been told to end.              *)
WaitInv ==
  /\ \A c \in Conns, s \in Serials :
       net_to_dev_mutex[<<c, s>>] = "data" => pc[Data(c)] = "raw_put" /\ serial[Data(c)] = s
  /\ \A h \in Handlers : pc[h] \in Destroying => should_exit[Dev(h)]

(* Nobody waits in a circle.  The longest chain is a callback that waits   *)
(* for map_mutex, whose holder joins a writer, which waits for the mutex   *)
(* of its buffer, which a callback that runs is about to unlock; and the   *)
(* thread that is joined has been told to end.                             *)
WaitsEnd ==
  /\ \A h \in Handlers :
       HandlerWaits(h) =>
         CASE pc[h] = "raw_lock" -> WriterRuns(Dev(h))
           [] pc[h] = "join_reader" -> should_exit[Dev(h)] /\ ReaderRuns(Dev(h))
           [] pc[h] = "join_writer" ->
                /\ should_exit[Dev(h)] /\ writer[Dev(h)] \notin Stopped
           [] OTHER -> map_mutex \in Handlers /\ pc[map_mutex] \in InSupermap
  /\ \A d \in Devices :
       WriterWaits(d) => \E h \in Handlers : Dev(h) = d /\ HandlerRuns(h)

(* As long as a callback has not returned to the library, some thread runs.*)
SomebodyRuns ==
  (\E h \in Handlers : pc[h] # "idle") =>
    \/ \E h \in Handlers : HandlerRuns(h)
    \/ \E d \in Devices : WriterRuns(d) \/ ReaderRuns(d)
=============================================================================
