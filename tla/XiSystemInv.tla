----------------------------- MODULE XiSystemInv -----------------------------
(***************************************************************************)
(* The inductive invariant of XiSystem, in parts.  IInv holds whatever the *)
(* program does; the other three need what their names say.                *)
(***************************************************************************)
EXTENDS XiSystem

Has(queue, packet) == \E i \in 1 .. Len(queue) : queue[i] = packet

Tells(queue, answer) == \E i \in 1 .. Len(queue) : queue[i].kind = answer

(* An answer is on its way to the client, or its callback is running.      *)
Told(c, answer) == Tells(toClient[c], answer) \/ callback[c].kind = answer

(* bindy_close has asked the server to close, and what comes of it is      *)
(* still on its way.                                                       *)
CloseSent(c) == Has(toServer[c], "close") \/ session[c] = "closing" \/ Told(c, "closed")

AnswerDue(c) == Has(toServer[c], "open") \/ Told(c, "granted") \/ Told(c, "refused")

-----------------------------------------------------------------------------
Unconnected == {"idle", "open_reset", "open_connect"}
Connecting == {"open_send", "open_finish"}
Writing == {"write_find", "write_send"}
Asking == {"close_request", "close_send"}
Asked == {"close_disconnect", "close_erase"}

(* A connection id that has not been handed out is unknown to everybody.   *)
Unused(c) ==
  /\ c \notin handles /\ c \notin known
  /\ c \notin device_by_conn
  /\ \A t \in Threads : conn_id[t] # c
  /\ \A s \in Serials : owner[s] # c
  /\ toServer[c] = <<>> /\ toClient[c] = <<>>
  /\ callback[c] = Idle
  /\ session[c] = "new"
  /\ buffer[c] = <<>> /\ taken[c] = 0

UnusedInv == \A c \in Conns : link[c] = "none" => Unused(c)

(* A call of bindy_open is alone with its connection, which has no Device  *)
(* and has had none; nobody has answered what it has not asked.            *)
ConnectingOK(t) ==
  LET c == conn_id[t] IN
  /\ c \notin handles /\ c \notin known
  /\ c \notin device_by_conn
  /\ buffer[c] = <<>> /\ taken[c] = 0
  /\ target[c] = serial[t]
  /\ ~CloseSent(c)
  /\ pc[t] = "open_send" => toServer[c] = <<>> /\ ~AnswerDue(c)
  /\ \A u \in Threads : conn_id[u] = c => u = t

(* What was given to bindy_close is no handle any more, and gets no Device *)
(* again.                                                                  *)
ClosingOK(t) ==
  LET c == conn_id[t] IN
  /\ c \notin handles
  /\ pc[t] = "close_return" => c \notin device_by_conn

ConnInv == \A t \in Threads : conn_id[t] = NoConn <=> pc[t] \in Unconnected

CallInv ==
  \A t \in Threads :
    /\ pc[t] \in Connecting => ConnectingOK(t)
    /\ pc[t] \in Closing => ClosingOK(t)

HandleInv == \A c \in handles : ~CloseSent(c)

(* A Device without a handle, or one that the server was asked to close,   *)
(* is being closed by a call.                                              *)
DeviceInv ==
  \A c \in device_by_conn :
    /\ c \notin handles => \E t \in Threads : conn_id[t] = c /\ pc[t] \in Closing
    /\ CloseSent(c) => \E t \in Threads : conn_id[t] = c /\ pc[t] \in Asked

FailureInv == \A c \in Conns : Told(c, "failed") => Failed(c)

Settled == {"granted", "refused"}

OpenFirst(queue) == \A i \in 1 .. Len(queue) : queue[i] = "open" => i = 1

SettledOnce(queue) ==
  \A i, j \in 1 .. Len(queue) :
    queue[i].kind \in Settled /\ queue[j].kind \in Settled => i = j

(* A connection asks to open once, with its first packet, and is answered  *)
(* at most once.                                                           *)
AnswerInv ==
  \A c \in Conns :
    /\ OpenFirst(toServer[c])
    /\ SettledOnce(toClient[c])
    /\ \A answer \in Settled :
         /\ Has(toServer[c], "open") => ~Told(c, answer)
         /\ callback[c].kind \in Settled => ~Tells(toClient[c], answer)

OwnerInv == \A s \in Serials : owner[s] \in Conns => target[owner[s]] = s

(* The RawData packets of a queue ascend from above one number to another. *)
Numbered(queue, above, last) ==
  /\ \A i \in 1 .. Len(queue) :
       queue[i].kind = "data" => above < queue[i].byte /\ queue[i].byte <= last
  /\ \A i, j \in 1 .. Len(queue) :
       queue[i].kind = "data" /\ queue[j].kind = "data" /\ i < j
       => queue[i].byte < queue[j].byte

(* RawData comes in the order of its numbers.  callback_data will not see  *)
(* again what it is done with, and what it is not done with is on its way, *)
(* or could not be sent.                                                   *)
SentInOrder ==
  \A c \in Conns :
    /\ Numbered(toClient[c], arrived[c], given[c])
    /\ callback[c].kind \in {"data", "put"} =>
         /\ arrived[c] < callback[c].byte /\ callback[c].byte <= given[c]
         /\ Numbered(toClient[c], callback[c].byte, given[c])
    /\ \A n \in arrived[c] + 1 .. given[c] : OnItsWay(c, n) \/ n \in dropped[c]
    /\ \A i \in 1 .. Len(buffer[c]) : buffer[c][i] <= arrived[c]
    /\ taken[c] <= arrived[c] /\ arrived[c] <= given[c]

(* What a call, the objects of its connection, the packets on their way    *)
(* and the server know of each other fits together at any time, whatever   *)
(* the program does: this is what every step keeps.                        *)
IInv ==
  /\ TypeOK
  /\ ConnInv
  /\ GlobalMutexInside
  /\ UnusedInv
  /\ CallInv
  /\ HandleInv
  /\ DeviceInv
  /\ FailureInv
  /\ AnswerInv
  /\ OwnerInv
  /\ HandleMeansDevice
  /\ SentInOrder
  /\ ReadInOrder

-----------------------------------------------------------------------------
(* OneCallPerDevice.  A read or a write that has found a Device keeps its  *)
(* handle, a close that has found one asks first, no two calls work on one *)
(* connection, and no two opens on one controller.                         *)
OneCallInv ==
  /\ \A t \in Threads :
       /\ pc[t] \in {"write_send", "read_lock", "read_copy"} => conn_id[t] \in handles
       /\ pc[t] \in Asking => ~CloseSent(conn_id[t])
  /\ \A t, u \in Threads : conn_id[t] # NoConn /\ conn_id[t] = conn_id[u] => t = u
  /\ \A t, u \in Threads :
       pc[t] \in Opening /\ pc[u] \in Opening /\ serial[t] = serial[u] => t = u

(* TimeoutsSuffice as well.  The answer to an open finds the call that     *)
(* waits for it, so open_ok speaks of that call; and whoever was granted a *)
(* controller has it until a close is sent or the connection ends.         *)
Keeps(c) == link[c] = "up" => Owns(c)

OpenInv ==
  /\ \A c \in Conns : AnswerDue(c) =>
       \E t \in Threads : pc[t] = "open_finish" /\ conn_id[t] = c
  /\ \A s \in open_ok :
       \E t \in Threads : /\ pc[t] = "open_finish" /\ serial[t] = s
                         /\ Keeps(conn_id[t]) /\ ~AnswerDue(conn_id[t])
  /\ \A c \in Conns : session[c] = "granting" \/ Told(c, "granted") => Keeps(c)
  /\ \A c \in handles : Keeps(c)

(* Nothing follows a close request, and RawData before it is for the owner. *)
RawInv ==
  \A c \in Conns :
    /\ Has(toServer[c], "raw") => Keeps(c)
    /\ \A i \in 1 .. Len(toServer[c]) :
         toServer[c][i] = "close" => i = Len(toServer[c])
    /\ session[c] = "closing" => toServer[c] = <<>>

-----------------------------------------------------------------------------
(* Device::mutex is held by a thread that copies bytes from this Device,   *)
(* and by no other; and nobody copies from a Device without it.            *)
ReaderInv ==
  /\ \A c \in Conns, t \in Threads : mutex[c] = t =>
       c \in device_by_conn /\ pc[t] = "read_copy" /\ conn_id[t] = c
  /\ \A t \in Threads : pc[t] = "read_copy" /\ conn_id[t] \in device_by_conn =>
       mutex[conn_id[t]] = t

(* Who waits: calls and callbacks for global_mutex, and a reader or a      *)
(* callback that has it for the mutex of a Device.  All others run, or     *)
(* sleep for a time.                                                       *)
NeedsGlobal == {"open_reset", "open_finish", "write_find", "read_find", "close_find",
                "close_erase"}

CallWaits(t) ==
  \/ pc[t] \in NeedsGlobal /\ global_mutex # NoOne
  \/ pc[t] = "read_lock" /\ mutex[conn_id[t]] # NoOne

CallbackWaits(c) ==
  \/ callback[c].kind \in Answers /\ global_mutex # NoOne
  \/ callback[c].kind = "put" /\ mutex[c] # NoOne

CallRuns(t) == pc[t] # "idle" /\ ~CallWaits(t)
CallbackRuns(c) == callback[c].kind # "idle" /\ ~CallbackWaits(c)

(* The mutex of a Device is held by a thread that copies from it and needs *)
(* no other mutex to go on; global_mutex by a reader or a callback that    *)
(* runs or waits for such a thread.                                        *)
CopyRuns(c) ==
  \E t \in Threads : mutex[c] = t /\ conn_id[t] = c /\ pc[t] = "read_copy" /\ CallRuns(t)

HolderGoesOn ==
  \/ \E t \in Threads : /\ global_mutex = t /\ pc[t] = "read_lock"
                        /\ CallRuns(t) \/ CopyRuns(conn_id[t])
  \/ \E c \in Conns : global_mutex = c /\ (CallbackRuns(c) \/ CopyRuns(c))

(* Nobody waits in a circle, and no thread for itself, although bindy_read *)
(* and callback_data lock the mutex of a Device under global_mutex.  The   *)
(* longest chain: who waits for global_mutex, its holder, who copies.      *)
WaitsEnd ==
  /\ \A t \in Threads : CallWaits(t) =>
       IF pc[t] = "read_lock" THEN CopyRuns(conn_id[t]) ELSE HolderGoesOn
  /\ \A c \in Conns : CallbackWaits(c) =>
       IF callback[c].kind = "put" THEN CopyRuns(c) ELSE HolderGoesOn

(* Two threads never copy from one Device together.                        *)
ReadersExclude ==
  \A t, u \in Threads :
    /\ pc[t] = "read_copy" /\ pc[u] = "read_copy"
    /\ conn_id[t] = conn_id[u] /\ conn_id[t] \in device_by_conn
    => t = u
=============================================================================
