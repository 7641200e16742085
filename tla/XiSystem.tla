------------------------------ MODULE XiSystem ------------------------------
(***************************************************************************)
(* The client library (XiClient) and a server.  The server is the program  *)
(* of linux-server.cpp with its threads and mutexes abstracted away: one   *)
(* action for each thing a peer can see it do.  XimcServer models how it   *)
(* does it.                                                                *)
(***************************************************************************)
EXTENDS XiClient

CONSTANT MaxBytes   \* bound: RawData packets sent to one connection

ASSUME SystemAssumption == MaxBytes \in Nat

VARIABLES
  session,  \* the connection as the server sees it
  owner,    \* the connection that has opened each controller
  output,   \* bytes for the controller: "empty", "fed", or its write() "failed";
            \* "stopped" when the reader knows of the failure, too
  given,    \* RawData packets the server has produced for each connection
  dropped   \* history: the numbers of those that send_data has given up

serverVars == <<session, owner, output, given, dropped>>
vars == <<clientVars, serverVars>>

TypeOK ==
  /\ ClientTypeOK
  /\ session \in [Conns -> {"new", "open", "granting", "closing", "over"}]
  /\ owner \in [Serials -> Conns \cup {NoConn}]
  /\ output \in [Conns -> {"empty", "fed", "failed", "stopped"}]
  /\ given \in [Conns -> 0 .. MaxBytes]
  /\ dropped \in [Conns -> SUBSET Nat]

Init ==
  /\ ClientInit
  /\ session = [c \in Conns |-> "new"]
  /\ owner = [s \in Serials |-> NoConn]
  /\ output = [c \in Conns |-> "empty"]
  /\ given = [c \in Conns |-> 0]
  /\ dropped = [c \in Conns |-> {}]

-----------------------------------------------------------------------------
(* What a step of the server leaves alone in the client.                   *)
ClientUnchanged ==
  UNCHANGED <<callVars, callback, progVars, open_ok, global_mutex,
              objVars, link, target>>

(* send_data: a packet for a peer that is gone, or that cannot be sent in  *)
(* time, is dropped.                                                       *)
Send(c, answer, byte) ==
  /\ link[c] = "up"
  /\ toClient' = [toClient EXCEPT ![c] = Append(@, [kind |-> answer, byte |-> byte])]

Reply(c, answer) == Send(c, answer, 0) \/ UNCHANGED toClient

(* The next packet of connection c; it is served when the one before it    *)
(* has been.                                                               *)
IsNext(c, packet) ==
  /\ toServer[c] # <<>>
  /\ Head(toServer[c]) = packet

Serves(c, packet) == session[c] = "open" /\ IsNext(c, packet)

Taken(c) == toServer' = [toServer EXCEPT ![c] = Tail(@)]

Owns(c) == owner[target[c]] = c

GiveBack(c) ==
  owner' = IF Owns(c) THEN [owner EXCEPT ![target[c]] = NoConn] ELSE owner

Accept(c) ==
  /\ session[c] = "new"
  /\ link[c] # "none"
  /\ session' = [session EXCEPT ![c] = "open"]
  /\ ClientUnchanged
  /\ UNCHANGED <<owner, output, given, dropped, toServer, toClient>>

(* OpenDeviceRequest: the controller is free and addDevice succeeds.  Its  *)
(* threads run before the answer is sent.                                  *)
Grant(c) ==
  /\ Serves(c, "open")
  /\ owner[target[c]] = NoConn
  /\ owner' = [owner EXCEPT ![target[c]] = c]
  /\ session' = [session EXCEPT ![c] = "granting"]
  /\ ClientUnchanged
  /\ UNCHANGED <<output, given, dropped, toServer, toClient>>

AnswerOpen(c) ==
  /\ session[c] = "granting"
  /\ IsNext(c, "open")
  /\ session' = [session EXCEPT ![c] = "open"]
  /\ Taken(c)
  /\ Reply(c, "granted")
  /\ ClientUnchanged
  /\ UNCHANGED <<owner, output, given, dropped>>

(* Or it does not, because the controller is taken or for another reason.  *)
Refuse(c) ==
  /\ Serves(c, "open")
  /\ Taken(c)
  /\ Reply(c, "refused")
  /\ ClientUnchanged
  /\ UNCHANGED serverVars

(* RawData for a controller that is open; for any other the callback       *)
(* throws.                                                                 *)
ReceiveRaw(c) ==
  /\ Serves(c, "raw")
  /\ Taken(c)
  /\ output' = IF Owns(c) /\ output[c] = "empty"
                 THEN [output EXCEPT ![c] = "fed"] ELSE output
  /\ ClientUnchanged
  /\ UNCHANGED <<session, owner, given, dropped, toClient>>

(* CloseDeviceRequest: the answer is sent before the device is removed.    *)
AnswerClose(c) ==
  /\ Serves(c, "close")
  /\ session' = [session EXCEPT ![c] = "closing"]
  /\ Taken(c)
  /\ Reply(c, "closed")
  /\ ClientUnchanged
  /\ UNCHANGED <<owner, output, given, dropped>>

RemoveDevice(c) ==
  /\ session[c] = "closing"
  /\ session' = [session EXCEPT ![c] = "open"]
  /\ GiveBack(c)
  /\ ClientUnchanged
  /\ UNCHANGED <<output, given, dropped, toServer, toClient>>

(* The writer gives the controller up and tells the peer.                  *)
ErrorGoesOn(c) ==  \* faulty variant: the error is reported, should_exit is not set
  /\ Owns(c)
  /\ output[c] = "fed"
  /\ Reply(c, "failed")
  /\ ClientUnchanged
  /\ UNCHANGED <<serverVars, toServer>>

WriteFails(c) ==
  /\ Owns(c)
  /\ output[c] = "fed"
  /\ output' = [output EXCEPT ![c] = "failed"]
  /\ Reply(c, "failed")
  /\ ClientUnchanged
  /\ UNCHANGED <<session, owner, given, dropped, toServer>>

(* The reader has got bytes from the controller.  It looks at should_exit  *)
(* once a round, so a last round may follow a failure of the writer.       *)
ReadDevice(c) ==
  /\ Owns(c)
  /\ output[c] # "stopped"
  /\ given[c] < MaxBytes
  /\ given' = [given EXCEPT ![c] = @ + 1]
  /\ output' = IF output[c] = "failed" THEN [output EXCEPT ![c] = "stopped"] ELSE output
  /\ \/ Send(c, "data", given[c] + 1) /\ UNCHANGED dropped
     \/ /\ dropped' = [dropped EXCEPT ![c] = @ \cup {given[c] + 1}]
        /\ UNCHANGED toClient
  /\ ClientUnchanged
  /\ UNCHANGED <<session, owner, toServer>>

(* callback_disc: what the connection owned is released, and then it is    *)
(* forgotten.                                                              *)
PeerGone(c) ==
  /\ session[c] = "open"
  /\ link[c] \in {"closed", "lost"}
  /\ Owns(c)
  /\ GiveBack(c)
  /\ ClientUnchanged
  /\ UNCHANGED <<session, output, given, dropped, toServer, toClient>>

Forget(c) ==
  /\ session[c] = "open"
  /\ link[c] \in {"closed", "lost"}
  /\ ~Owns(c)
  /\ session' = [session EXCEPT ![c] = "over"]
  /\ toServer' = [toServer EXCEPT ![c] = <<>>]
  /\ ClientUnchanged
  /\ UNCHANGED <<owner, output, given, dropped, toClient>>

Serve(c) ==
  \/ Accept(c) \/ Grant(c) \/ AnswerOpen(c) \/ Refuse(c) \/ ReceiveRaw(c)
  \/ AnswerClose(c) \/ RemoveDevice(c) \/ PeerGone(c) \/ Forget(c)

ServerStep(c) == Serve(c) \/ WriteFails(c) \/ ReadDevice(c)

-----------------------------------------------------------------------------
(* The client has died and the server has nothing left to do for it.       *)
Finished ==
  /\ crashed
  /\ \A c \in Conns : session[c] = "over" \/ link[c] = "none"
  /\ UNCHANGED vars

Next ==
  \/ /\ ~crashed
     /\ \/ \E t \in Threads : Call(t) \/ ThreadStep(t)
        \/ \E c \in Conns : CallbackStep(c) \/ LinkLost(c)
     /\ UNCHANGED serverVars
  \/ \E c \in Conns : ServerStep(c)
  \/ Finished

Spec == Init /\ [][Next]_vars

(* Fairness.  A call goes on whenever it can, and gets a mutex that is     *)
(* free again and again; so does a callback.  The library delivers what    *)
(* has arrived, the server serves what it gets and notices the end of a    *)
(* connection.  No program has to make a call, no controller has to send.  *)
Fairness ==
  /\ \A t \in Threads : SF_vars(~crashed /\ ThreadStep(t) /\ UNCHANGED serverVars)
  /\ \A c \in Conns :
       /\ SF_vars(~crashed /\ CallbackStep(c) /\ UNCHANGED serverVars)
       /\ WF_vars(Serve(c))

FairSpec == Spec /\ Fairness

-----------------------------------------------------------------------------
(* A Device of the client stands for one the server has opened: while the  *)
(* connection is up and no close is under way, the connection of every     *)
(* Device in device_by_conn owns its controller.  Nothing ties the two     *)
(* sides together but the answer that open_ok keeps by serial.             *)
DeviceMeansOwner ==
  \A c \in device_by_conn :
    \/ owner[target[c]] = c
    \/ link[c] # "up"
    \/ \E t \in Threads : conn_id[t] = c /\ pc[t] \in Closing

(* callback_data of the server never throws because of this client: a      *)
(* RawData packet that it is about to handle for a living connection names *)
(* a controller which that connection has opened.                          *)
RawReachesOwner ==
  \A c \in Conns : link[c] = "up" /\ Serves(c, "raw") => Owns(c)

(* The writer of the server has failed.                                    *)
Failed(c) == output[c] \in {"failed", "stopped"}

(* A handle goes dead only because the server has given the controller up: *)
(* whatever bindy_open has returned and bindy_close has not been given     *)
(* still has its Device, or the writer of the server has failed.           *)
HandleMeansDevice ==
  \A c \in handles : c \in device_by_conn \/ Failed(c)

(* bindy_read copies from a Device that is alive, although it has let go   *)
(* of global_mutex, unless an error of the controller is reported in       *)
(* between: then the callback deletes the Device under the reader.         *)
ReadsLiveDevice ==
  \A t \in Threads : pc[t] = "read_copy" =>
    conn_id[t] \in device_by_conn \/ Failed(conn_id[t])

(* Whoever holds global_mutex between two steps is a reader or a callback  *)
(* that waits for the mutex of a Device which is in the map: all other     *)
(* paths have released it, and none of the two waits for a deleted mutex.  *)
GlobalMutexInside ==
  /\ \A t \in Threads : global_mutex = t <=> pc[t] = "read_lock"
  /\ \A c \in Conns : global_mutex = c <=> callback[c].kind = "put"
  /\ \A t \in Threads : pc[t] = "read_lock" => conn_id[t] \in device_by_conn
  /\ \A c \in Conns : callback[c].kind = "put" => c \in device_by_conn

(* RawData number n has not reached the end of callback_data yet.          *)
OnItsWay(c, n) ==
  \/ \E i \in DOMAIN toClient[c] : toClient[c][i] = [kind |-> "data", byte |-> n]
  \/ callback[c].kind \in {"data", "put"} /\ callback[c].byte = n

Buffered(c, n) == \E i \in DOMAIN buffer[c] : buffer[c][i] = n

(* bindy_read returns what the controller has sent, in that order: the     *)
(* bytes of a buffer ascend and come after those that were read, and after *)
(* the first one that was read or can be read nothing is missing: what the *)
(* reader of the server got from the controller is in the buffer, or still *)
(* on its way, or the server could not send it.                            *)
ReadInOrder ==
  \A c \in device_by_conn :
    /\ \A i \in DOMAIN buffer[c] : taken[c] < buffer[c][i]
    /\ \A i, j \in DOMAIN buffer[c] : i < j => buffer[c][i] < buffer[c][j]
    /\ \A n \in taken[c] + 1 .. given[c] :
         taken[c] # 0 \/ (\E i \in DOMAIN buffer[c] : buffer[c][i] < n)
         => Buffered(c, n) \/ OnItsWay(c, n) \/ n \in dropped[c]

(* "no such device, nothing to do -- return now" (comment in bindy_close): *)
(* when bindy_close returns for this reason, the connection it was given   *)
(* holds nothing on the server; one that an earlier close has ended, or    *)
(* could not end, is left out.                                             *)
NothingToDo ==
  \A t \in Threads : pc[t] = "close_return" =>
    LET c == conn_id[t] IN ~Owns(c) \/ link[c] # "up" \/ c \in unsent

(* "whatever; server will close the device when socket is closed" (comment *)
(* in bindy_close): whatever has been thrown while it asked for the close, *)
(* the controller is free in the end.                                      *)
ServerWillClose ==
  \A t \in Threads, c \in Conns :
    (pc[t] = "close_erase" /\ conn_id[t] = c) ~> ~Owns(c)

(* Every call of the program returns.                                      *)
CallsReturn ==
  \A t \in Threads : pc[t] # "idle" ~> (pc[t] = "idle" \/ crashed)

(* Nothing stays open behind the program's back: a connection that has no  *)
(* handle (its open failed or timed out, or it was closed) and that no     *)
(* call works on gives its controller back in the end, unless the writer   *)
(* of the server has failed or a close could not be sent.                  *)
NoHandleNoOwner ==
  \A c \in Conns :
    (/\ c \notin handles
     /\ \A t \in Threads : conn_id[t] # c
     /\ ~Failed(c)
     /\ ~(c \in unsent /\ link[c] = "up")
     /\ Owns(c)) ~> ~Owns(c)
=============================================================================
