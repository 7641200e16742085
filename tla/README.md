# Specifications of libxiwrapper

libxiwrapper lets programs use XIMC motor controllers that are attached to
another host. It has two halves that talk through *bindy*, an encrypted
connection library that is not part of the repository (its directory is an empty
submodule):

* `linux-server.cpp`, the server: a process that exports the controllers of its
  host, `/dev/ximc/<serial>`, to any peer that connects;
* `wrapper.cpp`, the client: a C library (`bindy_open`, `bindy_write`,
  `bindy_read`, `bindy_close`, `bindy_enumerate`, ...) that libximc calls.

`revealer_1.cpp` (discovery of controllers by UDP), `iobuf.c` (a ring buffer that
nothing calls any more) and `tinythread.cpp` (vendored C++11-like threads)
complete it. There are no tests in the repository.

This directory holds the TLA+ specifications of the program, the TLC
configurations that check them and the TLAPS proofs about them.

## Inventory

| Part | State | Operations | Talks to |
|---|---|---|---|
| Server: `Supermap`, `Device` and its two threads (`linux-server.cpp` 144-310, 491-571, 656-658) | `conndevmap` under `map_mutex`; per device: flock on the node, `should_exit` (no lock), `net_to_dev_buffer` under `net_to_dev_mutex`, two threads | RawData, Open, Close packets; end of a connection; writer loop; reader loop | bindy calls `callback_data` and `callback_disc`; the threads send through `pb` |
| Server: enumeration (572-648) | locals of the callback; `global_mutex` around libximc; the globals `ext_ip` and `host` | EnumerateRequest | libximc, the device nodes, the network interfaces |
| Server: packets (315-486, `structs.h`) | none | header and payload, both byte orders | the readers in `wrapper.cpp` |
| Server: `main`, `get_ext_ip` (660-723) | the registered callbacks, `ext_ip` | start-up | bindy, the network interfaces |
| Sending with retries (`adaptive_wait_send`, in both programs) | none kept | one call | bindy |
| Client (`wrapper.cpp` 80-471) | `device_by_conn`, `open_ok`, `s_enum` under `global_mutex`; per device `buffer` under its `mutex`; `instance`, `keyfile` | the API calls; `callback_data` on bindy's threads | the server |
| Client: hints (28-63, 476-484) | none | `read_hints`, `find_key` | libximc |
| Revealer (`revealer_1.cpp`) | one `Revealer1Addresses` array that grows | search, free | UDP sockets |
| Ring buffer (`iobuf.c`) | `length`, `pp`, `gp` and 4000 bytes of `data` | init, put, get, peek, of one byte or several | nobody (commented out) |
| tinythread | native thread, mutex | create, join, lock | vendored |

### What is hard here

* Three kinds of threads share the server's state: bindy's, which run the
  callbacks, and two per device. `map_mutex` is held while device threads are
  started and joined; the pointer that `findDevice` returns is used after the
  mutex was released; `should_exit` is a plain `bool`.
* A device can be torn down by a close packet, by the end of the connection, or be
  given up because `write()` failed, at any point of the two loops.
* On the client a late answer, an error notification or a close answer deletes the
  object that an API call is using, and the outcome of an open is kept by serial,
  not by connection.
* Timeouts on both sides: an open that timed out on the client may succeed on the
  server, and an enumeration may be answered after its call has returned.
* Requests to enumerate are served side by side. They open the controllers they find,
  which others have open or unplug meanwhile, and share one global for the address of
  the host.
* Packets are laid out by position in both programs, each with its own numbers.

`PROJECT.json` lists every such hazard at its line with the properties that would
notice it going wrong, or the reason why none does.

### What makes each component correct

* *Server*: a controller has one owner; its lock is held exactly while its `Device`
  exists; no thread, mutex or buffer of a `Device` is used before it was made or
  after it was deleted; bytes for a controller stay in order; every callback
  returns; a peer that goes away gives everything back.
* *Client*: an open that succeeds has opened the device it was asked for; the object
  of an open device lives as long as a call uses it; bytes from a controller reach
  `bindy_read` in order; calls return within their timeouts.
* *Enumeration*: a call returns what the server answered on its own connection; a
  controller that is in use hides only itself; devices are closed again; what an
  answered call allocated is freed; a call that goes on has a complete `instance`.
* *Revealer*: the array never holds more addresses than were allocated, and all of
  it is freed.
* *Ring buffer*: it is a bounded FIFO.
* *Packets*: what one side writes, the other reads.
* *Hints*: what `find_key` finds is what the documented format says.

## Modules

| Module | What it is |
|---|---|
| `DeviceRegistry` | The promise of the server: who owns which controller. |
| `XimcServer` | `linux-server.cpp`, the detailed server; `ImplementsRegistry` is the refinement. |
| `XimcServerInv` | Its inductive invariant, the further invariants the proofs need, and who waits for whom. |
| `XimcServerProofs` | Theorems about the server, for any number of connections and controllers and any packet sizes. |
| `XiClient` | `wrapper.cpp`: the calls of the library and `callback_data`, with the two packet queues of each connection. |
| `XiSystem` | `XiClient` and a server of one action per thing a peer can see it do. |
| `XiSystemInv` | Its inductive invariant, three more that need assumptions on the program, and who waits for whom. |
| `XiSystemProofs` | Theorems about client and server together, for any number of threads, connections and controllers. |
| `TimedCall` | One call with its clock: `adaptive_wait_send`, the waits for answers, and what the caller is told. |
| `TimedCallProofs` | Theorems about `TimedCall` for every timeout. |
| `Revealer` | `revealer_1.cpp`: the search, its array of addresses, and its release. |
| `RevealerProofs` | Theorems about `Revealer` for any number of answers. |
| `EnumServer` | The server's side of an enumeration: the EnumerateRequest case and `get_ext_ip`. |
| `Enumeration` | `bindy_init`, `bindy_setkey`, `bindy_enumerate`, `bindy_free` and the answer in `callback_data`, composed with `EnumServer`. |
| `EnumerationInv` | Its inductive invariant. |
| `EnumerationProofs` | Theorems about enumeration, for any number of threads, connections, controllers and interfaces. |
| `BoundedQueue` | The promise of the ring buffer: a queue of bytes, transfers all or nothing. |
| `IOBuf` | `iobuf.c`; `RingIsQueue` is the refinement. |
| `IOBufProofs` | The refinement proved, for every size. |
| `Packets` | The packets of the protocol byte by byte, as each side writes and reads them. |
| `PacketsProofs` | Theorems about `Packets`, for every serial, payload and number of structures. |
| `Hints` | `trim`, `read_hints` and `find_key`, and the format they are to read. |
| `HintsProofs` | Theorems about `Hints`, for every source, key and length. |
| `Routines` | `IOBuf`, `Packets` and `Hints` over their inputs, for TLC. |
| `MCXimcServer`, `MCXiSystem`, `MCTimedCall`, `MCEnumeration`, `MCRoutines` | Instances for TLC; a behaviour of `MCRoutines` is one of `Routines` or one of `Revealer`. |

### XimcServer

A *handler* `<<"data", c>>` or `<<"disc", c>>` is the callback that bindy runs for
connection `c`; `pc` says where it is, and its local variables are `serial` (the
serial of the packet, or of the device the loop of `removeConnection` is at) and
`opened` (the result of `addDevice`). The other variables carry the names of the
code. `conndevmap`, a map of maps in the code, is the set of the pairs
`<<connection, serial>>` that have a `Device*`: an inner map that is empty and one that
is absent are never told apart. A device node has no object of its own: `node[s]`
is the connection whose `Device` holds the flock on it.

| Code | Actions |
|---|---|
| `callback_data`, dispatch | `ReceiveRawData`, `ReceiveOpen`, `ReceiveClose` |
| RawData | `FindDevice`; `RawLock`; `RawPut`; `RawFreed` when the object is gone |
| `addDevice` with `Device::Device` | `AddExisting`, `AddFails`, or `AddOpens`; `CtorMutex`; `CtorWriter`; `CtorDone`; then `OpenAnswer` |
| Close | `CloseAnswer`; `RemoveDevice`; `JoinReader`; `JoinWriter` |
| `removeConnection` | `DiscBegin`; `RemoveConnection`; `DeleteNext`; `JoinReader`; `JoinWriter`; `AdvanceFreedIterator`; `RemoveConnectionEnd` |
| `buf_to_dev_function` | `WriterCheck`; `WriterLock`; `WriteNothing`, `WriteSome` and `EraseWritten`, or `WriteError` and `ErrorNotification` |
| `dev_to_net_function` | `ReaderStep` |
| `main` | `Listen`; `SetHandler`; `SetDiscNotify` |

A step ends wherever another thread can see or influence what comes next: at every
lock, unlock, thread start and join, at every look at `should_exit`, and between
`write()` and the `erase` that follows it. `findDevice` locks, looks and unlocks in
one step; nothing can happen in between, since whoever changes the map holds the
mutex.

Details that shape the model:

* The constructor throws at six places after `open`; each one closes the handle, so
  `AddFails` leaves no trace. `flock` fails when another `Device` holds the node,
  which is the guard of `AddOpens`; the second `flock` of the code then
  succeeds at once.
* `tthread::thread` does not throw when the system refuses a thread; the object is
  simply not joinable. A thread may therefore be `"done"` from the start.
* A RawData packet for a serial that is not open makes the callback throw. What
  bindy does with the exception is not visible; the handler is taken to be back
  in the library.
* Undefined behaviour has every outcome that a build can produce and that the model
  can tell apart. Using a deleted `Device` (`RawFreed`) and advancing an iterator
  whose element was erased (`AdvanceFreedIterator`) either go on as if the memory
  were still intact or end the process (`Die`), upon which the kernel drops the
  locks. `should_exit` is read and written without synchronisation; a reader sees
  the old or the new value depending on the interleaving.
* `write()` may fail, take nothing, or take any part of the buffer. `read()` failing
  is treated by the code like `read()` finding nothing.
* Packets are well-formed (the code asserts version and length).

Three constants say what is assumed of the world outside:

* `SerialCallbacks`: bindy reports the end of a connection only after the last
  `callback_data` of that connection has returned.
* `Reopens`: a peer may open a device that it already holds.
* `EarlyPeers`: a peer may connect as soon as the library listens, before `main` has
  registered both callbacks.

`MaxChunk` bounds the payload of a packet, `MaxBytes` the bytes one `Device` accepts
in its life (`accepted` and `sent` number the bytes and exist only for the
properties). Both are bounds of the runs; the proofs hold for any value.

### XiClient and XiSystem

Threads of the program and, for every connection, the callback that bindy runs. `pc`,
`conn_id` and `serial` say where a thread is in its call and what it works on;
`callback[c]` is the packet that `callback_data` handles; its kind is `"put"` while it waits
for the mutex of a `Device`. `handles` is what the program has got from `bindy_open` and has
not given to `bindy_close` yet, `known` all it ever got: it may call with any of these, also
twice with `bindy_close`.

Five variables exist only for the properties. The reader of the server numbers the bytes
it gets from a controller (`given`) and a RawData packet carries its number; `dropped` are
the numbers that `send_data` gave up, `arrived` and `taken` the last ones that
`callback_data` was done with and that `bindy_read` returned. `unsent` are the connections
that were up when `bindy_close` could not send its request.

| Code | Actions |
|---|---|
| `bindy_open` | `CallOpen`; `OpenReset`; `OpenConnect` or `OpenConnectFails`; `OpenSend` or `OpenSendThrows`; `OpenSucceeds` or `OpenFails` |
| `bindy_write` | `CallWrite`; `WriteFind`; `WriteSend` |
| `bindy_read` | `CallRead`; `ReadFind`; `ReadLock`; `ReadCopy`, or `ReadFreed` |
| `bindy_close` | `CallClose`; `CloseFind`; `CloseReturn`, or `CloseRequest`, `CloseSend`, `CloseDisconnect`, `CloseErase` or `CloseErased` |
| `callback_data` | `Deliver`; `OpenDeviceAnswer`; `DeviceEnds`; `DataLost`; `DataFind`, `DataPut` |
| the server | `Accept`, `Grant`, `AnswerOpen`, `Refuse`, `ReceiveRaw`, `AnswerClose`, `RemoveDevice`, `WriteFails`, `ReadDevice`, `PeerGone`, `Forget` |

Details that shape the model:

* A connection id is used once, and a `Device` of the client never changes its
  connection, so `device_by_conn` is a set of connections. A `Device` that
  `callback_data` makes for a connection without one is never entered in the map;
  its bytes are lost (`DataLost`).
* `open_ok` is the set of the serials whose entry is true.
* Every timeout may strike at any time: of the loop of `sleep_until_open` only the
  end is a step (`FinishOpen`), and a send within `adaptive_wait_send` succeeds or
  is given up. `TimedCall` has the clock that is missing here.
* A connection is `"closed"` by the client or `"lost"` by the network; packets that
  have arrived are delivered all the same. Packets to a peer that is gone are
  dropped.
* In `bindy_close`, `send_data` may throw on any connection, also on one that stays up:
  nothing tries again, as `adaptive_wait_send` does elsewhere. `disconnect` is skipped
  and the `Device` is deleted all the same (`CloseSend`).
* The server starts the threads of a `Device` before it answers the open (`Grant`,
  `AnswerOpen`), so RawData may come before OpenDeviceAnswer. Its reader looks at
  `should_exit` once a round and may send one more packet after the writer has failed
  (`ReadDevice`, `output` from `"failed"` to `"stopped"`).
* Undefined behaviour: `bindy_read` on a `Device` that an error notification has
  deleted (`ReadFreed`), `bindy_close` looking into the map without `global_mutex`
  (`CloseRequest`) and deleting a `Device` a second time (`CloseErased`) either end
  the process or go on as if nothing had happened. `ReadFreed` happens because
  `DeviceEnds` takes `global_mutex` only.
* `bindy_init` has succeeded. A RawData packet has one byte.

The server of `XiSystem` serves the queue of a connection in order, one callback at
a time, which is the assumption `SerialCallbacks` of `XimcServer`. `AnswerClose` and
`RemoveDevice` are two steps because the code sends the answer first; `PeerGone` and
`Forget` are `removeConnection`.

Two constants say what a run assumes of the program:

* `OneCallPerDevice`: it does not make two calls for the same controller at once.
* `TimeoutsSuffice`: `bindy_open` gives up only when no answer is on its way any more. (It
  may succeed at any time.)

`ClientSafety` needs both. Without the first, two opens of one serial reset and read
each other's entry of `open_ok`; without the second, the late answer to an open that
timed out makes the next open of that serial succeed although the server refused it.
In both cases the client ends up with a `Device` whose connection owns nothing, and
`DeviceMeansOwner` fails. Nothing in the repository promises otherwise, so they are
hazards and not findings.

`MaxPackets` bounds the RawData packets that wait in one queue and `MaxBytes` those
that the server sends to one connection.

### TimedCall

One behavior is one call of `bindy_open`, `bindy_enumerate`, `bindy_write` or the
server's `send_data`. `delay`, `total_delay`, `send_ok` and `time_elapsed` are the
locals of the code, `slept` is the time really spent asleep. The two copies of
`adaptive_wait_send` differ: the client's retries only after a `runtime_error` and
returns quietly when the time is up; the server's retries after every exception and
throws at the end. Sleeps take exactly as long as asked; arithmetic is on unbounded
integers, since `total_delay + delay` stays below one and a half times the timeout.

### Revealer

`addresses` is a function on the indices for which a string is allocated, and `lost`
collects the kinds of memory that cannot be reached any more. The program searches
with a pointer that is NULL and frees before it searches again. A failing call
leaves the pointer alone. `malloc` and `realloc` succeed: the code does not look.
`MaxAnswers` bounds the answers of a search, which the code does not.

`bindy_write` returns a `bool` (`wrapper.cpp` 407), and -1 or -2 in its other error
cases, where `structs.h` 86 has 0 for success: it returns 1 when the bytes were sent,
also 1 when the time was up, and 0 when sending threw. `WriteReturns` has these values.

### EnumServer and Enumeration

`handler[c]` is where the callback of connection `c` is in the EnumerateRequest case,
`dev_enum[c]` what it has not looked at yet. `node[s]` says who has controller `s` open:
nobody, a session of `XimcServer`, or an enumeration; sessions come and go and
controllers are plugged in and out as they like, `MaxChanges` times. `enumerate_devices`
of libximc lists what is plugged in, `Serials` without those that are absent, in an order
that the code neither knows nor needs: `EnumerateDevices` takes any.

Two variables exist only for the properties: `busy[c]` are the controllers that somebody
else has had, that were unplugged or that `open_device` failed for, since the request of `c`
began, and `alone[c]` says that no other request was served at any time in between.

| Code | Actions |
|---|---|
| the list of devices, under `global_mutex` | `ReceiveEnumerate`; `LockLibrary`; `EnumerateDevices` |
| the loop over the devices | `OpenFails`, or `OpenDevice`; `ParseThrows`, or `QueryDevice`; `NextInterface`; `Push` |
| `get_ext_ip` | `NextInterface` for each interface; `Exit` |
| the answer | `SendAnswer` |
| `bindy_init`, `bindy_setkey` | `InitDone`; `SetKey`, `SetKeyFails`; `MakeInstance`; `SetHandler`; `InitThrows`; `CallSetKey` |
| `bindy_enumerate`, `bindy_free` | `CallEnumerate`; `Connect`, `ConnectThrows`; `SendRequest`, `SendThrows`; `CollectNothing`, `CollectAnswer`; `FreeResult` |
| `callback_data` with the answer | `AnswerReceived`; `AnswerStored` |

Details that shape the model:

* `open_device` may fail for a device that nobody else has, for a reason of its own.
* `getnameinfo` writes the global `host`, from which `ext_ip` is read back. Two
  requests that are both in `get_ext_ip` may read there anything (`Torn`).
* `std::stoi` throws for serials from 80000000 (hexadecimal) on, the set `big`, after
  the device was opened: the callback ends without an answer and the device stays
  open (`ParseThrows`).
* A failing interface query ends the server (`Exit`).
* A controller that does not answer the three questions is listed all the same, with
  another name.
* A call that gives up leaves its connection and its entry of `s_enum` as they are, and
  its answer may come afterwards. Looking for the entry makes one (`"empty"`).
* `callback_data` sets `recv` before it stores the copy; both happen under
  `global_mutex`, two steps all the same, so that the mutex matters.
* `FirstCallAlone`: while the library has no instance that is ready, the program makes
  one call at a time. `bindy_init` and `bindy_setkey` lock nothing.

### IOBuf

The state is the `IO_BUF`. A function that works on one byte, or on the whole buffer, is
one step; the loops of `IOBuf_PutBuf` and `IOBuf_GetBuf` take a step per byte, with their
locals in `call`, and `returned` is what the last call gave its caller. The refinement
hides the bytes of a transfer in progress: `QueueNow` is without the bytes that a put has
put so far, and still with those that a get has taken. `IOBuf_Size` returns `length` and
changes nothing. `increase` comes from `macro.h`, which is not in the repository; it is
taken to go from one position to the next and from the last to the first, as its
arguments say.

### Packets and Hints

`Packets` has one operator for every constructor of `DataPacket`, for the requests of the
client, and for what either `callback_data` reads. Structures have the sizes of
`structs.h`; their bytes are copied from memory on one side and to memory on the other, so
only their place matters. `StructBytes` is the memory of a vector of structures, one
after the other. In the runs serials stay below 2^31 since TLC's integers do; the proofs
cover all 32 bits.

`Hints` distinguishes line breaks, blanks, `=` and two letters. `read_hints` is its loop;
`Documented` says without a loop what the comment "key1=val1\nkey2=val2" (`wrapper.cpp` 41)
means. Two details of the code are kept: a break as the very first character is not
seen as one, because the search starts at the second, so there it is part of the first
line and of its key (`Breaks`), about which the comment says nothing; `strncpy` in `find_key`
leaves the value without a final NUL when it fills the caller's buffer, and `strncpy` here does too.

### Faulty variants

Operators marked *faulty variant* are not part of the specification. Each is a
plausible mistake in the definition that follows it, and the property that must
notice it is listed under `mutants` in `PROJECT.json`.

## Runs

| Run | Instance | What it shows |
|---|---|---|
| `ServerSafety` | 2 connections, 1 controller, `FairSpec` | `WaitsEnd`; `NoUseAfterFree`; `BufferExclusive`; `MapMutexInside`; `GoneOwnsNothing`; `ImplementsRegistry`; `ClosedSocketFreesDevices`; `CallbacksReturn` |
| `ServerAnyOrder` | 2 connections, 2 controllers, 3 bytes in packets of up to 2, the constraint `Conflict`, nothing assumed of bindy or the peers | `IInv`, `ThreadsWithinDevice`, `NodeAccounted`, `MutexBeforeWriter`, `BytesInOrder`, `FailedDeviceGetsNothing`; deadlock checking is off because a peer that opens twice does stop the server |
| `ServerReopen` | 2 connections, 1 controller, `Reopens` | violates `TrueMeansAvailable`, see below |
| `ClientSafety` | 1 thread, 2 connections, 1 controller, both assumptions | `DeviceMeansOwner`; `RawReachesOwner`; `ReadsLiveDevice` |
| `ClientBytes` | 2 threads, 1 connection, 3 bytes, no assumption | `IInv`; `HandleMeansDevice`; `WaitsEnd`; `ReadInOrder` |
| `ClientLiveness` | 2 threads, 1 connection, 1 byte, no RawData to the server, no assumption, `FairSpec` | `CallsReturn`; `NoHandleNoOwner` |
| `ClientAfterFailure` | 1 thread, 1 connection | violates `NothingToDo`, see below |
| `ClientCloseThrows` | 1 thread, 1 connection, `FairSpec` | violates `ServerWillClose`, see below |
| `CallTimes` | timeouts from -1 to 130 ms, and 5000 ms | `SleepsWithinTimeout`; `WaitsLongEnough` |
| `RevealerFree` | a search with one answer | violates `AllFreed`, see below |
| `EnumerateAll` | 2 threads, 2 connections, 2 controllers, 2 interfaces, 1 change elsewhere | `IInv`; `ResultIsAnswer`; `BusyHidesOnlyItself`; `EnumerationClosesDevices`; `AddressSettled`; `NothingLeftAfterAnswer`; `InitMeansInstance`; `MutexesInside` |
| `Routines` | a ring of 4, transfers of up to 5 bytes; 5 serials; payloads of up to 2 bytes; up to 3 structures; hints of up to 7 characters; an array of 10 addresses, up to 30 answers | `RingIsQueue`; `PacketsReadBack`; `HintsAsDocumented`; `AddressesSaved`; `NoStringLost`; `SocketClosed`; deadlock checking is off because a call of a function ends |

Two connections are enough for every conflict over a node or over `map_mutex`; a
third would only queue. Two controllers are enough for the loop of
`removeConnection` to go round after it erased its element. Three bytes in chunks of
two let a packet arrive while a part of the previous one is written and another is
still in the buffer. `ServerAnyOrder` would be too large with all of this at once: its
constraint `Conflict` (`MCXimcServer`) lets two connections compete for one controller
with all three bytes, or one connection use both controllers with one byte. Beyond it,
and for `GoneOwnsNothing` with several controllers, the proofs stand: they remove the
bounds on the server for everything but liveness.

A client that opens the same controller on two connections one after the other is the
shortest history in which an answer of the first can be mistaken for one of the
second. Two threads on one connection give every interleaving of a read, a write
or a close with another call and with the callback; three bytes let one be read, one be
in the buffer and one be on its way, or given up by the server in between. The
liveness run has one byte, for which callbacks and reads contend for the mutexes, and no
RawData for the server, whose writer therefore does not fail: `NoHandleNoOwner` leaves out
the connections for which it has. The timeouts of `CallTimes` lie on both
sides of each of the first nine delays. Thirty answers make the array grow three
times.

In `EnumerateAll` two calls, from two threads or one after the other, meet two
requests on the server; two interfaces are the least that `get_ext_ip` can walk, and
one change elsewhere makes a device busy or absent between `enumerate_devices` and
`open_device`. With one change per run a device is not handed over twice; what an
enumeration sees of a device is only whether it is free at that moment. A ring of 4 has
its seam anywhere in a transfer, and 5 bytes never fit; the size of the code is
covered by the proof. Seven characters make two lines with a key and a value each, or one
with blanks around both. The serials of `Routines` have every byte different, or at its
limits; `EnumerateAnswer` is laid out with none, one, two and three structures.

**Fairness.** Every thread that can run does run (weak fairness for the two device
threads and `main`). A handler that waits for a mutex gets strong fairness: the
writer sleeps after every round and callbacks return to the library, so a mutex is
free again and again, and the operating system does not starve one waiter forever.
The library reports a closed connection in the end (weak fairness of `DiscBegin`).
Peers promise nothing.

In `XiSystem` the threads and the callbacks get strong fairness for the same reason:
both wait for `global_mutex` and for the mutex of a `Device`, which are released after
a few statements. The transport delivers and the server serves what has arrived (weak
fairness). That a call is made, that a controller sends, that a write fails or a
connection breaks is never assumed.

### Findings

`ServerReopen`: `addDevice` returns `true` for a device that is already in the map
without unlocking `map_mutex` (`linux-server.cpp` 271-274), although its comment
(269) promises a device that "already exists and available". After that no callback
of any connection gets past `map_mutex`.

`ClientAfterFailure`: when the server reports that writing to a controller failed,
the client deletes its `Device` and keeps the connection. `bindy_close` then finds
no `Device`, "nothing to do" (`wrapper.cpp` 448), and returns without disconnecting;
the server keeps the controller locked for that connection as long as the program
runs.

`ClientCloseThrows`: when the one `send_data` of `bindy_close` throws on a connection that
is up, `disconnect` is skipped and the `Device` is erased. "server will close the device
when socket is closed" (`wrapper.cpp` 465), but nobody closes this socket: the controller
stays locked as long as the program runs. `NoHandleNoOwner` therefore leaves out the
connections in `unsent` that are up; it also leaves out those whose writer has failed, which
is the finding before.

`RevealerFree`: `bindy_freeMemoryForRevealer1Addresses` "frees the memory allocated for
the Revealer1Addresses structure" (`wrapper.h` 46), but not the array of the
pointers to the strings.

## Proofs

The proofs are checked by TLAPS and hold for every value of the constants.

### XimcServerProofs

The properties say nothing about which mutex a handler holds or how far a `Device` is
through its construction, so none of them is inductive. `IInv` adds that:

* `LockInv`: who is inside `addDevice`, `removeDevice` or `removeConnection` holds
  `map_mutex`, and each callback is inside its own code;
* `DeviceOK`: for every connection and serial, node, mutex, threads and map entry
  agree on whether the `Device` does not exist, is being constructed, or exists;
* `CallOK`: what a callback knows about the `Device` it is working on.

`IInv` needs no assumption on bindy or on the peers. From it follow
`ThreadsWithinDevice`, `MutexBeforeWriter`, `BufferExclusive` and `NodeAccounted`.
`BytesInv` (the buffer is a run of consecutive bytes that begins after the last
byte sent, less what `write()` has just taken) gives `BytesInOrder`; `ExitInv` (only a
destructor overtakes a writer that is past its loop condition) gives
`FailedDeviceGetsNothing`. Three invariants need assumptions, and the theorems say so:
`MutexInv` needs `~Reopens`, `CallbackInv` needs `SerialCallbacks`, `SessionInv` needs
also `~EarlyPeers`. They give `MapMutexInside`, `NoUseAfterFree`, `GoneOwnsNothing` and
the refinement of `DeviceRegistry`.

`NobodyWaitsInACircle` is the freedom from deadlock. `HandlerWaits` and `WriterWaits` say who
waits, and for what: a callback for `map_mutex`, for the mutex of a buffer, or for the end of a
thread it joins; a writer for the mutex of its buffer. `WaitsEnd` says that every such wait is
for somebody who gets on. The longest chain is: a callback waits for `map_mutex`, whose holder
joins a writer, which waits for the mutex of its buffer, and whoever holds that runs and needs
no other mutex. `WaitInv` is what it takes beyond `IInv` (a joined thread has been told to
exit; the mutex of a buffer has a holder inside its own critical section) and needs no
assumption; with `MutexInv`, and so `~Reopens`, it gives `WaitsEnd`. With a peer that
opens twice it is false, see `ServerReopen`. `ServerNeverStandsStill` follows: as long as a
callback has not returned to the library, some thread can run (`SomebodyRuns`).

### TimedCallProofs

`IInv` says what the two loops add up to: the time slept is `total_delay` less the next
`delay`, plus the first delay of 2, plus `time_elapsed`; and three times the next
delay is at most `total_delay + 6`, because a delay grows by at most a half. With what is
left of the conditions of the loops this gives both bounds: `Punctual`
(`SleepsWithinTimeout`) and `Patient` (`WaitsLongEnough`).

### RevealerProofs

`IInv` ties the array, its size and the pointer of the program together. The lemma
`RoomForOne` says that there is room for the next address: the array was not full, or
it has at least two strings and half as many again is more. `Saved` and `Kept`
follow. They assume `FirstCount >= 2`; the code has 10. `Socket` says where in the search
there is a socket, which gives `Closed` (`SocketClosed`).

### IOBufProofs

`IInv` says that the put pointer is `length` places after the get pointer around the ring,
that a transfer in progress has room, or bytes, for what is left of it, and what its
locals count. `PutAppends` and `GetTakesFirst` turn one byte in the ring into one byte of
the sequence `Contents`, across the seam. With them every step of the ring is a step of the
queue or hides in the refinement mapping (`StepRefines`), and `RingImplementsQueue`
follows: no byte of a transfer that was begun is ever refused.

### XiSystemProofs

What the properties of the client leave unsaid is who else knows a connection, and what is
still on its way to it. `IInv` (`XiSystemInv`), which `ClientBytes` checks, adds:

* `UnusedInv`: a connection id that bindy has not handed out is known to no thread, queue,
  map or controller, so a new connection starts from nothing;
* `ConnInv`, `CallInv`: a call of `bindy_open` is alone with its connection until it returns
  the handle; what `bindy_close` was given is no handle any more;
* `HandleInv`, `DeviceInv`: as long as the program has a handle no close was sent for it; a
  `Device` without handle, or one for which a close was sent, has a close at work;
* `FailureInv`: an error notification on its way tells of a writer that did fail;
* `AnswerInv`: a connection asks to open once, first of all, and is answered at most once;
* `OwnerInv`: who owns a controller asked for that one;
* `SentInOrder`: RawData comes in the order of its numbers, and what the server got from a
  controller is behind the callback, on its way, or given up by the server.

With it go `TypeOK`, `GlobalMutexInside`, `HandleMeansDevice` and `ReadInOrder`, which are
proved along: two threads that read, write and close one connection at once, and use it
after it was closed, are within these theorems. `BytesInOrder` (`ReadInOrder`) counts from
the reader of the server to `bindy_read`: after the first byte that is read, whatever is
missing was given up by `send_data` of the server. The code does not tell the client of
such a gap, and no theorem says there is none. The refinement of `DeviceRegistry` is not
repeated here: the server of `XiSystem` is nearly the registry itself, and
`ServerImplementsRegistry` proves it for the server that there is.

`ReaderInv` says that the mutex of a `Device` is held exactly by the thread that copies from
it, as long as the `Device` is there. `ReadersNeverMeet` follows (`ReadersExclude`: two reads
never copy from one `Device` together), and the freedom from deadlock, `NobodyWaitsInACircle`
(`WaitsEnd`): `bindy_read` and `callback_data` wait for the mutex of a `Device` while they hold
`global_mutex`, but who holds that mutex has let go of `global_mutex` and needs no other to go
on.

None of this needs an assumption on the program. Three more invariants do:

* `OneCallInv` (`OneCallPerDevice`): no two calls work on one connection, or open one
  controller, so nobody closes what a read is reading. It gives `ReadsAreSafe`
  (`ReadsLiveDevice`).
* `OpenInv` (also `TimeoutsSuffice`): an answer to an open finds its call waiting, so an
  entry of `open_ok` speaks of that call, and who was granted a controller has it as long as
  his connection is up and he has not asked for the close. It gives `DevicesAreOwned`
  (`DeviceMeansOwner`).
* `RawInv` (both): in the queue to the server nothing follows a close request, and RawData
  is for the owner. It gives `RawIsForOwner` (`RawReachesOwner`): `findDevice` of the server
  finds the `Device` for every RawData packet.

Both assumptions are constants of the model, TRUE in some runs and FALSE in others;
the theorems assume them where the properties do not hold without.

### EnumerationProofs

`IInv` (`EnumerationInv`), which `EnumerateAll` checks, has these parts:

* `OnceInv`: a connection goes from the request to the answer, and not again; one on which
  nobody has been asked anything is `Fresh`;
* `ConnInv`: every waiting call has a connection of its own, which is up;
* `EntryInv`: what the entry in `s_enum` says, where its callback is and whether its copy is
  allocated determine each other, and an answer says truly how many structs it has;
* `LockInv`: each `global_mutex` is locked exactly by the callback that stores, or the
  request that lists the devices;
* `ListInv`: while a request is served, every controller that is not in `busy` is among
  the found or among those to be looked at, none is in both, and none is twice in either;
* `BusyInv`: a device that is not free is the one the request has open, or somebody else
  has had it;
* `AloneInv`: a request that is alone has read back the address it wrote itself;
* `InitInv`: while the library is not ready, one thread at most is in a call.

From these follow all properties of the run, for any number of threads, connections,
controllers and interfaces, any order in which the devices are listed, and any number of
changes elsewhere. `AnswerIsThere` is the step where the client's parts meet: a call
that sees `recv` under `global_mutex` finds the whole copy. `ServedList` is the one for the
server: a device leaves the list only because it is found or because it is in `busy`. The proofs
use what `EnumServerAssumption` says: there are finitely many controllers, and at
least one network interface.

### PacketsProofs

There is no induction here: a packet is zeros with a few places overwritten. `FourBytes` says
that a number of 32 bits is what its four bytes say, `WriteReadBack` that writing it changes
these bytes only, `HeaderFacts` that the three numbers of a header do not overlap, and
`PayloadReadBack` that what follows a header leaves it alone. `StructBytesFacts` finds byte j
of structure i. `RequestsRead`, `AnswersRead` and `DescriptionsRead` take each packet from the
side that writes it to the side that reads it, and `PacketsRead` (`PacketsReadBack`) collects
them. Assumed is that serials and the number of structures have 32 bits and payloads are
bytes, as their types in the code say.

### HintsProofs

`HintsRead` says that the loop of `read_hints` computes what `Documented` says without a loop,
for every source. `LoopInvariant` is the invariant of the loop: what the map holds after a
round is what the lines up to the last break say (`HoldsTo`), each key with the value of the
last line that has it. `RoundReads` is one round: `OneLineMore` adds the line that ends at the
next break, if it has a key and a value (`LineEntered`), and nothing otherwise
(`NothingEntered`). `StripIsTrim` and `TrimWider` say that it does not matter that the code
trims the line first and its two halves afterwards.

`RoundsRead` goes over all rounds. The induction theorems of the library are out of the
prover's reach, so it takes the least round that breaks the invariant, which a set of naturals
has (`LeastNumber`), and shows that there is none. It also shows that there are as many rounds as
the loop needs, since each one moves on by a character at least. `RoundsExist` is needed
because TLA+ defines a recursive function as *some* function that satisfies the equation.

`KeyFound` takes this through `find_key` and `strncpy`, for any length of the caller's buffer, and
`HintsFound` states it as the property of the run (`HintsAsDocumented`). Assumed is that a
source is a sequence of characters (`RoutinesAssumption`).

### Model-checked only

Every safety property of the passing runs, and every refinement, is proved. Liveness
(`CallbacksReturn`, `ClosedSocketFreesDevices`, `CallsReturn`, `NoHandleNoOwner`) is out of the
prover's reach and stays with TLC; so is ENABLED: that the predicates of `WaitsEnd` (`HandlerRuns`,
`WriterRuns`, `ReaderRuns`, `CallRuns`, `CallbackRuns`) say exactly when a thread has a step to
take is read off the actions, and TLC's own check for deadlock stands behind it.

## Not modelled

* tinythread is vendored. Its mutex, its thread constructor and `join` are modelled by
  what the server does with them; condition variables, thread ids and the code for
  Windows are not used.
* bindy and libximc are not in the repository. What bindy does is modelled as its
  callers see it: connections, one callback per packet, the end of a connection,
  a send that fails. Of libximc only that it opens a node once, or fails, for whatever
  reason.
* `DEBUG` output, the usage message, and SIGPIPE. Texts (names of devices, the datagrams of
  the revealer) are left out wherever no property is about them.
* A first call of the client library from two threads at once (`FirstCallAlone`): the
  pointers it would race on are plain, so every outcome is undefined.

## Plan

1. Server: done (`DeviceRegistry`, `XimcServer`, proofs).
2. Client and system: done (`XiClient`, `XiSystem`, proofs).
3. Times of calls and the revealer: done, with proofs.
4. Enumeration, the ring buffer, the packets and the hints: done, with proofs.
5. Deadlock of the server and of the client: done, with proofs (`WaitsEnd` in both).
6. Left: the liveness properties for every number of threads and connections. Beside
   `WaitsEnd` they need a measure that every round of the loops brings down, and a prover for
   ENABLED.
