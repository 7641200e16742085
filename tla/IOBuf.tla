------------------------------- MODULE IOBuf -------------------------------
(***************************************************************************)
(* iobuf.c: the ring buffer.  A function that works on the whole buffer or *)
(* on one byte is one step; the loops of IOBuf_PutBuf and IOBuf_GetBuf are *)
(* a step per byte, between which the buffer holds part of the bytes.  The *)
(* buffer has no lock: its callers are one thread.                         *)
(***************************************************************************)
EXTENDS Integers, Sequences

CONSTANTS
  Bytes,    \* the values of a byte
  IOBUFMSK, \* the size of the buffer, 4000
  MaxSize   \* bound: the longest buffer a caller passes

ASSUME IOBufAssumption ==
  /\ 0 \in Bytes
  /\ IOBUFMSK \in Nat \ {0}
  /\ MaxSize \in Nat \ {0}

VARIABLES
  b,        \* the IO_BUF
  call,     \* the call of IOBuf_PutBuf or IOBuf_GetBuf that is in its loop
  returned  \* what the last call returned, and the bytes it wrote

iobufVars == <<b, call, returned>>

Positions == 0 .. IOBUFMSK - 1

IO_BUF == [length : 0 .. IOBUFMSK, data : [Positions -> Bytes],
           pp : Positions, gp : Positions]

(* op is the function, size what is left to do, cbuf the caller's bytes    *)
(* (of a put: those not yet put, of a get: those got), i the count.        *)
NoCall == [op |-> "none", size |-> 0, cbuf |-> <<>>, i |-> 0, tmp |-> 0]
Idle == call = NoCall

Result(op, size, ok, bytes) == [op |-> op, size |-> size, ok |-> ok, bytes |-> bytes]

-----------------------------------------------------------------------------
(* macro.h: one more, and from the last value back to the first.           *)
increase(x, first, last) == IF x < last THEN x + 1 ELSE first

Emptied(data) == [length |-> 0, data |-> data, pp |-> 0, gp |-> 0]

Zeroed == Emptied([i \in Positions |-> 0])

HasRoom == b.length < IOBUFMSK

WithCEarlyWrap(buf, c) ==  \* faulty variant: wraps one byte too early
  [length |-> buf.length + 1,
   data |-> [buf.data EXCEPT ![buf.pp] = c],
   pp |-> increase(buf.pp, 0, IOBUFMSK - 2), gp |-> buf.gp]

WithC(buf, c) == [length |-> buf.length + 1,
                  data |-> [buf.data EXCEPT ![buf.pp] = c],
                  pp |-> increase(buf.pp, 0, IOBUFMSK - 1), gp |-> buf.gp]

HasBytes == b.length # 0

FirstByte == b.data[b.gp]

WithoutC(buf) == [length |-> buf.length - 1, data |-> buf.data, pp |-> buf.pp,
                  gp |-> increase(buf.gp, 0, IOBUFMSK - 1)]

-----------------------------------------------------------------------------
IOBuf_Init == Idle /\ b' = Zeroed /\ UNCHANGED <<call, returned>>

IOBuf_ReInit == Idle /\ b' = Emptied(b.data) /\ UNCHANGED <<call, returned>>

IOBuf_PutC(c) ==
  /\ Idle
  /\ b' = IF HasRoom THEN WithC(b, c) ELSE b
  /\ returned' = Result("put", 1, HasRoom, <<>>)
  /\ UNCHANGED call

IOBuf_GetC ==
  /\ Idle
  /\ b' = IF HasBytes THEN WithoutC(b) ELSE b
  /\ returned' = Result("get", 1, HasBytes, IF HasBytes THEN <<FirstByte>> ELSE <<>>)
  /\ UNCHANGED call

IOBuf_PeekC ==
  /\ Idle
  /\ returned' = Result("peek", 1, HasBytes, IF HasBytes THEN <<FirstByte>> ELSE <<>>)
  /\ UNCHANGED <<b, call>>

(* The tests before the loops: all of the bytes or none.                   *)
Fits(size) == size # 0 /\ b.length + size <= IOBUFMSK

IOBuf_PutBuf(cbuf) ==
  LET size == Len(cbuf) IN
  /\ Idle
  /\ IF Fits(size)
       THEN /\ call' = [op |-> "put", size |-> size, cbuf |-> cbuf, i |-> 0, tmp |-> size]
            /\ UNCHANGED returned
       ELSE returned' = Result("put", size, FALSE, <<>>) /\ UNCHANGED call
  /\ UNCHANGED b

Holds(size) == size # 0 /\ size <= b.length

IOBuf_GetBuf(size) ==
  /\ Idle
  /\ IF Holds(size)
       THEN /\ call' = [op |-> "get", size |-> size, cbuf |-> <<>>, i |-> 0, tmp |-> size]
            /\ UNCHANGED returned
       ELSE returned' = Result("get", size, FALSE, <<>>) /\ UNCHANGED call
  /\ UNCHANGED b

(* A round of the loop.  A byte that does not go through is not counted.   *)
PutNext ==
  /\ call.op = "put" /\ call.size > 0
  /\ b' = IF HasRoom THEN WithC(b, Head(call.cbuf)) ELSE b
  /\ call' = [op |-> "put", size |-> call.size - 1, cbuf |-> Tail(call.cbuf),
              i |-> IF HasRoom THEN call.i + 1 ELSE call.i, tmp |-> call.tmp]
  /\ UNCHANGED returned

GetNext ==
  /\ call.op = "get" /\ call.size > 0
  /\ b' = IF HasBytes THEN WithoutC(b) ELSE b
  /\ call' = [op |-> "get", size |-> call.size - 1,
              cbuf |-> IF HasBytes THEN Append(call.cbuf, FirstByte) ELSE call.cbuf,
              i |-> IF HasBytes THEN call.i + 1 ELSE call.i, tmp |-> call.tmp]
  /\ UNCHANGED returned

ReturnBuf ==
  /\ ~Idle /\ call.size = 0
  /\ returned' = Result(call.op, call.tmp, call.i = call.tmp, call.cbuf)
  /\ call' = NoCall
  /\ UNCHANGED b

-----------------------------------------------------------------------------
Init ==
  /\ b = Zeroed
  /\ call = NoCall
  /\ returned = Result("none", 0, FALSE, <<>>)

Next ==
  \/ IOBuf_Init \/ IOBuf_ReInit
  \/ \E c \in Bytes : IOBuf_PutC(c)
  \/ IOBuf_GetC \/ IOBuf_PeekC
  \/ \E size \in 0 .. MaxSize :
       \/ IOBuf_GetBuf(size)
       \/ \E cbuf \in [1 .. size -> Bytes] : IOBuf_PutBuf(cbuf)
  \/ PutNext \/ GetNext \/ ReturnBuf

Spec == Init /\ [][Next]_iobufVars

-----------------------------------------------------------------------------
(* The bytes in the buffer, from the get pointer on.                       *)
Around(buf, i) ==
  IF buf.gp + i < IOBUFMSK THEN buf.gp + i ELSE buf.gp + i - IOBUFMSK

Contents(buf) == [i \in 1 .. buf.length |-> buf.data[Around(buf, i - 1)]]

(* The queue that the buffer is: during a put without the bytes put so     *)
(* far, during a get still with the bytes got so far.                      *)
QueueNow ==
  CASE call.op = "put" -> SubSeq(Contents(b), 1, b.length - call.i)
    [] call.op = "get" -> call.cbuf \o Contents(b)
    [] OTHER -> Contents(b)

Queue == INSTANCE BoundedQueue WITH Capacity <- IOBUFMSK, queue <- QueueNow

(* Whatever the sizes and wherever the pointers are, across the seam of    *)
(* the ring and at its limits, the buffer is a queue: bytes come out in    *)
(* the order they went in, a transfer of several is all or nothing, and a  *)
(* transfer fails only when there is no room or not enough bytes.          *)
RingIsQueue == Queue!Spec
=============================================================================
