---------------------------- MODULE BoundedQueue ----------------------------
(***************************************************************************)
(* What iobuf.h promises: a queue of bytes with room for Capacity of them, *)
(* into which bytes are put, and from which they are taken, all or none.   *)
(***************************************************************************)
EXTENDS Naturals, Sequences

CONSTANTS
  Bytes,    \* the values of a byte
  Capacity, \* how many bytes there is room for
  MaxSize   \* bound: the most bytes of a call

VARIABLES
  queue,    \* the bytes, the oldest first
  returned  \* the last call: what it was, if it succeeded, and the bytes it gave

Result(op, size, ok, bytes) == [op |-> op, size |-> size, ok |-> ok, bytes |-> bytes]

Init ==
  /\ queue = <<>>
  /\ returned = Result("none", 0, FALSE, <<>>)

Clear ==
  /\ queue' = <<>>
  /\ UNCHANGED returned

Put(bytes) ==
  /\ bytes # <<>>
  /\ Len(queue) + Len(bytes) <= Capacity
  /\ queue' = queue \o bytes
  /\ returned' = Result("put", Len(bytes), TRUE, <<>>)

Get(size) ==
  /\ size # 0 /\ size <= Len(queue)
  /\ queue' = SubSeq(queue, size + 1, Len(queue))
  /\ returned' = Result("get", size, TRUE, SubSeq(queue, 1, size))

Peek ==
  /\ queue # <<>>
  /\ returned' = Result("peek", 1, TRUE, <<Head(queue)>>)
  /\ UNCHANGED queue

(* A call fails only when it is of no bytes, or when as many as it is of   *)
(* do not fit or are not there.                                            *)
Fail(op, size) ==
  /\ \/ size = 0
     \/ op = "put" /\ Len(queue) + size > Capacity
     \/ op \in {"get", "peek"} /\ size > Len(queue)
  /\ returned' = Result(op, size, FALSE, <<>>)
  /\ UNCHANGED queue

Next ==
  \/ Clear \/ Peek \/ Fail("peek", 1)
  \/ \E n \in 0 .. MaxSize :
       \/ Get(n) \/ Fail("get", n) \/ Fail("put", n)
       \/ \E bytes \in [1 .. n -> Bytes] : Put(bytes)

Spec == Init /\ [][Next]_<<queue, returned>>
=============================================================================
