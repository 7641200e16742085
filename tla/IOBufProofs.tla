---------------------------- MODULE IOBufProofs ----------------------------
(***************************************************************************)
(* The ring buffer is a queue, for every size of the buffer.               *)
(***************************************************************************)
EXTENDS IOBuf, SequenceTheorems, TLAPS

(* The put pointer is length positions after the get pointer.              *)
IsRing(buf) ==
  /\ buf \in IO_BUF
  /\ buf.pp = Around(buf, buf.length)

(* What is left of a transfer fits, or is there; the count is right.       *)
Calls(op) == [op : {op}, size : Nat, cbuf : Seq(Bytes), i : Nat, tmp : 1 .. MaxSize]

PutOK ==
  /\ call \in Calls("put")
  /\ Len(call.cbuf) = call.size
  /\ call.i + call.size = call.tmp
  /\ call.i <= b.length
  /\ b.length + call.size <= IOBUFMSK

GetOK ==
  /\ call \in Calls("get")
  /\ Len(call.cbuf) = call.i
  /\ call.i + call.size = call.tmp
  /\ call.size <= b.length

IInv ==
  /\ IsRing(b)
  /\ call = NoCall \/ PutOK \/ GetOK

-----------------------------------------------------------------------------
(* The bytes in a buffer, as a sequence.                                   *)
LEMMA ContentsSeq ==
  ASSUME NEW buf, IsRing(buf)
  PROVE  /\ Contents(buf) \in Seq(Bytes)
         /\ Len(Contents(buf)) = buf.length
         /\ \A i \in 1 .. buf.length : Contents(buf)[i] = buf.data[Around(buf, i - 1)]
<1>1. buf.length \in Nat
  BY IOBufAssumption DEF IsRing, IO_BUF
<1>2. \A i \in 1 .. buf.length : buf.data[Around(buf, i - 1)] \in Bytes
  BY IOBufAssumption DEF IsRing, IO_BUF, Positions, Around
<1>3. Contents(buf) \in [1 .. buf.length -> Bytes]
  BY <1>2 DEF Contents
<1>4. Contents(buf) \in Seq(Bytes)
  BY <1>1, <1>3, SeqDef
<1> QED
  BY <1>1, <1>3, <1>4, LenProperties DEF Contents

(* A buffer without bytes.                                                 *)
LEMMA EmptyContents ==
  ASSUME NEW buf, IsRing(buf)
  PROVE  buf.length = 0 <=> Contents(buf) = <<>>
BY ContentsSeq, EmptySeq

(* io_buf_init leaves a ring without bytes, whatever the memory held.        *)
LEMMA EmptiedRing ==
  ASSUME NEW data \in [Positions -> Bytes]
  PROVE  IsRing(Emptied(data)) /\ Contents(Emptied(data)) = <<>>
<1>1. 0 \in Positions /\ 0 \in 0 .. IOBUFMSK
  BY IOBufAssumption DEF Positions
<1>2. Emptied(data) \in IO_BUF
  BY <1>1 DEF IO_BUF, Emptied
<1>3. Around(Emptied(data), 0) = 0
  BY IOBufAssumption DEF Around, Emptied
<1>4. IsRing(Emptied(data))
  BY <1>2, <1>3 DEF IsRing, Emptied
<1> QED
  BY <1>4, EmptyContents DEF Emptied

(* Putting a byte appends it, wherever the pointers are.                   *)
LEMMA PutAppends ==
  ASSUME NEW buf, IsRing(buf), buf.length < IOBUFMSK, NEW c \in Bytes
  PROVE  /\ IsRing(WithC(buf, c))
         /\ WithC(buf, c).length = buf.length + 1
         /\ Contents(WithC(buf, c)) = Append(Contents(buf), c)
<1> DEFINE new == WithC(buf, c)
<1>1. IsRing(new) /\ new.length = buf.length + 1 /\ new.gp = buf.gp
  BY IOBufAssumption DEF IsRing, IO_BUF, Positions, Around, WithC, increase
<1>2. \A i \in 1 .. buf.length : new.data[Around(new, i - 1)] = buf.data[Around(buf, i - 1)]
  <2> SUFFICES ASSUME NEW i \in 1 .. buf.length
               PROVE  new.data[Around(new, i - 1)] = buf.data[Around(buf, i - 1)]
    OBVIOUS
  <2>1. Around(new, i - 1) = Around(buf, i - 1)
    BY <1>1 DEF Around
  <2>2. Around(buf, i - 1) \in Positions /\ Around(buf, i - 1) # buf.pp
    BY IOBufAssumption DEF IsRing, IO_BUF, Positions, Around
  <2> QED
    BY <2>1, <2>2 DEF IsRing, IO_BUF, WithC
<1>3. new.data[Around(new, buf.length)] = c
  <2>1. Around(new, buf.length) = buf.pp /\ buf.pp \in Positions
    BY <1>1 DEF Around, IsRing, IO_BUF
  <2> QED
    BY <2>1 DEF IsRing, IO_BUF, WithC
<1>4. /\ Contents(buf) \in Seq(Bytes) /\ Len(Contents(buf)) = buf.length
      /\ Contents(new) \in Seq(Bytes) /\ Len(Contents(new)) = buf.length + 1
  BY <1>1, ContentsSeq
<1>5. /\ Append(Contents(buf), c) \in Seq(Bytes)
      /\ Len(Append(Contents(buf), c)) = buf.length + 1
      /\ \A i \in 1 .. buf.length : Append(Contents(buf), c)[i] = Contents(buf)[i]
      /\ Append(Contents(buf), c)[buf.length + 1] = c
  BY <1>4, AppendProperties
<1>6. buf.length \in Nat
  BY DEF IsRing, IO_BUF
<1>7. \A i \in 1 .. buf.length + 1 : Contents(new)[i] = Append(Contents(buf), c)[i]
  <2> SUFFICES ASSUME NEW i \in 1 .. buf.length + 1
               PROVE  Contents(new)[i] = Append(Contents(buf), c)[i]
    OBVIOUS
  <2>1. Contents(new)[i] = new.data[Around(new, i - 1)]
    BY <1>1, ContentsSeq
  <2>2. CASE i = buf.length + 1
    BY <2>1, <2>2, <1>3, <1>5, <1>6
  <2>3. CASE i \in 1 .. buf.length
    BY <2>1, <2>3, <1>2, <1>5, ContentsSeq
  <2>4. i = buf.length + 1 \/ i \in 1 .. buf.length
    BY <1>6
  <2> QED
    BY <2>2, <2>3, <2>4
<1>8. Contents(new) = Append(Contents(buf), c)
  BY <1>4, <1>5, <1>7, SeqEqual
<1> QED
  BY <1>1, <1>8

(* Getting a byte takes the first one.                                     *)
LEMMA GetTakesFirst ==
  ASSUME NEW buf, IsRing(buf), buf.length # 0
  PROVE  /\ buf.data[buf.gp] \in Bytes
         /\ IsRing(WithoutC(buf))
         /\ WithoutC(buf).length = buf.length - 1
         /\ Contents(buf) = <<buf.data[buf.gp]>> \o Contents(WithoutC(buf))
<1> DEFINE new == WithoutC(buf)
           first == buf.data[buf.gp]
           joined == <<first>> \o Contents(new)
<1>1. first \in Bytes /\ buf.length \in Nat \ {0} /\ buf.gp = Around(buf, 0)
  BY IOBufAssumption DEF IsRing, IO_BUF, Positions, Around
<1>2. IsRing(new) /\ new.length = buf.length - 1 /\ new.data = buf.data
  <2>1. /\ buf.length \in 1 .. IOBUFMSK /\ buf.gp \in Positions /\ buf.pp \in Positions
        /\ buf.data \in [Positions -> Bytes] /\ buf.pp = Around(buf, buf.length)
    BY <1>1 DEF IsRing, IO_BUF
  <2>2. new.gp = IF buf.gp < IOBUFMSK - 1 THEN buf.gp + 1 ELSE 0
    BY DEF WithoutC, increase
  <2>3. new.gp \in Positions /\ buf.length - 1 \in 0 .. IOBUFMSK
    BY <2>1, <2>2, IOBufAssumption DEF Positions
  <2>4. new = [length |-> buf.length - 1, data |-> buf.data, pp |-> buf.pp, gp |-> new.gp]
    BY DEF WithoutC
  <2>5. new \in IO_BUF
    BY <2>1, <2>3, <2>4 DEF IO_BUF
  <2>6. new.pp = Around(new, new.length)
    BY <2>1, <2>2, <2>4, IOBufAssumption DEF Around, Positions
  <2> QED
    BY <2>4, <2>5, <2>6 DEF IsRing
<1>3. \A i \in 2 .. buf.length : Around(new, i - 2) = Around(buf, i - 1)
  BY IOBufAssumption DEF IsRing, IO_BUF, Positions, Around, WithoutC, increase
<1>4. /\ Contents(buf) \in Seq(Bytes) /\ Len(Contents(buf)) = buf.length
      /\ Contents(new) \in Seq(Bytes) /\ Len(Contents(new)) = buf.length - 1
  BY <1>2, ContentsSeq
<1>5. <<first>> \in Seq(Bytes) /\ Len(<<first>>) = 1 /\ <<first>>[1] = first
  BY <1>1
<1> HIDE DEF new, first
<1>6. /\ joined \in Seq(Bytes) /\ Len(joined) = 1 + (buf.length - 1)
      /\ \A i \in 1 .. 1 + (buf.length - 1) :
           joined[i] = IF i <= 1 THEN <<first>>[i] ELSE Contents(new)[i - 1]
  BY <1>4, <1>5, ConcatProperties
<1>7. \A i \in 1 .. buf.length : Contents(buf)[i] = joined[i]
  <2> SUFFICES ASSUME NEW i \in 1 .. buf.length
               PROVE  Contents(buf)[i] = joined[i]
    OBVIOUS
  <2>1. Contents(buf)[i] = buf.data[Around(buf, i - 1)]
    BY ContentsSeq
  <2>2. CASE i = 1
    BY <2>1, <2>2, <1>1, <1>5, <1>6 DEF first
  <2>3. CASE i \in 2 .. buf.length
    <3>1. joined[i] = Contents(new)[i - 1] /\ i - 1 \in 1 .. new.length
      BY <2>3, <1>1, <1>2, <1>6
    <3>2. Contents(new)[i - 1] = new.data[Around(new, (i - 1) - 1)]
      BY <3>1, <1>2, ContentsSeq
    <3>3. (i - 1) - 1 = i - 2
      BY <2>3, <1>1
    <3> QED
      BY <3>1, <3>2, <3>3, <2>1, <2>3, <1>2, <1>3
  <2>4. i = 1 \/ i \in 2 .. buf.length
    BY <1>1
  <2> QED
    BY <2>2, <2>3, <2>4
<1>8. Len(joined) = buf.length
  BY <1>1, <1>6
<1>9. Contents(buf) = joined
  BY <1>4, <1>6, <1>7, <1>8, SeqEqual
<1> QED
  BY <1>1, <1>2, <1>9 DEF new, first

-----------------------------------------------------------------------------
(* The ring stays a ring, and a transfer that has begun has room for all   *)
(* its bytes, or finds them all, whatever the sizes and the pointers are.  *)
THEOREM Invariance == Spec => []IInv
<1>1. Init => IInv
  BY IOBufAssumption, EmptiedRing DEF Init, IInv, Zeroed
<1>2. IInv /\ [Next]_iobufVars => IInv'
  <2> SUFFICES ASSUME IInv, [Next]_iobufVars
               PROVE  IInv'
    OBVIOUS
  <2>1. CASE IOBuf_Init
    <3>1. IsRing(Zeroed)
      BY IOBufAssumption, EmptiedRing DEF Zeroed
    <3> QED
      BY <2>1, <3>1 DEF IOBuf_Init, Idle, IInv
  <2>2. CASE IOBuf_ReInit
    <3>1. IsRing(Emptied(b.data))
      BY EmptiedRing DEF IInv, IsRing, IO_BUF
    <3> QED
      BY <2>2, <3>1 DEF IOBuf_ReInit, Idle, IInv
  <2>3. ASSUME NEW c \in Bytes, IOBuf_PutC(c) PROVE IInv'
    <3>1. HasRoom => IsRing(WithC(b, c))
      BY PutAppends DEF IInv, HasRoom
    <3> QED
      BY <2>3, <3>1 DEF IOBuf_PutC, Idle, IInv
  <2>4. CASE IOBuf_GetC
    <3>1. HasBytes => IsRing(WithoutC(b))
      BY GetTakesFirst DEF IInv, HasBytes
    <3> QED
      BY <2>4, <3>1 DEF IOBuf_GetC, Idle, IInv
  <2>5. CASE IOBuf_PeekC
    BY <2>5 DEF IOBuf_PeekC, Idle, IInv
  <2>6. ASSUME NEW size \in 0 .. MaxSize, IOBuf_GetBuf(size) PROVE IInv'
    <3>1. b' = b /\ (call' = NoCall \/ Holds(size))
      BY <2>6 DEF IOBuf_GetBuf, Idle
    <3>2. CASE call' = NoCall
      BY <3>1, <3>2 DEF IInv
    <3>3. CASE Holds(size) /\ call' # NoCall
      <4>1. call' = [op |-> "get", size |-> size, cbuf |-> <<>>, i |-> 0, tmp |-> size]
        BY <2>6, <3>3 DEF IOBuf_GetBuf
      <4>2. size \in 1 .. MaxSize /\ size <= b.length
        BY <3>3, IOBufAssumption DEF Holds
      <4> QED
        BY <3>1, <4>1, <4>2, EmptySeq DEF IInv, GetOK, Calls
    <3> QED
      BY <3>1, <3>2, <3>3
  <2>7. ASSUME NEW size \in 0 .. MaxSize, NEW cbuf \in [1 .. size -> Bytes],
               IOBuf_PutBuf(cbuf)
        PROVE  IInv'
    <3>1. cbuf \in Seq(Bytes) /\ Len(cbuf) = size
      BY SeqDef, LenProperties, IOBufAssumption
    <3>2. CASE call' = NoCall
      BY <2>7, <3>2 DEF IOBuf_PutBuf, IInv
    <3>3. CASE Fits(size) /\ call' # NoCall
      <4>1. call' = [op |-> "put", size |-> size, cbuf |-> cbuf, i |-> 0, tmp |-> size]
        BY <2>7, <3>1, <3>3 DEF IOBuf_PutBuf
      <4>2. size \in 1 .. MaxSize /\ b.length + size <= IOBUFMSK /\ 0 <= b.length
        BY <3>3, IOBufAssumption DEF Fits, IInv, IsRing, IO_BUF
      <4> QED
        BY <2>7, <3>1, <4>1, <4>2 DEF IOBuf_PutBuf, IInv, PutOK, Calls
    <3> QED
      BY <2>7, <3>1, <3>2, <3>3 DEF IOBuf_PutBuf, Idle
  <2>8. CASE PutNext
    <3>1. PutOK
      BY <2>8 DEF PutNext, IInv, GetOK, Calls, NoCall
    <3>2. HasRoom /\ b.length \in Nat
      BY <2>8, <3>1, IOBufAssumption DEF PutNext, PutOK, Calls, HasRoom, IInv, IsRing, IO_BUF
    <3>3. call.cbuf \in Seq(Bytes) /\ call.cbuf # <<>>
      BY <2>8, <3>1, EmptySeq DEF PutNext, PutOK, Calls
    <3>4. /\ Head(call.cbuf) \in Bytes /\ Tail(call.cbuf) \in Seq(Bytes)
          /\ Len(Tail(call.cbuf)) = Len(call.cbuf) - 1
      BY <3>3, HeadTailProperties
    <3>5. b' = WithC(b, Head(call.cbuf)) /\ IsRing(b') /\ b'.length = b.length + 1
      BY <2>8, <3>2, <3>4, PutAppends DEF PutNext, HasRoom, IInv
    <3>6. call' = [op |-> "put", size |-> call.size - 1, cbuf |-> Tail(call.cbuf),
                   i |-> call.i + 1, tmp |-> call.tmp]
      BY <2>8, <3>2 DEF PutNext
    <3>7. PutOK'
      <4>1. /\ call.size \in Nat \ {0} /\ call.i \in Nat /\ call.tmp \in 1 .. MaxSize
            /\ Len(call.cbuf) = call.size /\ call.i + call.size = call.tmp
            /\ call.i <= b.length /\ b.length + call.size <= IOBUFMSK
        BY <2>8, <3>1 DEF PutNext, PutOK, Calls
      <4>2. call.size - 1 \in Nat /\ call.i + 1 \in Nat
        BY <4>1
      <4>3. call' \in Calls("put")
        BY <3>4, <3>6, <4>1, <4>2 DEF Calls
      <4>4. /\ Len(call'.cbuf) = call'.size /\ call'.i + call'.size = call'.tmp
            /\ call'.i <= b'.length /\ b'.length + call'.size <= IOBUFMSK
        <5>1. /\ call'.size = call.size - 1 /\ call'.i = call.i + 1 /\ call'.tmp = call.tmp
              /\ Len(call'.cbuf) = call.size - 1
          BY <3>4, <3>6, <4>1
        <5>2. IOBUFMSK \in Nat
          BY IOBufAssumption
        <5>3. b'.length = b.length + 1 /\ b.length \in Nat
          BY <3>2, <3>5
        <5>4. b.length + 1 + (call.size - 1) <= IOBUFMSK /\ call.i + 1 <= b.length + 1
          BY <4>1, <5>2, <5>3
        <5>5. call.i + 1 + (call.size - 1) = call.tmp
          BY <4>1
        <5> QED
          BY <5>1, <5>3, <5>4, <5>5
      <4> QED
        BY <4>3, <4>4 DEF PutOK
    <3> QED
      BY <3>5, <3>7 DEF IInv
  <2>9. CASE GetNext
    <3>1. GetOK
      BY <2>9 DEF GetNext, IInv, PutOK, Calls, NoCall
    <3>2. HasBytes /\ b.length \in Nat
      BY <2>9, <3>1, IOBufAssumption DEF GetNext, GetOK, Calls, HasBytes, IInv, IsRing, IO_BUF
    <3>3. FirstByte \in Bytes /\ b' = WithoutC(b) /\ IsRing(b') /\ b'.length = b.length - 1
      BY <2>9, <3>2, GetTakesFirst DEF GetNext, HasBytes, FirstByte, IInv
    <3>4. /\ Append(call.cbuf, FirstByte) \in Seq(Bytes)
          /\ Len(Append(call.cbuf, FirstByte)) = Len(call.cbuf) + 1
      BY <3>1, <3>3, AppendProperties DEF GetOK, Calls
    <3>5. call' = [op |-> "get", size |-> call.size - 1, cbuf |-> Append(call.cbuf, FirstByte),
                   i |-> call.i + 1, tmp |-> call.tmp]
      BY <2>9, <3>2 DEF GetNext
    <3>6. GetOK'
      <4>1. /\ call.size \in Nat \ {0} /\ call.i \in Nat /\ call.tmp \in 1 .. MaxSize
            /\ Len(call.cbuf) = call.i /\ call.i + call.size = call.tmp
            /\ call.size <= b.length
        BY <2>9, <3>1 DEF GetNext, GetOK, Calls
      <4>2. call.size - 1 \in Nat /\ call.i + 1 \in Nat
        BY <4>1
      <4>3. call' \in Calls("get")
        BY <3>4, <3>5, <4>1, <4>2 DEF Calls
      <4>4. /\ Len(call'.cbuf) = call'.i /\ call'.i + call'.size = call'.tmp
            /\ call'.size <= b'.length
        BY <3>2, <3>3, <3>4, <3>5, <4>1
      <4> QED
        BY <4>3, <4>4 DEF GetOK
    <3> QED
      BY <3>3, <3>6 DEF IInv
  <2>10. CASE ReturnBuf
    BY <2>10 DEF ReturnBuf, IInv
  <2>11. CASE UNCHANGED iobufVars
    BY <2>11 DEF iobufVars, IInv, PutOK, GetOK
  <2> QED
    BY <2>1, <2>2, <2>3, <2>4, <2>5, <2>6, <2>7, <2>8, <2>9, <2>10, <2>11 DEF Next
<1> QED
  BY <1>1, <1>2, PTL DEF Spec

-----------------------------------------------------------------------------
(* The two parts of a joined sequence.                                     *)
LEMMA Parts ==
  ASSUME NEW S, NEW s \in Seq(S), NEW t \in Seq(S)
  PROVE  /\ SubSeq(s \o t, 1, Len(s)) = s
         /\ SubSeq(s \o t, Len(s) + 1, Len(s \o t)) = t
<1> DEFINE st == s \o t
<1>1. /\ st \in Seq(S) /\ Len(st) = Len(s) + Len(t)
      /\ \A i \in 1 .. Len(s) + Len(t) : st[i] = IF i <= Len(s) THEN s[i] ELSE t[i - Len(s)]
      /\ Len(s) \in Nat /\ Len(t) \in Nat
  BY ConcatProperties, LenProperties
<1> HIDE DEF st
<1>2. \A i \in 1 .. Len(st) : st[i] \in S
  BY <1>1, ElementOfSeq
<1>3. SubSeq(st, 1, Len(s)) = s
  <2> DEFINE u == SubSeq(st, 1, Len(s))
  <2>1. /\ u \in Seq(S) /\ Len(u) = Len(s)
        /\ \A i \in 1 .. Len(s) : u[i] = st[i]
    <3>1. \A i \in 1 .. Len(s) : st[i] \in S
      BY <1>1, <1>2
    <3>2. /\ u \in Seq(S)
          /\ Len(u) = IF 1 <= Len(s) THEN Len(s) - 1 + 1 ELSE 0
          /\ \A i \in 1 .. Len(s) - 1 + 1 : u[i] = st[1 + i - 1]
      BY <1>1, <3>1, SubSeqProperties
    <3> QED
      BY <1>1, <3>2
  <2> HIDE DEF u
  <2>2. \A i \in 1 .. Len(u) : u[i] = s[i]
    BY <1>1, <2>1
  <2>3. u = s
    BY <2>1, <2>2, SeqEqual
  <2> QED
    BY <2>3 DEF u
<1>4. SubSeq(st, Len(s) + 1, Len(st)) = t
  <2> DEFINE m == Len(s) + 1
             u == SubSeq(st, m, Len(st))
  <2>1. /\ u \in Seq(S) /\ Len(u) = Len(t)
        /\ \A i \in 1 .. Len(t) : u[i] = st[Len(s) + i]
    <3>1. \A i \in m .. Len(st) : st[i] \in S
      BY <1>1, <1>2
    <3>2. /\ u \in Seq(S)
          /\ Len(u) = IF m <= Len(st) THEN Len(st) - m + 1 ELSE 0
          /\ \A i \in 1 .. Len(st) - m + 1 : u[i] = st[m + i - 1]
      BY <1>1, <3>1, SubSeqProperties
    <3> QED
      BY <1>1, <3>2
  <2> HIDE DEF u
  <2>2. \A i \in 1 .. Len(u) : u[i] = t[i]
    <3> SUFFICES ASSUME NEW i \in 1 .. Len(t) PROVE u[i] = t[i]
      BY <2>1
    <3>1. Len(s) + i \in 1 .. Len(s) + Len(t) /\ ~(Len(s) + i <= Len(s))
      BY <1>1
    <3>2. st[Len(s) + i] = t[(Len(s) + i) - Len(s)]
      BY <1>1, <3>1
    <3>3. (Len(s) + i) - Len(s) = i
      BY <1>1
    <3> QED
      BY <2>1, <3>2, <3>3
  <2>3. u = t
    BY <2>1, <2>2, SeqEqual
  <2> QED
    BY <2>3 DEF u
<1> QED
  BY <1>3, <1>4 DEF st

(* Appending leaves the beginnings alone.                                  *)
LEMMA AppendPrefix ==
  ASSUME NEW S, NEW s \in Seq(S), NEW e \in S, NEW n \in 0 .. Len(s)
  PROVE  SubSeq(Append(s, e), 1, n) = SubSeq(s, 1, n)
<1> DEFINE a == Append(s, e)
           u == SubSeq(a, 1, n)
           v == SubSeq(s, 1, n)
<1>1. /\ a \in Seq(S) /\ Len(a) = Len(s) + 1 /\ Len(s) \in Nat
      /\ \A i \in 1 .. Len(s) : a[i] = s[i]
  BY AppendProperties, LenProperties
<1> HIDE DEF a
<1>2. \A i \in 1 .. n : a[i] \in S /\ s[i] \in S /\ a[i] = s[i]
  BY <1>1, ElementOfSeq
<1>3. /\ u \in Seq(S)
      /\ Len(u) = IF 1 <= n THEN n - 1 + 1 ELSE 0
      /\ \A i \in 1 .. n - 1 + 1 : u[i] = a[1 + i - 1]
  BY <1>1, <1>2, SubSeqProperties
<1>4. /\ v \in Seq(S)
      /\ Len(v) = IF 1 <= n THEN n - 1 + 1 ELSE 0
      /\ \A i \in 1 .. n - 1 + 1 : v[i] = s[1 + i - 1]
  BY <1>1, <1>2, SubSeqProperties
<1> HIDE DEF u, v
<1>5. Len(u) = n /\ Len(v) = n
  BY <1>1, <1>3, <1>4
<1>6. \A i \in 1 .. Len(u) : u[i] = v[i]
  BY <1>1, <1>2, <1>3, <1>4, <1>5
<1>7. u = v
  BY <1>3, <1>4, <1>5, <1>6, SeqEqual
<1> QED
  BY <1>7 DEF u, v, a

(* A byte moves from the front of one sequence to the end of another.      *)
LEMMA AppendConcat ==
  ASSUME NEW S, NEW s \in Seq(S), NEW e \in S, NEW t \in Seq(S)
  PROVE  Append(s, e) \o t = s \o (<<e>> \o t)
<1>1. Append(s, e) = s \o <<e>>
  BY AppendIsConcat
<1>2. <<e>> \in Seq(S)
  OBVIOUS
<1>3. (s \o <<e>>) \o t = s \o (<<e>> \o t)
  BY <1>2, ConcatAssociative
<1> QED
  BY <1>1, <1>3

-----------------------------------------------------------------------------
(* Every step of the ring buffer is one of the queue, or none.             *)
LEMMA StepRefines ==
  ASSUME IInv, IInv', [Next]_iobufVars
  PROVE  [Queue!Next]_<<QueueNow, returned>>
<1> DEFINE C == Contents(b)
           L == b.length
<1>1. C \in Seq(Bytes) /\ Len(C) = L /\ L \in Nat /\ (L = 0 <=> C = <<>>)
  BY ContentsSeq, EmptyContents DEF IInv, IsRing, IO_BUF
<1>2. call = NoCall => QueueNow = C
  BY DEF QueueNow, NoCall
<1>3. call' = NoCall => QueueNow' = Contents(b')
  BY DEF QueueNow, NoCall
<1>4. 1 \in 0 .. MaxSize
  BY IOBufAssumption
<1>5. CASE IOBuf_Init
  <2>1. QueueNow' = <<>> /\ returned' = returned
    BY <1>3, <1>5, IOBufAssumption, EmptiedRing DEF IOBuf_Init, Idle, Zeroed
  <2> QED
    BY <2>1 DEF Queue!Next, Queue!Clear
<1>6. CASE IOBuf_ReInit
  <2>1. QueueNow' = <<>> /\ returned' = returned
    BY <1>3, <1>6, EmptiedRing DEF IOBuf_ReInit, Idle, IInv, IsRing, IO_BUF
  <2> QED
    BY <2>1 DEF Queue!Next, Queue!Clear
<1>7. ASSUME NEW c \in Bytes, IOBuf_PutC(c) PROVE Queue!Next
  <2>1. QueueNow = C /\ QueueNow' = Contents(b')
    BY <1>2, <1>3, <1>7 DEF IOBuf_PutC, Idle
  <2>2. CASE HasRoom
    <3>1. Contents(b') = C \o <<c>>
      BY <1>1, <1>7, <2>2, PutAppends, AppendIsConcat DEF IOBuf_PutC, HasRoom, IInv
    <3>2. <<c>> \in [1 .. 1 -> Bytes] /\ <<c>> # <<>> /\ Len(<<c>>) = 1
      OBVIOUS
    <3>3. L + 1 <= IOBUFMSK
      BY <1>1, <2>2, IOBufAssumption DEF HasRoom
    <3>4. returned' = Result("put", 1, TRUE, <<>>)
      BY <1>7, <2>2 DEF IOBuf_PutC
    <3>5. Queue!Put(<<c>>)
      BY <1>1, <2>1, <3>1, <3>2, <3>3, <3>4 DEF Queue!Put, Queue!Result, Result
    <3> QED
      BY <1>4, <3>2, <3>5 DEF Queue!Next
  <2>3. CASE ~HasRoom
    <3>1. b' = b /\ returned' = Result("put", 1, FALSE, <<>>)
      <4>1. HasRoom = FALSE
        BY <1>1, <2>3, IOBufAssumption DEF HasRoom
      <4> QED
        BY <1>7, <2>3, <4>1 DEF IOBuf_PutC
    <3>2. L + 1 > IOBUFMSK
      BY <1>1, <2>3, IOBufAssumption DEF HasRoom
    <3>3. Queue!Fail("put", 1)
      BY <1>1, <2>1, <3>1, <3>2 DEF Queue!Fail, Queue!Result, Result
    <3> QED
      BY <1>4, <3>3 DEF Queue!Next
  <2> QED
    BY <2>2, <2>3
<1>8. CASE IOBuf_GetC
  <2>1. QueueNow = C /\ QueueNow' = Contents(b')
    BY <1>2, <1>3, <1>8 DEF IOBuf_GetC, Idle
  <2>2. CASE HasBytes
    <3>1. /\ FirstByte \in Bytes /\ C = <<FirstByte>> \o Contents(b')
          /\ Contents(b') \in Seq(Bytes)
      BY <1>8, <2>2, GetTakesFirst, ContentsSeq DEF IOBuf_GetC, HasBytes, FirstByte, IInv
    <3>2. <<FirstByte>> \in Seq(Bytes) /\ Len(<<FirstByte>>) = 1
      BY <3>1
    <3>3. SubSeq(C, 1, 1) = <<FirstByte>> /\ SubSeq(C, 1 + 1, Len(C)) = Contents(b')
      <4>1. /\ SubSeq(<<FirstByte>> \o Contents(b'), 1, Len(<<FirstByte>>)) = <<FirstByte>>
            /\ SubSeq(<<FirstByte>> \o Contents(b'), Len(<<FirstByte>>) + 1,
                      Len(<<FirstByte>> \o Contents(b'))) = Contents(b')
        BY <3>1, <3>2, Parts
      <4> QED
        BY <3>1, <3>2, <4>1
    <3>4. returned' = Result("get", 1, TRUE, <<FirstByte>>)
      BY <1>8, <2>2 DEF IOBuf_GetC
    <3>5. Queue!Get(1)
      <4>1. 1 <= Len(QueueNow)
        BY <1>1, <2>1, <2>2 DEF HasBytes
      <4> QED
        <5>1. returned' = Queue!Result("get", 1, TRUE, SubSeq(QueueNow, 1, 1))
          BY <2>1, <3>3, <3>4 DEF Queue!Result, Result
        <5>2. QueueNow' = SubSeq(QueueNow, 1 + 1, Len(QueueNow))
          BY <2>1, <3>3
        <5> QED
          BY <4>1, <5>1, <5>2 DEF Queue!Get
    <3> QED
      BY <1>4, <3>5 DEF Queue!Next
  <2>3. CASE ~HasBytes
    <3>1. b' = b /\ returned' = Result("get", 1, FALSE, <<>>)
      BY <1>8, <2>3 DEF IOBuf_GetC, HasBytes
    <3>2. Queue!Fail("get", 1)
      BY <1>1, <2>1, <2>3, <3>1 DEF Queue!Fail, Queue!Result, Result, HasBytes
    <3> QED
      BY <1>4, <3>2 DEF Queue!Next
  <2> QED
    BY <2>2, <2>3
<1>9. CASE IOBuf_PeekC
  <2>1. QueueNow = C /\ QueueNow' = C
    BY <1>2, <1>3, <1>9 DEF IOBuf_PeekC, Idle
  <2>2. CASE HasBytes
    <3>1. Head(C) = FirstByte /\ C # <<>>
      <4>1. C[1] = b.data[Around(b, 1 - 1)]
        BY <1>1, <2>2, ContentsSeq DEF IInv, HasBytes
      <4>2. Around(b, 1 - 1) = b.gp
        BY IOBufAssumption DEF Around, IInv, IsRing, IO_BUF, Positions
      <4> QED
        BY <1>1, <2>2, <4>1, <4>2 DEF HasBytes, FirstByte
    <3>2. returned' = Result("peek", 1, TRUE, <<FirstByte>>)
      BY <1>9, <2>2 DEF IOBuf_PeekC
    <3> QED
      BY <2>1, <3>1, <3>2 DEF Queue!Next, Queue!Peek, Queue!Result, Result
  <2>3. CASE ~HasBytes
    <3>1. returned' = Result("peek", 1, FALSE, <<>>)
      BY <1>9, <2>3 DEF IOBuf_PeekC, HasBytes
    <3>2. Queue!Fail("peek", 1)
      BY <1>1, <2>1, <2>3, <3>1 DEF Queue!Fail, Queue!Result, Result, HasBytes
    <3> QED
      BY <3>2 DEF Queue!Next
  <2> QED
    BY <2>2, <2>3
<1>10. ASSUME NEW size \in 0 .. MaxSize, IOBuf_GetBuf(size)
       PROVE  [Queue!Next]_<<QueueNow, returned>>
  <2>1. QueueNow = C /\ b' = b
    BY <1>2, <1>10 DEF IOBuf_GetBuf, Idle
  <2>2. CASE Holds(size)
    <3>1. /\ call' = [op |-> "get", size |-> size, cbuf |-> <<>>, i |-> 0, tmp |-> size]
          /\ returned' = returned
      BY <1>10, <2>2 DEF IOBuf_GetBuf
    <3>2. QueueNow' = <<>> \o C
      BY <2>1, <3>1 DEF QueueNow
    <3>3. QueueNow' = QueueNow
      BY <1>1, <2>1, <3>2, ConcatEmptySeq
    <3> QED
      BY <3>1, <3>3
  <2>3. CASE ~Holds(size)
    <3>1. call' = NoCall /\ returned' = Result("get", size, FALSE, <<>>)
      BY <1>10, <2>3 DEF IOBuf_GetBuf, Idle
    <3>2. QueueNow' = C
      BY <1>3, <2>1, <3>1
    <3>3. size = 0 \/ size > Len(C)
      BY <1>1, <2>3, IOBufAssumption DEF Holds
    <3>4. Queue!Fail("get", size)
      BY <2>1, <3>1, <3>2, <3>3 DEF Queue!Fail, Queue!Result, Result
    <3> QED
      BY <3>4 DEF Queue!Next
  <2> QED
    BY <2>2, <2>3
<1>11. ASSUME NEW size \in 0 .. MaxSize, NEW cbuf \in [1 .. size -> Bytes], IOBuf_PutBuf(cbuf)
       PROVE  [Queue!Next]_<<QueueNow, returned>>
  <2>1. QueueNow = C /\ b' = b
    BY <1>2, <1>11 DEF IOBuf_PutBuf, Idle
  <2>2. Len(cbuf) = size
    BY SeqDef, LenProperties, IOBufAssumption
  <2>3. CASE Fits(size)
    <3>1. /\ call' = [op |-> "put", size |-> size, cbuf |-> cbuf, i |-> 0, tmp |-> size]
          /\ returned' = returned
      BY <1>11, <2>2, <2>3 DEF IOBuf_PutBuf
    <3>2. QueueNow' = SubSeq(C, 1, L - 0)
      BY <2>1, <3>1 DEF QueueNow
    <3>3. QueueNow' = QueueNow
      BY <1>1, <2>1, <3>2, SubSeqFull
    <3> QED
      BY <3>1, <3>3
  <2>4. CASE ~Fits(size)
    <3>1. call' = NoCall /\ returned' = Result("put", size, FALSE, <<>>)
      BY <1>11, <2>2, <2>4 DEF IOBuf_PutBuf, Idle
    <3>2. QueueNow' = C
      BY <1>3, <2>1, <3>1
    <3>3. size = 0 \/ Len(C) + size > IOBUFMSK
      BY <1>1, <2>4, IOBufAssumption DEF Fits
    <3>4. Queue!Fail("put", size)
      BY <2>1, <3>1, <3>2, <3>3 DEF Queue!Fail, Queue!Result, Result
    <3> QED
      BY <3>4 DEF Queue!Next
  <2> QED
    BY <2>3, <2>4
<1>12. CASE PutNext
  <2>1. PutOK /\ call.op = "put" /\ call'.op = "put"
    BY <1>12 DEF PutNext, IInv, GetOK, Calls, NoCall
  <2>2. /\ call.i \in Nat /\ call.i <= L /\ HasRoom
        /\ call.cbuf \in Seq(Bytes) /\ call.cbuf # <<>>
    BY <1>1, <1>12, <2>1, EmptySeq, IOBufAssumption DEF PutNext, PutOK, Calls, HasRoom
  <2>3. Head(call.cbuf) \in Bytes
    BY <2>2, HeadTailProperties
  <2>4. /\ b'.length = L + 1
        /\ Contents(b') = Append(C, Head(call.cbuf))
    BY <1>12, <2>2, <2>3, PutAppends DEF PutNext, HasRoom, IInv
  <2>5. call'.i = call.i + 1 /\ returned' = returned
    BY <1>12, <2>2 DEF PutNext
  <2>6. QueueNow = SubSeq(C, 1, L - call.i)
    BY <2>1 DEF QueueNow
  <2>7. QueueNow' = SubSeq(Append(C, Head(call.cbuf)), 1, (L + 1) - (call.i + 1))
    BY <2>1, <2>4, <2>5 DEF QueueNow
  <2>8. (L + 1) - (call.i + 1) = L - call.i /\ L - call.i \in 0 .. Len(C)
    BY <1>1, <2>2
  <2>9. QueueNow' = QueueNow
    BY <1>1, <2>3, <2>6, <2>7, <2>8, AppendPrefix
  <2> QED
    BY <2>5, <2>9
<1>13. CASE GetNext
  <2>1. GetOK /\ call.op = "get" /\ call'.op = "get"
    BY <1>13 DEF GetNext, IInv, PutOK, Calls, NoCall
  <2>2. call.cbuf \in Seq(Bytes) /\ HasBytes
    BY <1>1, <1>13, <2>1 DEF GetNext, GetOK, Calls, HasBytes
  <2>3. /\ FirstByte \in Bytes /\ C = <<FirstByte>> \o Contents(b')
        /\ Contents(b') \in Seq(Bytes)
    BY <1>13, <2>2, GetTakesFirst, ContentsSeq DEF GetNext, HasBytes, FirstByte, IInv
  <2>4. call'.cbuf = Append(call.cbuf, FirstByte) /\ returned' = returned
    BY <1>13, <2>2 DEF GetNext
  <2>5. QueueNow = call.cbuf \o C
    BY <2>1 DEF QueueNow
  <2>6. QueueNow' = Append(call.cbuf, FirstByte) \o Contents(b')
    BY <2>1, <2>4 DEF QueueNow
  <2>7. Append(call.cbuf, FirstByte) \o Contents(b') = call.cbuf \o (<<FirstByte>> \o Contents(b'))
    <3>1. call.cbuf \in Seq(Bytes) /\ FirstByte \in Bytes /\ Contents(b') \in Seq(Bytes)
      BY <2>2, <2>3
    <3>2. \A s \in Seq(Bytes), e \in Bytes, t \in Seq(Bytes) :
            Append(s, e) \o t = s \o (<<e>> \o t)
      BY AppendConcat
    <3> QED
      BY ONLY <3>1, <3>2
  <2>8. QueueNow' = QueueNow
    BY <2>3, <2>5, <2>6, <2>7
  <2> QED
    BY <2>4, <2>8
<1>14. CASE ReturnBuf
  <2>1. QueueNow' = C /\ returned' = Result(call.op, call.tmp, call.i = call.tmp, call.cbuf)
    BY <1>3, <1>14 DEF ReturnBuf
  <2>2. CASE PutOK
    <3>1. /\ call.op = "put" /\ call.i = call.tmp /\ call.tmp \in 1 .. MaxSize
          /\ call.cbuf = <<>> /\ call.i <= L
      BY <1>14, <2>2, EmptySeq DEF ReturnBuf, PutOK, Calls
    <3> DEFINE k == L - call.i
               bytes == SubSeq(C, k + 1, L)
    <3>2. k \in 0 .. L /\ call.i \in Nat /\ L - (k + 1) + 1 = call.i /\ k + 1 <= L
      BY <1>1, <3>1, IOBufAssumption
    <3>3. QueueNow = SubSeq(C, 1, k)
      BY <3>1 DEF QueueNow
    <3>4. \A j \in 1 .. L : C[j] \in Bytes
      BY <1>1, ElementOfSeq
    <3>5. /\ bytes \in Seq(Bytes)
          /\ Len(bytes) = IF k + 1 <= L THEN L - (k + 1) + 1 ELSE 0
      <4>1. \A j \in k + 1 .. L : C[j] \in Bytes
        BY <1>1, <3>2, <3>4
      <4> QED
        BY <1>1, <3>2, <4>1, SubSeqProperties
    <3>6. Len(bytes) = call.tmp /\ bytes \in [1 .. call.tmp -> Bytes] /\ bytes # <<>>
      <4>1. Len(bytes) = call.tmp /\ call.tmp # 0
        BY <3>1, <3>2, <3>5
      <4>2. bytes \in [1 .. Len(bytes) -> Bytes]
        BY <3>5, LenProperties
      <4>3. Len(<<>>) = 0
        BY EmptySeq
      <4> HIDE DEF bytes
      <4> QED
        BY <4>1, <4>2, <4>3
    <3>7. /\ SubSeq(C, 1, k) \in Seq(Bytes)
          /\ Len(SubSeq(C, 1, k)) = IF 1 <= k THEN k - 1 + 1 ELSE 0
      <4>1. \A j \in 1 .. k : C[j] \in Bytes
        BY <1>1, <3>2, <3>4
      <4> QED
        BY <1>1, <3>2, <4>1, SubSeqProperties
    <3>8. Len(QueueNow) = k
      BY <3>2, <3>3, <3>7
    <3>9. QueueNow \o bytes = C
      <4>1. 1 \in 1 .. Len(C) + 1 /\ k \in 1 - 1 .. Len(C) /\ Len(C) \in k .. Len(C)
        BY <1>1, <3>2
      <4>2. SubSeq(C, 1, k) \o SubSeq(C, k + 1, Len(C)) = SubSeq(C, 1, Len(C))
        BY <1>1, <4>1, ConcatAdjacentSubSeq
      <4> QED
        BY <1>1, <3>3, <4>2, SubSeqFull
    <3>10. k + call.tmp <= IOBUFMSK
      BY <1>1, <3>1, <3>2, IOBufAssumption DEF IInv, IsRing, IO_BUF
    <3>11. returned' = Result("put", Len(bytes), TRUE, <<>>)
      BY <2>1, <3>1, <3>6
    <3>12. Queue!Put(bytes)
      BY <2>1, <3>6, <3>8, <3>9, <3>10, <3>11 DEF Queue!Put, Queue!Result, Result
    <3>13. call.tmp \in 0 .. MaxSize
      BY <3>1
    <3> QED
      BY <3>6, <3>12, <3>13 DEF Queue!Next
  <2>3. CASE GetOK
    <3>1. /\ call.op = "get" /\ call.i = call.tmp /\ call.tmp \in 1 .. MaxSize
          /\ call.cbuf \in Seq(Bytes) /\ Len(call.cbuf) = call.tmp
      BY <1>14, <2>3 DEF ReturnBuf, GetOK, Calls
    <3>2. QueueNow = call.cbuf \o C
      BY <3>1 DEF QueueNow
    <3>3. /\ SubSeq(QueueNow, 1, call.tmp) = call.cbuf
          /\ SubSeq(QueueNow, call.tmp + 1, Len(QueueNow)) = C
      BY <1>1, <3>1, <3>2, Parts
    <3>4. Len(QueueNow) = call.tmp + L
      <4>1. Len(call.cbuf \o C) = Len(call.cbuf) + Len(C)
        BY <1>1, <3>1, ConcatProperties
      <4> QED
        BY <1>1, <3>1, <3>2, <4>1
    <3>5. call.tmp # 0 /\ call.tmp <= Len(QueueNow) /\ call.tmp \in 0 .. MaxSize
      BY <1>1, <3>1, <3>4
    <3>6. Queue!Get(call.tmp)
      BY <2>1, <3>1, <3>3, <3>5 DEF Queue!Get, Queue!Result, Result
    <3> QED
      BY <3>5, <3>6 DEF Queue!Next
  <2>4. PutOK \/ GetOK
    BY <1>14 DEF ReturnBuf, Idle, IInv
  <2> QED
    BY <2>2, <2>3, <2>4
<1>15. CASE UNCHANGED iobufVars
  BY <1>15 DEF iobufVars, QueueNow
<1> QED
  BY <1>5, <1>6, <1>7, <1>8, <1>9, <1>10, <1>11, <1>12, <1>13, <1>14, <1>15 DEF Next

(* The ring buffer of iobuf.c is a queue, for every size of the buffer and *)
(* of the transfers: bytes come out in the order they went in, a transfer  *)
(* is all or nothing, and it fails only for want of room or of bytes.      *)
THEOREM RingImplementsQueue == Spec => RingIsQueue
<1>1. Init => Queue!Init
  BY IOBufAssumption, EmptiedRing
  DEF Init, Queue!Init, QueueNow, NoCall, Zeroed, Queue!Result, Result
<1>2. IInv /\ IInv' /\ [Next]_iobufVars => [Queue!Next]_<<QueueNow, returned>>
  BY StepRefines
<1> QED
  BY <1>1, <1>2, Invariance, PTL DEF Spec, RingIsQueue, Queue!Spec
=============================================================================
