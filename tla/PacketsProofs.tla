---------------------------- MODULE PacketsProofs ----------------------------
(***************************************************************************)
(* The two programs read each other's packets, for every serial of 32      *)
(* bits, every payload, and every list of structures that can be counted.  *)
(***************************************************************************)
EXTENDS Routines, SequenceTheorems, TLAPS

(* Packets of n bytes.                                                     *)
Packet(n) == [1 .. n -> Byte]

-----------------------------------------------------------------------------
(* A packet is a sequence of that length.                                  *)
LEMMA PacketIsSeq ==
  ASSUME NEW n \in Nat, NEW data \in Packet(n)
  PROVE  data \in Seq(Byte) /\ Len(data) = n
<1>1. data = [i \in 1 .. n |-> data[i]]
  BY DEF Packet
<1>2. data \in Seq(Byte)
  BY DEF Packet
<1> QED
  BY <1>1, <1>2, LenProperties DEF Packet

(* The structures of structs.h have 24 and 180 bytes.                      *)
LEMMA StructSizes == CommonHeader = 24 /\ DeviceDescription = 180
BY DEF CommonHeader, DeviceDescription, MyDevice, MyCname, MySname

(* A number of 32 bits is what its four bytes say.                         *)
LEMMA FourBytes ==
  ASSUME NEW value \in Word
  PROVE  /\ value \div 16777216 \in Byte /\ (value \div 65536) % 256 \in Byte
         /\ (value \div 256) % 256 \in Byte /\ value % 256 \in Byte
         /\ value = 16777216 * (value \div 16777216) + 65536 * ((value \div 65536) % 256)
                      + 256 * ((value \div 256) % 256) + (value % 256)
<1>1. value \in Nat /\ value \div 16777216 \in Byte
  BY DEF Word
<1>2. value \div 65536 \in Nat /\ value \div 256 \in Nat
  BY <1>1
<1>3. \A m \in Nat : m % 256 \in Byte /\ m = 256 * (m \div 256) + (m % 256)
  BY DEF Byte
<1>4. /\ (value \div 256) \div 256 = value \div 65536
      /\ (value \div 65536) \div 256 = value \div 16777216
  BY <1>1
<1>5. /\ value = 256 * (value \div 256) + (value % 256)
      /\ value \div 256 = 256 * (value \div 65536) + ((value \div 256) % 256)
      /\ value \div 65536 = 256 * (value \div 16777216) + ((value \div 65536) % 256)
  BY <1>1, <1>2, <1>3, <1>4
<1>6. /\ (value \div 65536) % 256 \in Byte
      /\ (value \div 256) % 256 \in Byte /\ value % 256 \in Byte
  BY <1>1, <1>2, <1>3
<1>7. /\ value \div 16777216 \in Int /\ (value \div 65536) % 256 \in Int
      /\ (value \div 256) % 256 \in Int /\ value % 256 \in Int
  BY <1>1, <1>6 DEF Byte
<1>8. \A v, x, y, z, i, j, k \in Int :
        v = 256 * x + k /\ x = 256 * y + j /\ y = 256 * z + i
          => v = 16777216 * z + 65536 * i + 256 * j + k
  OBVIOUS
<1> QED
  BY <1>1, <1>2, <1>5, <1>6, <1>7, <1>8

(* Four bytes are written, and the others are as they were.                *)
LEMMA WriteReadBack ==
  ASSUME NEW n \in Nat, NEW data \in Packet(n), NEW p \in Nat, p + 4 <= n, NEW value \in Word
  PROVE  /\ write_uint32(data, p, value) \in Packet(n)
         /\ read_uint32(write_uint32(data, p, value), p) = value
         /\ \A i \in 1 .. n : i \notin p + 1 .. p + 4 =>
              write_uint32(data, p, value)[i] = data[i]
<1> DEFINE bytes == <<value \div 16777216, (value \div 65536) % 256,
                      (value \div 256) % 256, value % 256>>
           new == write_uint32(data, p, value)
<1>1. /\ Len(bytes) = 4 /\ \A j \in 1 .. 4 : bytes[j] \in Byte
      /\ 16777216 * bytes[1] + 65536 * bytes[2] + 256 * bytes[3] + bytes[4] = value
  BY FourBytes
<1>2. new = [i \in DOMAIN data |->
               IF i \in p + 1 .. p + Len(bytes) THEN bytes[i - p] ELSE data[i]]
  BY DEF write_uint32, write_bytes
<1> HIDE DEF bytes, new
<1>3. DOMAIN data = 1 .. n /\ \A i \in 1 .. n : data[i] \in Byte
  BY DEF Packet
<1>4. /\ \A i \in p + 1 .. p + 4 : new[i] = bytes[i - p] /\ i - p \in 1 .. 4
      /\ \A i \in 1 .. n : i \notin p + 1 .. p + 4 => new[i] = data[i]
  BY <1>1, <1>2, <1>3
<1>5. new \in Packet(n)
  BY <1>1, <1>2, <1>3 DEF Packet
<1>6. read_uint32(new, p) = value
  <2>1. /\ new[p + 1] = bytes[1] /\ new[p + 2] = bytes[2]
        /\ new[p + 3] = bytes[3] /\ new[p + 4] = bytes[4]
    BY <1>4
  <2> QED
    BY <1>1, <2>1 DEF read_uint32
<1> QED
  BY <1>4, <1>5, <1>6 DEF new

(* The header of a packet that has nothing else in it yet.                 *)
LEMMA HeaderFacts ==
  ASSUME NEW n \in Nat, n >= 16, NEW type \in Word, NEW word \in Word
  PROVE  /\ Header(n, type, word) \in Packet(n)
         /\ read_uint32(Header(n, type, word), 0) = CURRENT_PROTOCOL_VERSION
         /\ read_uint32(Header(n, type, word), 4) = type
         /\ read_uint32(Header(n, type, word), 12) = word
         /\ \A i \in 17 .. n : Header(n, type, word)[i] = 0
<1>1. Zeros(n) \in Packet(n) /\ \A i \in 1 .. n : Zeros(n)[i] = 0
  BY DEF Zeros, Packet, Byte
<1>2. CURRENT_PROTOCOL_VERSION \in Word
  BY DEF CURRENT_PROTOCOL_VERSION, Word, Byte
<1>3. PICK version : version = write_uint32(Zeros(n), 0, CURRENT_PROTOCOL_VERSION)
  OBVIOUS
<1>4. /\ version \in Packet(n)
      /\ read_uint32(version, 0) = CURRENT_PROTOCOL_VERSION
      /\ \A i \in 17 .. n : version[i] = 0
  BY <1>1, <1>2, <1>3, WriteReadBack
<1>5. PICK typed : typed = write_uint32(version, 4, type)
  OBVIOUS
<1>6. /\ typed \in Packet(n)
      /\ read_uint32(typed, 4) = type
      /\ \A i \in 1 .. n : i \notin 5 .. 8 => typed[i] = version[i]
  BY <1>4, <1>5, WriteReadBack
<1>7. PICK header : header = write_uint32(typed, 12, word)
  OBVIOUS
<1>8. /\ header \in Packet(n)
      /\ read_uint32(header, 12) = word
      /\ \A i \in 1 .. n : i \notin 13 .. 16 => header[i] = typed[i]
  BY <1>6, <1>7, WriteReadBack
<1>9. /\ read_uint32(header, 0) = read_uint32(version, 0)
      /\ read_uint32(header, 4) = read_uint32(typed, 4)
  BY <1>6, <1>8 DEF read_uint32
<1>10. \A i \in 17 .. n : header[i] = 0
  BY <1>4, <1>6, <1>8
<1>11. header = Header(n, type, word)
  BY <1>3, <1>5, <1>7 DEF Header
<1> QED
  BY <1>4, <1>6, <1>8, <1>9, <1>10, <1>11

(* What follows the first p bytes of a packet is what was written there,   *)
(* and the header before is read as it was written.                        *)
LEMMA PayloadReadBack ==
  ASSUME NEW p \in Nat, p >= 16, NEW bytes \in Seq(Byte),
         NEW header \in Packet(p + Len(bytes))
  PROVE  LET data == write_bytes(header, p, bytes)
         IN  /\ data \in Packet(p + Len(bytes))
             /\ \A q \in {0, 4, 12} : read_uint32(data, q) = read_uint32(header, q)
             /\ SubSeq(data, p + 1, Len(data)) = bytes
<1> DEFINE data == write_bytes(header, p, bytes)
<1>1. PICK n \in Nat : n = Len(bytes) /\ \A i \in 1 .. n : bytes[i] \in Byte
  BY LenProperties
<1>2. DOMAIN header = 1 .. p + n /\ \A i \in 1 .. p + n : header[i] \in Byte
  BY <1>1 DEF Packet
<1>3. data = [i \in 1 .. p + n |-> IF i \in p + 1 .. p + n THEN bytes[i - p] ELSE header[i]]
  BY <1>1, <1>2 DEF write_bytes
<1> HIDE DEF data
<1>4. /\ \A i \in 1 .. p : data[i] = header[i]
      /\ \A i \in 1 .. n : p + i \in 1 .. p + n /\ data[p + i] = bytes[i]
  BY <1>1, <1>3
<1>5. data \in Packet(p + n)
  BY <1>1, <1>2, <1>3 DEF Packet
<1>6. \A q \in {0, 4, 12} : read_uint32(data, q) = read_uint32(header, q)
  BY <1>4 DEF read_uint32
<1>7. Len(data) = p + n
  BY <1>5, PacketIsSeq
<1>8. PICK sub : sub = SubSeq(data, p + 1, p + n)
  OBVIOUS
<1>9. /\ sub \in Seq(Byte) /\ Len(sub) = n
      /\ \A i \in 1 .. n : sub[i] = data[p + i]
  <2>1. \A i \in p + 1 .. p + n : data[i] \in Byte
    BY <1>1, <1>5 DEF Packet
  <2>2. /\ sub \in Seq(Byte)
        /\ Len(sub) = IF p + 1 <= p + n THEN (p + n) - (p + 1) + 1 ELSE 0
        /\ \A i \in 1 .. (p + n) - (p + 1) + 1 : sub[i] = data[p + 1 + i - 1]
    BY <1>1, <1>8, <2>1, SubSeqProperties
  <2> QED
    BY <1>1, <2>2
<1>10. sub = bytes
  BY <1>1, <1>4, <1>9, SeqEqual
<1> QED
  BY <1>1, <1>5, <1>6, <1>7, <1>8, <1>10 DEF data

-----------------------------------------------------------------------------
(* The numbers of the packet types have 32 bits.                           *)
LEMMA TypesAreWords ==
  /\ RawData \in Word /\ OpenDeviceRequest \in Word /\ CloseDeviceRequest \in Word
  /\ EnumerateRequest \in Word /\ DeviceReadWriteErrorNotification \in Word
  /\ EnumerateAnswer \in Word /\ CloseDeviceAnswer \in Word /\ OpenDeviceAnswer \in Word
  /\ 0 \in Word
<1>1. \A n \in 0 .. 255 : n \in Word
  BY DEF Word, Byte
<1> QED
  BY <1>1 DEF RawData, OpenDeviceRequest, CloseDeviceRequest, EnumerateRequest,
     DeviceReadWriteErrorNotification, EnumerateAnswer, CloseDeviceAnswer, OpenDeviceAnswer

(* RawData goes both ways.                                                 *)
LEMMA RawFacts ==
  ASSUME NEW serial \in Word, NEW bytes \in Seq(Byte)
  PROVE  /\ Len(RawPacket(serial, bytes)) >= 16
         /\ read_uint32(RawPacket(serial, bytes), 0) = CURRENT_PROTOCOL_VERSION
         /\ read_uint32(RawPacket(serial, bytes), 4) = RawData
         /\ read_uint32(RawPacket(serial, bytes), 12) = serial
         /\ Payload(RawPacket(serial, bytes)) = bytes
<1>1. PICK n \in Nat : n = Len(bytes)
  BY LenProperties
<1>2. PICK header : header = Header(24 + n, RawData, serial)
  OBVIOUS
<1>3. /\ header \in Packet(24 + n)
      /\ read_uint32(header, 0) = CURRENT_PROTOCOL_VERSION
      /\ read_uint32(header, 4) = RawData
      /\ read_uint32(header, 12) = serial
  BY <1>1, <1>2, HeaderFacts, TypesAreWords
<1>4. PICK data : data = write_bytes(header, 24, bytes)
  OBVIOUS
<1>5. /\ data \in Packet(24 + n)
      /\ \A q \in {0, 4, 12} : read_uint32(data, q) = read_uint32(header, q)
      /\ SubSeq(data, 24 + 1, Len(data)) = bytes
  BY <1>1, <1>3, <1>4, PayloadReadBack
<1>6. data = RawPacket(serial, bytes)
  BY <1>1, <1>2, <1>4, StructSizes DEF RawPacket
<1>7. Len(data) = 24 + n
  BY <1>1, <1>5, PacketIsSeq
<1> QED
  BY <1>1, <1>3, <1>5, <1>6, <1>7, StructSizes DEF Payload

(* A packet that is a header and zeros.                                    *)
LEMMA PlainFacts ==
  ASSUME NEW n \in Nat, n >= 16, NEW type \in Word, NEW word \in Word
  PROVE  /\ Len(Header(n, type, word)) = n
         /\ read_uint32(Header(n, type, word), 0) = CURRENT_PROTOCOL_VERSION
         /\ read_uint32(Header(n, type, word), 4) = type
         /\ read_uint32(Header(n, type, word), 12) = word
BY HeaderFacts, PacketIsSeq

(* What the server reads from such a packet, and the client.               *)
LEMMA PlainRequest ==
  ASSUME NEW n \in Nat, n >= 16, NEW type \in Word, type # RawData, NEW word \in Word
  PROVE  server_reads(Header(n, type, word)) =
           IF type \in {OpenDeviceRequest, CloseDeviceRequest}
             THEN [type |-> type, serial |-> word]
             ELSE [type |-> type]
<1>1. PICK data : data = Header(n, type, word)
  OBVIOUS
<1>2. /\ ~(Len(data) < 16) /\ read_uint32(data, 0) = CURRENT_PROTOCOL_VERSION
      /\ read_uint32(data, 4) = type /\ read_uint32(data, 12) = word
  BY <1>1, PlainFacts
<1>3. server_reads(data) =
        IF type \in {OpenDeviceRequest, CloseDeviceRequest}
          THEN [type |-> type, serial |-> word]
          ELSE [type |-> type]
  BY <1>2, Zenon DEF server_reads
<1> QED
  BY <1>1, <1>3

LEMMA PlainAnswer ==
  ASSUME NEW n \in Nat, n >= 16, NEW type \in Word, NEW word \in Word,
         type \notin {RawData, OpenDeviceAnswer, EnumerateAnswer}
  PROVE  client_reads(Header(n, type, word)) = [type |-> type]
BY PlainFacts DEF client_reads

(* Whatever the client asks, the server reads what was asked, of whom, and *)
(* with which bytes.                                                       *)
THEOREM RequestsRead ==
  ASSUME NEW serial \in Word, NEW bytes \in Seq(Byte)
  PROVE  RequestsReadBack(serial, bytes)
<1>1. server_reads(RawPacket(serial, bytes)) =
        [type |-> RawData, serial |-> serial, bytes |-> bytes]
  BY RawFacts, LenProperties DEF server_reads
<1>2. /\ server_reads(OpenRequest(serial)) = [type |-> OpenDeviceRequest, serial |-> serial]
      /\ server_reads(CloseRequest(serial)) = [type |-> CloseDeviceRequest, serial |-> serial]
  <2>1. PICK n \in Nat : n = 24
    OBVIOUS
  <2>2. OpenDeviceRequest # RawData /\ CloseDeviceRequest # RawData
    BY DEF OpenDeviceRequest, CloseDeviceRequest, RawData
  <2>3. /\ OpenRequest(serial) = Header(n, OpenDeviceRequest, serial)
        /\ CloseRequest(serial) = Header(n, CloseDeviceRequest, serial)
    BY <2>1, StructSizes DEF OpenRequest, CloseRequest
  <2> QED
    BY <2>1, <2>2, <2>3, PlainRequest, TypesAreWords
<1>3. server_reads(EnumRequest) = [type |-> EnumerateRequest]
  <2>1. PICK n \in Nat : n = 28
    OBVIOUS
  <2>2. EnumerateRequest \notin {RawData, OpenDeviceRequest, CloseDeviceRequest}
    BY DEF OpenDeviceRequest, CloseDeviceRequest, RawData, EnumerateRequest
  <2>3. EnumRequest = Header(n, EnumerateRequest, 0)
    BY <2>1 DEF EnumRequest
  <2> QED
    BY <2>1, <2>2, <2>3, PlainRequest, TypesAreWords
<1> QED
  BY <1>1, <1>2, <1>3 DEF RequestsReadBack

(* Whatever the server answers, the client reads what was answered: the    *)
(* byte that says whether a device was opened lies where it is looked for. *)
THEOREM AnswersRead ==
  ASSUME NEW serial \in Word, NEW bytes \in Seq(Byte)
  PROVE  AnswersReadBack(serial, bytes)
<1>0. /\ RawData \notin {OpenDeviceAnswer, EnumerateAnswer} /\ OpenDeviceAnswer # EnumerateAnswer
      /\ CloseDeviceAnswer \notin {RawData, OpenDeviceAnswer, EnumerateAnswer}
      /\ DeviceReadWriteErrorNotification \notin {RawData, OpenDeviceAnswer, EnumerateAnswer}
  BY SMT DEF RawData, OpenDeviceAnswer, EnumerateAnswer, CloseDeviceAnswer,
     DeviceReadWriteErrorNotification
<1>1. client_reads(RawPacket(serial, bytes)) = [type |-> RawData, bytes |-> bytes]
  BY <1>0, RawFacts DEF client_reads
<1>2. ASSUME NEW ok \in BOOLEAN
      PROVE  client_reads(OpenAnswer(serial, ok)) =
               [type |-> OpenDeviceAnswer, serial |-> serial, open_ok |-> ok]
  <2>0. PICK n \in Nat : n = 28
    OBVIOUS
  <2>1. PICK header : header = Header(n, OpenDeviceAnswer, serial)
    OBVIOUS
  <2>2. /\ header \in Packet(n)
        /\ read_uint32(header, 4) = OpenDeviceAnswer
        /\ read_uint32(header, 12) = serial
    BY <2>0, <2>1, HeaderFacts, TypesAreWords
  <2>3. PICK bit \in {0, 1} : bit = (IF ok THEN 1 ELSE 0) /\ (ok <=> bit # 0)
    OBVIOUS
  <2>4. PICK data : data = write_bytes(header, n - 1, <<bit>>)
    OBVIOUS
  <2>5. data = [i \in 1 .. n |-> IF i \in n - 1 + 1 .. n - 1 + Len(<<bit>>)
                                   THEN <<bit>>[i - (n - 1)] ELSE header[i]]
    BY <2>2, <2>4 DEF write_bytes, Packet
  <2>6. data[n] = bit /\ \A i \in 1 .. n - 1 : data[i] = header[i]
    BY <2>0, <2>5
  <2>7. /\ read_uint32(data, 4) = read_uint32(header, 4)
        /\ read_uint32(data, 12) = read_uint32(header, 12)
    <3>1. n - 1 \in Int /\ 16 <= n - 1
      BY <2>0
    <3>2. \A i \in 1 .. 16 : i \in 1 .. n - 1
      BY <3>1
    <3>3. \A i \in 1 .. 16 : data[i] = header[i]
      BY <2>6, <3>2
    <3> QED
      BY <3>3, SMT DEF read_uint32
  <2>8. data = OpenAnswer(serial, ok)
    BY <2>0, <2>1, <2>3, <2>4, StructSizes DEF OpenAnswer, write_bool
  <2>9. (data[27 + 1] # 0) = ok
    <3>1. 27 + 1 = n
      BY <2>0
    <3> QED
      BY <2>3, <2>6, <3>1
  <2> QED
    BY <1>0, <2>2, <2>7, <2>8, <2>9 DEF client_reads
<1>3. /\ client_reads(CloseAnswer(serial)) = [type |-> CloseDeviceAnswer]
      /\ client_reads(ErrorNotification(serial)) = [type |-> DeviceReadWriteErrorNotification]
  <2>1. PICK n \in Nat : n = 24
    OBVIOUS
  <2>2. /\ CloseAnswer(serial) = Header(n + 4, CloseDeviceAnswer, serial)
        /\ ErrorNotification(serial) = Header(n, DeviceReadWriteErrorNotification, serial)
    BY <2>1, StructSizes DEF CloseAnswer, ErrorNotification
  <2> QED
    BY <1>0, <2>1, <2>2, PlainAnswer, TypesAreWords
<1> QED
  BY <1>1, <1>2, <1>3 DEF AnswersReadBack

(* Byte j of structure i in the memory of the server.                      *)
LEMMA StructBytesFacts ==
  ASSUME NEW descriptions \in Seq(Packet(DeviceDescription))
  PROVE  /\ StructBytes(descriptions) \in Packet(DeviceDescription * Len(descriptions))
         /\ \A i \in 1 .. Len(descriptions), j \in 1 .. DeviceDescription :
              /\ (i - 1) * DeviceDescription + j \in 1 .. DeviceDescription * Len(descriptions)
              /\ StructBytes(descriptions)[(i - 1) * DeviceDescription + j] = descriptions[i][j]
<1>1. PICK n \in Nat : n = Len(descriptions)
  BY LenProperties
<1>2. \A i \in 1 .. n : \A j \in 1 .. 180 : descriptions[i][j] \in Byte
  <2>1. \A i \in 1 .. n : descriptions[i] \in Packet(180)
    BY <1>1, StructSizes, ElementOfSeq
  <2> QED
    BY <2>1 DEF Packet
<1>3. PICK D \in Nat : D = 180
  OBVIOUS
<1>4. \A k \in 1 .. D * n : /\ ((k - 1) \div D) + 1 \in 1 .. n
                             /\ ((k - 1) % D) + 1 \in 1 .. 180
  BY <1>3
<1>5. \A i \in 1 .. n : \A j \in 1 .. D :
        /\ (i - 1) * D + j \in 1 .. D * n
        /\ (((i - 1) * D + j - 1) \div D) + 1 = i
        /\ (((i - 1) * D + j - 1) % D) + 1 = j
  BY <1>3
<1>6. PICK memory : memory = StructBytes(descriptions)
  OBVIOUS
<1>7. memory = [k \in 1 .. D * n |-> descriptions[((k - 1) \div D) + 1][((k - 1) % D) + 1]]
  BY <1>1, <1>3, <1>6, StructSizes DEF StructBytes
<1>8. memory \in Packet(D * n)
  BY <1>2, <1>4, <1>7 DEF Packet
<1>9. ASSUME NEW i \in 1 .. n, NEW j \in 1 .. D
      PROVE  /\ (i - 1) * D + j \in 1 .. D * n
             /\ memory[(i - 1) * D + j] = descriptions[i][j]
  <2>1. PICK k \in 1 .. D * n :
          k = (i - 1) * D + j /\ ((k - 1) \div D) + 1 = i /\ ((k - 1) % D) + 1 = j
    BY <1>5
  <2>2. memory[k] = descriptions[((k - 1) \div D) + 1][((k - 1) % D) + 1]
    BY <1>7
  <2> QED
    BY <2>1, <2>2
<1>10. D = DeviceDescription
  BY <1>3, StructSizes
<1> QED
  BY <1>1, <1>6, <1>8, <1>9, <1>10

(* Whatever an enumeration has found, the client finds structure i where   *)
(* it looks for it, and as many of them as the answer says.                *)
THEOREM DescriptionsRead ==
  ASSUME NEW descriptions \in Seq(Packet(DeviceDescription)), Len(descriptions) \in Word
  PROVE  DescriptionsReadBack(descriptions)
<1>1. PICK n \in Nat : n = Len(descriptions)
  BY LenProperties
<1>2. PICK D \in Nat : D = DeviceDescription
  BY StructSizes
<1>3. PICK size \in Nat : size = D * n
  OBVIOUS
<1>4. PICK memory : memory = StructBytes(descriptions)
  OBVIOUS
<1>5. /\ memory \in Packet(size) /\ memory \in Seq(Byte) /\ Len(memory) = size
      /\ \A i \in 1 .. n, j \in 1 .. D :
           (i - 1) * D + j \in 1 .. size /\ memory[(i - 1) * D + j] = descriptions[i][j]
  BY <1>1, <1>2, <1>3, <1>4, StructBytesFacts, PacketIsSeq
<1>6. PICK header : header = Header(16 + size, EnumerateAnswer, n)
  OBVIOUS
<1>7. /\ header \in Packet(16 + size)
      /\ read_uint32(header, 4) = EnumerateAnswer
      /\ read_uint32(header, 12) = n
  BY <1>1, <1>6, HeaderFacts, TypesAreWords
<1>8. PICK data : data = write_bytes(header, 16, memory)
  OBVIOUS
<1>9. /\ read_uint32(data, 4) = EnumerateAnswer
      /\ read_uint32(data, 12) = n
      /\ SubSeq(data, 16 + 1, Len(data)) = memory
  BY <1>5, <1>7, <1>8, PayloadReadBack
<1>10. data = EnumAnswer(descriptions)
  BY <1>1, <1>2, <1>3, <1>4, <1>6, <1>8 DEF EnumAnswer
<1>11. EnumerateAnswer \notin {RawData, OpenDeviceAnswer}
  BY SMT DEF EnumerateAnswer, RawData, OpenDeviceAnswer
<1>12. client_reads(data) = [type |-> EnumerateAnswer, devices |-> n, ptr |-> memory]
  BY <1>9, <1>11 DEF client_reads
<1>13. ASSUME NEW i \in 1 .. n
       PROVE  SubSeq(memory, (i - 1) * D + 1, i * D) = descriptions[i]
  <2>1. PICK first \in Nat : first = (i - 1) * D + 1
    OBVIOUS
  <2>2. PICK last \in Nat : last = i * D
    OBVIOUS
  <2>3. last - first + 1 = D /\ D > 0
    BY <1>2, <2>1, <2>2, StructSizes
  <2>4. \A j \in 1 .. D : first + j - 1 \in 1 .. size /\ memory[first + j - 1] = descriptions[i][j]
    BY <1>5, <2>1
  <2>5. \A k \in first .. last : memory[k] \in Byte
    <3>1. ASSUME NEW k \in first .. last
          PROVE  memory[k] \in Byte
      <4>1. PICK j \in 1 .. D : k = first + j - 1
        BY <2>3
      <4> QED
        BY <1>5, <2>4, <4>1 DEF Packet
    <3> QED
      BY <3>1
  <2>6. PICK sub : sub = SubSeq(memory, first, last)
    OBVIOUS
  <2>7. /\ sub \in Seq(Byte) /\ Len(sub) = D
        /\ \A j \in 1 .. D : sub[j] = descriptions[i][j]
    <3>1. /\ sub \in Seq(Byte)
          /\ Len(sub) = IF first <= last THEN last - first + 1 ELSE 0
          /\ \A j \in 1 .. last - first + 1 : sub[j] = memory[first + j - 1]
      BY <2>5, <2>6, SubSeqProperties
    <3> QED
      BY <2>3, <2>4, <3>1
  <2>8. descriptions[i] \in Packet(D)
    BY <1>1, <1>2, ElementOfSeq
  <2>9. descriptions[i] \in Seq(Byte) /\ Len(descriptions[i]) = D
    BY <2>8, PacketIsSeq
  <2>10. sub = descriptions[i]
    BY <2>7, <2>9, SeqEqual
  <2> QED
    BY <2>1, <2>2, <2>6, <2>10
<1>14. DOMAIN descriptions = 1 .. n
  BY <1>1, LenProperties
<1>15. n * D = size
  BY <1>3
<1> QED
  BY <1>1, <1>2, <1>5, <1>10, <1>12, <1>13, <1>14, <1>15 DEF DescriptionsReadBack

(* No packet is read otherwise than it was written.                        *)
THEOREM PacketsRead == RoutinesSpec => []PacketsReadBack
<1> DEFINE Chosen == input \in Inputs
<1>1. RoutinesInit => Chosen
  BY DEF RoutinesInit
<1>2. Chosen /\ [RoutinesNext]_<<iobufVars, input>> => Chosen'
  BY DEF RoutinesNext, Inputs, Ring
<1>3. Chosen => PacketsReadBack
  <2> SUFFICES ASSUME Chosen
               PROVE  PacketsReadBack
    OBVIOUS
  <2>1. CASE input \in [of : {"packet"}, serial : Serials, bytes : Payloads]
    <3>1. input.of = "packet" /\ input.serial \in Word /\ input.bytes \in Seq(Byte)
      BY <2>1, RoutinesAssumption
    <3> QED
      BY <3>1, RequestsRead, AnswersRead DEF PacketsReadBack
  <2>2. CASE input \in [of : {"enumeration"}, descriptions : Enumerations]
    <3>1. /\ input.of = "enumeration"
          /\ input.descriptions \in Seq(Packet(DeviceDescription))
          /\ Len(input.descriptions) \in Word
      BY <2>2, RoutinesAssumption DEF Packet
    <3> QED
      BY <3>1, DescriptionsRead DEF PacketsReadBack
  <2>3. CASE input.of \in {"ring", "hints"}
    BY <2>3 DEF PacketsReadBack
  <2> QED
    BY <2>1, <2>2, <2>3 DEF Inputs, Ring
<1> QED
  BY <1>1, <1>2, <1>3, PTL DEF RoutinesSpec
=============================================================================
