------------------------------ MODULE Packets ------------------------------
(***************************************************************************)
(* The packets of exchange protocol version 1, byte by byte: how           *)
(* linux-server.cpp and wrapper.cpp lay them out, and how the other side   *)
(* reads them.  The common header (structs.h) has the version at byte 0,   *)
(* the packet type at 4 and the serial at 12, each most significant byte   *)
(* first; bytes count from 0.                                              *)
(***************************************************************************)
EXTENDS Integers, Sequences

Byte == 0 .. 255

(* Numbers of 32 bits: four bytes are enough for them.                     *)
Word == {n \in Nat : n \div 16777216 \in Byte}

CURRENT_PROTOCOL_VERSION == 1

RawData == 0
OpenDeviceRequest == 1
CloseDeviceRequest == 2
EnumerateRequest == 3
DeviceReadWriteErrorNotification == 4
EnumerateAnswer == 253
CloseDeviceAnswer == 254
OpenDeviceAnswer == 255

(* The sizes of the structures, which are packed: 24 and 180 bytes.        *)
CommonHeader == 4 + 4 + 4 + 4 + 2 * 4
MyDevice == 4 + 2 + 8 + 1 + 1 + 2 + 12
MyCname == 16 + 1 + 7
MySname == 16 + 8
DeviceDescription == 4 + MyDevice + MyCname + MySname + 4 + 4 + 16 + 4 + 16 + 16 + 8 + 30

-----------------------------------------------------------------------------
(* A vector of n zeros, and one with bytes written from p on.              *)
Zeros(n) == [i \in 1 .. n |-> 0]

write_bytes(reply, p, bytes) ==
  [i \in DOMAIN reply |->
     IF i \in p + 1 .. p + Len(bytes) THEN bytes[i - p] ELSE reply[i]]

write_uint32(reply, p, value) ==
  write_bytes(reply, p, <<value \div 16777216, (value \div 65536) % 256,
                          (value \div 256) % 256, value % 256>>)

write_bool(reply, p, value) == write_bytes(reply, p, <<IF value THEN 1 ELSE 0>>)

read_uint32(data, p) ==
  16777216 * data[p + 1] + 65536 * data[p + 2] + 256 * data[p + 3] + data[p + 4]

-----------------------------------------------------------------------------
(* The constructors of DataPacket, and the requests of the client.         *)
Header(len, type, word) ==
  write_uint32(write_uint32(write_uint32(Zeros(len),
    0, CURRENT_PROTOCOL_VERSION), 4, type), 12, word)

RawPacket(serial, bytes) ==
  write_bytes(Header(CommonHeader + Len(bytes), RawData, serial), CommonHeader, bytes)

OpenAnswerAfterHeader(serial, opened_ok) ==  \* faulty variant: the first byte
  LET len == CommonHeader + 4
  IN  write_bool(Header(len, OpenDeviceAnswer, serial), CommonHeader, opened_ok)

OpenAnswer(serial, opened_ok) ==
  LET len == CommonHeader + 4
  IN  write_bool(Header(len, OpenDeviceAnswer, serial), len - 1, opened_ok)

CloseAnswer(serial) == Header(CommonHeader + 4, CloseDeviceAnswer, serial)

ErrorNotification(serial) ==
  Header(CommonHeader, DeviceReadWriteErrorNotification, serial)

(* The structures as they lie in memory, one after the other.              *)
StructBytes(descriptions) ==
  [k \in 1 .. DeviceDescription * Len(descriptions) |->
     descriptions[((k - 1) \div DeviceDescription) + 1][((k - 1) % DeviceDescription) + 1]]

EnumAnswer(descriptions) ==
  write_bytes(
    Header(16 + DeviceDescription * Len(descriptions), EnumerateAnswer, Len(descriptions)),
    16, StructBytes(descriptions))

OpenRequest(serial) == Header(CommonHeader, OpenDeviceRequest, serial)

CloseRequest(serial) == Header(CommonHeader, CloseDeviceRequest, serial)

EnumRequest == Header(7 * 4, EnumerateRequest, 0)

-----------------------------------------------------------------------------
(* What the callbacks read.  What the server does not look at is absent,   *)
(* and one that fails its assertions has no type (-1).                     *)
Payload(data) == SubSeq(data, CommonHeader + 1, Len(data))

server_reads(data) ==
  LET command_code == read_uint32(data, 4) IN
  IF Len(data) < 16 \/ read_uint32(data, 0) # CURRENT_PROTOCOL_VERSION
    THEN [type |-> -1]
  ELSE IF command_code = RawData
    THEN [type |-> RawData, serial |-> read_uint32(data, 12), bytes |-> Payload(data)]
  ELSE IF command_code \in {OpenDeviceRequest, CloseDeviceRequest}
    THEN [type |-> command_code, serial |-> read_uint32(data, 12)]
    ELSE [type |-> command_code]

client_reads(data) ==
  LET command_code == read_uint32(data, 4) IN
  CASE command_code = RawData -> [type |-> RawData, bytes |-> Payload(data)]
    [] command_code = OpenDeviceAnswer ->
         [type |-> OpenDeviceAnswer, serial |-> read_uint32(data, 12),
          open_ok |-> data[27 + 1] # 0]
    [] command_code = EnumerateAnswer ->
         [type |-> EnumerateAnswer, devices |-> read_uint32(data, 12),
          ptr |-> SubSeq(data, 16 + 1, Len(data))]
    [] OTHER -> [type |-> command_code]

-----------------------------------------------------------------------------
(* What was to be said is what is read, for every packet of the protocol.  *)
RequestsReadBack(serial, bytes) ==
  /\ server_reads(RawPacket(serial, bytes)) =
       [type |-> RawData, serial |-> serial, bytes |-> bytes]
  /\ server_reads(OpenRequest(serial)) = [type |-> OpenDeviceRequest, serial |-> serial]
  /\ server_reads(CloseRequest(serial)) = [type |-> CloseDeviceRequest, serial |-> serial]
  /\ server_reads(EnumRequest) = [type |-> EnumerateRequest]

AnswersReadBack(serial, bytes) ==
  /\ client_reads(RawPacket(serial, bytes)) = [type |-> RawData, bytes |-> bytes]
  /\ \A ok \in BOOLEAN :
       client_reads(OpenAnswer(serial, ok)) =
         [type |-> OpenDeviceAnswer, serial |-> serial, open_ok |-> ok]
  /\ client_reads(CloseAnswer(serial)) = [type |-> CloseDeviceAnswer]
  /\ client_reads(ErrorNotification(serial)) = [type |-> DeviceReadWriteErrorNotification]

(* The client finds description i where it expects the structure i.        *)
DescriptionsReadBack(descriptions) ==
  LET read == client_reads(EnumAnswer(descriptions)) IN
  /\ read.type = EnumerateAnswer
  /\ read.devices = Len(descriptions)
  /\ Len(read.ptr) = read.devices * DeviceDescription
  /\ \A i \in DOMAIN descriptions :
       SubSeq(read.ptr, (i - 1) * DeviceDescription + 1, i * DeviceDescription)
         = descriptions[i]
=============================================================================
