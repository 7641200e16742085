--------------------------- MODULE RevealerProofs ---------------------------
(***************************************************************************)
(* Theorems about Revealer for any number of answers and any first size of *)
(* the array of at least two: from two on, half as many again is more.     *)
(***************************************************************************)
EXTENDS Revealer, TLAPS

Array ==
  /\ addresses \in [0 .. allocated_count - 1 -> {"unset", "address"}]
  /\ count <= allocated_count
  /\ \A i \in 0 .. count - 1 : addresses[i] = "address"
  /\ "string" \notin lost

Sizes ==
  /\ structure = "live" => allocated_count >= 2
  /\ structure = "none" => allocated_count = 0 /\ count = 0
  /\ pc = "receive" => structure = "live"

Socket == sock = "open" => pc \notin {"idle", "socket"}

IInv == TypeOK /\ Array /\ Sizes /\ Socket

-----------------------------------------------------------------------------
(* Before an address is stored there is room for it: the array is as it    *)
(* was or has grown, and the addresses it holds are kept.                  *)
LEMMA RoomForOne ==
  ASSUME IInv, structure = "live"
  PROVE  /\ Room.allocated_count \in Nat
         /\ Room.allocated_count >= 2
         /\ count < Room.allocated_count
         /\ Room.addresses \in [0 .. Room.allocated_count - 1 -> {"unset", "address"}]
         /\ \A i \in 0 .. count - 1 : Room.addresses[i] = "address"
         /\ Room.lost = lost
<1> USE DEF IInv, TypeOK, Array, Sizes
<1>1. CASE count < allocated_count
  BY <1>1 DEF Room, AsItIs
<1>2. CASE count = allocated_count
  <2> DEFINE n == (3 * allocated_count) \div 2
  <2>1. n \in Nat /\ n > allocated_count
    OBVIOUS
  <2>2. Room = Grown
    BY <1>2 DEF Room
  <2>3. Grown.allocated_count = n
    BY DEF Grown
  <2>4. Grown.addresses = [i \in 0 .. n - 1 |-> IF i < count THEN addresses[i] ELSE "unset"]
    BY DEF Grown, Strings
  <2>5. Grown.lost = lost
    BY <1>2 DEF Grown
  <2> HIDE DEF n
  <2>6. Grown.addresses \in [0 .. n - 1 -> {"unset", "address"}]
    BY <1>2, <2>1, <2>4
  <2>7. \A i \in 0 .. count - 1 : Grown.addresses[i] = "address"
    BY <1>2, <2>1, <2>4
  <2> QED
    BY <1>2, <2>1, <2>2, <2>3, <2>5, <2>6, <2>7
<1> QED
  BY <1>1, <1>2

(* The array, its size and the pointer of the program stay in step.        *)
THEOREM Invariance == RevealerSpec => []IInv
<1> USE RevealerAssumption DEF RevealerAssumption
<1>1. RevealerInit => IInv
  BY DEF RevealerInit, IInv, TypeOK, Array, Sizes, Socket
<1>2. IInv /\ [RevealerNext]_revealerVars => IInv'
  <2> SUFFICES ASSUME IInv, [RevealerNext]_revealerVars
               PROVE  IInv'
    OBVIOUS
  <2> USE DEF IInv, TypeOK, Array, Sizes, Socket, memory
  <2>1. CASE Search
    BY <2>1 DEF Search
  <2>2. CASE CreateSocket \/ CreateSocketFails
    BY <2>2 DEF CreateSocket, CreateSocketFails
  <2>3. CASE SetOptions \/ BindSocket \/ SendMessage \/ Silence
    BY <2>3 DEF SetOptions, BindSocket, SendMessage, Silence, Proceeds
  <2>4. CASE GiveUp \/ CloseSocket
    BY <2>4 DEF GiveUp, CloseSocket
  <2>5. CASE AllocateMemory
    BY <2>5 DEF AllocateMemory, Strings
  <2>6. CASE ReceiveResponse
    <3>1. structure = "live"
      BY <2>6 DEF ReceiveResponse
    <3>2. /\ allocated_count' \in Nat /\ allocated_count' >= 2
          /\ count' = count + 1 /\ count' <= allocated_count'
          /\ lost' = lost
      BY <2>6, <3>1, RoomForOne DEF ReceiveResponse
    <3>3. /\ addresses' \in [0 .. allocated_count' - 1 -> {"unset", "address"}]
          /\ \A i \in 0 .. count' - 1 : addresses'[i] = "address"
      BY <2>6, <3>1, RoomForOne DEF ReceiveResponse
    <3> QED
      BY <2>6, <3>1, <3>2, <3>3 DEF ReceiveResponse
  <2>7. CASE FreeMemory
    BY <2>7 DEF FreeMemory
  <2>8. CASE UNCHANGED revealerVars
    BY <2>8 DEF revealerVars
  <2> QED
    BY <2>1, <2>2, <2>3, <2>4, <2>5, <2>6, <2>7, <2>8 DEF RevealerNext
<1> QED
  BY <1>1, <1>2, PTL DEF RevealerSpec

(* saveAddress never writes past the array, however many hosts answer.     *)
THEOREM Saved == RevealerSpec => []AddressesSaved
<1>1. IInv => AddressesSaved
  BY DEF IInv, TypeOK, Array, AddressesSaved
<1> QED
  BY <1>1, Invariance, PTL

(* No string is dropped when the array grows or missed when it is freed.   *)
THEOREM Kept == RevealerSpec => []NoStringLost
<1>1. IInv => NoStringLost
  BY DEF IInv, Array, NoStringLost
<1> QED
  BY <1>1, Invariance, PTL

(* The search closes its socket whichever of its calls fails.              *)
THEOREM Closed == RevealerSpec => []SocketClosed
<1>1. IInv => SocketClosed
  BY DEF IInv, TypeOK, Socket, SocketClosed
<1> QED
  BY <1>1, Invariance, PTL
=============================================================================
