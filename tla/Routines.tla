------------------------------ MODULE Routines ------------------------------
(***************************************************************************)
(* The routines that keep no state between threads: the ring buffer        *)
(* (IOBuf), the packets (Packets) and the hints (Hints).  A behaviour      *)
(* either uses a ring buffer, as long as it likes, or is one call of a     *)
(* function on an input that is chosen at the start.                       *)
(***************************************************************************)
EXTENDS IOBuf, Packets, Hints

CONSTANTS
  Serials,      \* the serials in packets
  Payloads,     \* the bytes in packets
  Enumerations, \* the descriptions in an answer
  Sources,      \* the hints
  Lengths       \* the lengths of the buffer for the value of a hint

ASSUME RoutinesAssumption ==
  /\ Serials \subseteq Word
  /\ Payloads \subseteq Seq(Byte)
  /\ \A descriptions \in Enumerations :
       /\ descriptions \in Seq([1 .. DeviceDescription -> Byte])
       /\ Len(descriptions) \in Word
  /\ Sources \subseteq Seq(STRING)
  /\ Lengths \subseteq Nat

VARIABLE input

Ring == [of |-> "ring"]
Inputs ==
  {Ring}
    \cup [of : {"packet"}, serial : Serials, bytes : Payloads]
    \cup [of : {"enumeration"}, descriptions : Enumerations]
    \cup [of : {"hints"}, source : Sources]

RoutinesInit == Init /\ input \in Inputs

RoutinesNext == input = Ring /\ Next /\ UNCHANGED input

RoutinesSpec == RoutinesInit /\ [][RoutinesNext]_<<iobufVars, input>>

-----------------------------------------------------------------------------
(* Each side reads from a packet what the other side wrote: the two lay    *)
(* their packets out independently, with positions written as numbers.     *)
PacketsReadBack ==
  /\ input.of = "packet" =>
       /\ RequestsReadBack(input.serial, input.bytes)
       /\ AnswersReadBack(input.serial, input.bytes)
  /\ input.of = "enumeration" => DescriptionsReadBack(input.descriptions)

(* read_hints and find_key read the format of their comment, "key1=val1",  *)
(* a line each, blanks around keys and values ignored and the last line    *)
(* for a key counting.  No source, not even one that begins with a break,  *)
(* makes them lose or mix up any other line.                               *)
HintsAsDocumented ==
  input.of = "hints" => \A length \in Lengths : FoundAsDocumented(input.source, length)
=============================================================================
