------------------------------ MODULE Revealer ------------------------------
(***************************************************************************)
(* revealer_1.cpp: the search for controllers by UDP.  A broadcast is sent *)
(* and the addresses of all hosts that answer are collected in an array    *)
(* that grows, until nothing has come for TIMEOUT_MS.  The program calls   *)
(* with a pointer that is NULL and frees the result before it searches     *)
(* again.  malloc and realloc succeed: the code does not look.             *)
(***************************************************************************)
EXTENDS Integers

CONSTANTS
  FirstCount,  \* addresses for which memory is allocated at first (10)
  MaxAnswers   \* bound: answers to one search

ASSUME RevealerAssumption ==
  /\ FirstCount \in Nat
  /\ FirstCount >= 2
  /\ MaxAnswers \in Nat

VARIABLES
  pc,               \* where the search is
  sock,             \* "open" or "closed"
  structure,        \* what the pointer of the program points to: "none" or "live"
  allocated_count,
  count,
  addresses,        \* what each allocated string holds: "unset" or "address"
  lost              \* kinds of memory that is allocated and cannot be reached

revealerVars == <<pc, sock, structure, allocated_count, count, addresses, lost>>
memory == <<structure, allocated_count, count, addresses, lost>>

TypeOK ==
  /\ pc \in {"idle", "socket", "options", "bind", "send", "allocate", "receive", "close"}
  /\ sock \in {"open", "closed"}
  /\ structure \in {"none", "live"}
  /\ allocated_count \in Nat
  /\ count \in Nat
  /\ DOMAIN addresses \subseteq Nat
  /\ lost \subseteq {"array", "string"}

RevealerInit ==
  /\ pc = "idle"
  /\ sock = "closed"
  /\ structure = "none"
  /\ allocated_count = 0
  /\ count = 0
  /\ addresses = [i \in {} |-> "unset"]
  /\ lost = {}

-----------------------------------------------------------------------------
Search ==
  /\ pc = "idle"
  /\ structure = "none"
  /\ pc' = "socket"
  /\ UNCHANGED <<sock, memory>>

CreateSocket ==
  /\ pc = "socket"
  /\ pc' = "options"
  /\ sock' = "open"
  /\ UNCHANGED memory

CreateSocketFails ==
  /\ pc = "socket"
  /\ pc' = "idle"
  /\ UNCHANGED <<sock, memory>>

(* setsockopt, bindSocket and sendMessageToBroadcast succeed ...           *)
Proceeds(from, to) ==
  /\ pc = from
  /\ pc' = to
  /\ UNCHANGED <<sock, memory>>

SetOptions == Proceeds("options", "bind")
BindSocket == Proceeds("bind", "send")
SendMessage == Proceeds("send", "allocate")

(* ... or one of them fails.                                               *)
GiveUpKeepsSocket ==  \* faulty variant: an early return leaves the socket open
  /\ pc \in {"options", "bind", "send"}
  /\ pc' = "idle"
  /\ UNCHANGED <<sock, memory>>

GiveUp ==
  /\ pc \in {"options", "bind", "send"}
  /\ pc' = "idle"
  /\ sock' = "closed"
  /\ UNCHANGED memory

(* n strings; those of old are kept up to kept, the others are new.        *)
Strings(old, kept, n) ==
  [i \in 0 .. n - 1 |-> IF i < kept THEN old[i] ELSE "unset"]

AllocateMemory ==
  /\ pc = "allocate"
  /\ pc' = "receive"
  /\ structure' = "live"
  /\ allocated_count' = FirstCount
  /\ count' = 0
  /\ addresses' = Strings(addresses, 0, FirstCount)
  /\ UNCHANGED <<sock, lost>>

(* increaseMemory: half as many again.  Strings from which on new ones are *)
(* allocated lose what they were before.                                   *)
GrownFromZero ==  \* faulty variant: every string is allocated anew
  [allocated_count |-> (3 * allocated_count) \div 2,
   addresses       |-> Strings(addresses, 0, (3 * allocated_count) \div 2),
   lost            |-> IF DOMAIN addresses \subseteq 0 .. -1 THEN lost ELSE lost \cup {"string"}]

Grown ==
  [allocated_count |-> (3 * allocated_count) \div 2,
   addresses       |-> Strings(addresses, count, (3 * allocated_count) \div 2),
   lost            |-> IF DOMAIN addresses \subseteq 0 .. count - 1
                         THEN lost ELSE lost \cup {"string"}]

AsItIs == [allocated_count |-> allocated_count, addresses |-> addresses, lost |-> lost]

RoomLate ==  \* faulty variant: off by one
  IF count > allocated_count THEN Grown ELSE AsItIs

Room == IF count >= allocated_count THEN Grown ELSE AsItIs

(* An answer arrives and saveAddress stores where it came from.            *)
ReceiveResponse ==
  /\ pc = "receive"
  /\ count < MaxAnswers
  /\ allocated_count' = Room.allocated_count
  /\ addresses' = [Room.addresses EXCEPT ![count] = "address"]
  /\ lost' = Room.lost
  /\ count' = count + 1
  /\ UNCHANGED <<pc, sock, structure>>

Silence == Proceeds("receive", "close")

CloseSocket ==
  /\ pc = "close"
  /\ pc' = "idle"
  /\ sock' = "closed"
  /\ UNCHANGED memory

(* bindy_freeMemoryForRevealer1Addresses frees the strings and the         *)
(* structure, but not the array of the pointers to the strings.            *)
FreeMemory ==
  /\ pc = "idle"
  /\ structure = "live"
  /\ structure' = "none"
  /\ lost' = lost \cup {"array"}
               \cup (IF DOMAIN addresses \subseteq 0 .. allocated_count - 1
                       THEN {} ELSE {"string"})
  /\ addresses' = [i \in {} |-> "unset"]
  /\ allocated_count' = 0
  /\ count' = 0
  /\ UNCHANGED <<pc, sock>>

RevealerNext ==
  \/ Search \/ CreateSocket \/ CreateSocketFails
  \/ SetOptions \/ BindSocket \/ SendMessage \/ GiveUp
  \/ AllocateMemory \/ ReceiveResponse \/ Silence \/ CloseSocket
  \/ FreeMemory

RevealerSpec == RevealerInit /\ [][RevealerNext]_revealerVars

-----------------------------------------------------------------------------
(* Every address that is counted was written into memory allocated for it, *)
(* however many hosts have answered and however often the array has grown: *)
(* saveAddress never writes past the array, and what                       *)
(* bindy_printRevealer1Addresses prints has been set.                      *)
AddressesSaved ==
  structure = "live" =>
    \A i \in 0 .. count - 1 : i \in DOMAIN addresses /\ addresses[i] = "address"

(* bindy_free... walks the strings up to allocated_count: these are all    *)
(* there are, and growing never drops one.                                 *)
NoStringLost ==
  /\ "string" \notin lost
  /\ DOMAIN addresses = 0 .. allocated_count - 1

(* Whichever call fails, bindy_searchByRevealer1Protocol returns with its  *)
(* socket closed.                                                          *)
SocketClosed == pc = "idle" => sock = "closed"

(* "The function frees the memory allocated for the Revealer1Addresses     *)
(* structure" (wrapper.h): nothing of it stays behind.                     *)
AllFreed == structure = "none" => lost = {}
=============================================================================
