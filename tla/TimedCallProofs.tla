--------------------------- MODULE TimedCallProofs ---------------------------
(***************************************************************************)
(* Theorems about TimedCall for every timeout.  The sleeps add up to       *)
(* total_delay less the delay that comes next, plus the first one; and     *)
(* since delays grow by at most a half, the next one is at most a third of *)
(* all of them.  Together with what the conditions of the two loops leave  *)
(* open, this bounds the time of a call from both sides.                   *)
(***************************************************************************)
EXTENDS TimedCall, TLAPS

Sleeps ==
  /\ delay >= 2
  /\ slept = total_delay - delay + 2 + time_elapsed
  /\ 3 * delay <= total_delay + 6

(* While a call sends, what it has slept is below its timeout.             *)
SendTime ==
  total_delay - delay + 2 <= AtLeastZero(timeout - 1)

(* Where a call is, and what the condition of its last loop has left.      *)
WaitTime ==
  /\ pc = "sending" => time_elapsed = 0
  /\ pc = "waiting" => caller \in Asking /\ (time_elapsed = 0 \/ total_delay + time_elapsed < timeout)
  /\ pc \in {"done", "thrown"} =>
       \/ time_elapsed = 0 /\ (caller \in Asking => pc = "thrown")
       \/ /\ caller \in Asking
          /\ \/ time_elapsed = SLEEP_WAIT_TIME
             \/ total_delay + time_elapsed < timeout + SLEEP_WAIT_TIME
          /\ pc = "done" /\ ~result => total_delay + time_elapsed >= timeout

IInv == TypeOK /\ Sleeps /\ SendTime /\ WaitTime

-----------------------------------------------------------------------------
(* A call begins with a timeout of its own kind.                           *)
LEMMA TypeInitially == Init => TypeOK
<1> SUFFICES ASSUME Init
             PROVE  TypeOK
  OBVIOUS
<1>1. timeout \in Int
  <2>1. timeout \in Timeouts \/ timeout = SEND_WAIT_TIMEOUT_MS
    BY DEF Init
  <2>2. /\ \A t \in Timeouts : t \in Int
        /\ SEND_WAIT_TIMEOUT_MS \in Int
    BY TimesAssumption DEF TimesAssumption
  <2> QED
    BY <2>1, <2>2
<1>2. /\ caller \in Callers /\ pc = "sending" /\ delay = 2 /\ total_delay = 0
      /\ send_ok = FALSE /\ time_elapsed = 0 /\ result = FALSE /\ slept = 0
  BY DEF Init
<1> QED
  BY <1>1, <1>2 DEF TypeOK

(* No step of a call leaves the types.                                     *)
LEMMA TypePreserved == TypeOK /\ [Next]_vars => TypeOK'
<1> SUFFICES ASSUME TypeOK, [Next]_vars
             PROVE  TypeOK'
  OBVIOUS
<1> USE TimesAssumption DEF TimesAssumption, TypeOK
<1>1. CASE SendSucceeds
  BY <1>1 DEF SendSucceeds
<1>2. CASE SendFails
  <2>1. delay' \in Nat
    BY <1>2 DEF SendFails
  <2> QED
    BY <1>2, <2>1 DEF SendFails
<1>3. CASE SendThrows
  BY <1>3 DEF SendThrows
<1>4. CASE AskingWaits
  BY <1>4 DEF AskingWaits
<1>5. CASE WriteReturns
  BY <1>5 DEF WriteReturns
<1>6. CASE AnswerReturns
  BY <1>6 DEF AnswerReturns
<1>7. CASE Wait
  BY <1>7 DEF Wait
<1>8. CASE UNCHANGED vars
  BY <1>8 DEF vars
<1> QED
  BY <1>1, <1>2, <1>3, <1>4, <1>5, <1>6, <1>7, <1>8 DEF Next, Returned

(* The numbers stay numbers, whatever timeout was passed.                  *)
THEOREM TypeCorrect == Spec => []TypeOK
<1>1. Init => TypeOK
  BY TypeInitially
<1> QED
  BY <1>1, TypePreserved, PTL DEF Spec

(* The accounting of the two loops is right at every step.                 *)
THEOREM Invariance == Spec => []IInv
<1> USE TimesAssumption DEF TimesAssumption, Sleeps, SendTime, WaitTime, AtLeastZero
<1>1. Init => IInv
  BY TypeInitially DEF Init, IInv, TypeOK
<1>2. IInv /\ [Next]_vars => IInv'
  <2> SUFFICES ASSUME IInv, TypeOK', [Next]_vars
               PROVE  (Sleeps /\ SendTime /\ WaitTime)'
    BY TypePreserved DEF IInv
  <2> USE DEF IInv, TypeOK
  <2>1. CASE SendSucceeds
    BY <2>1 DEF SendSucceeds
  <2>2. CASE SendFails
    <3>1. /\ delay' \in Nat /\ delay' >= delay
          /\ 2 * delay' <= 3 * delay
      BY <2>2 DEF SendFails
    <3>2. total_delay + delay < timeout
      BY <2>2 DEF SendFails, Again
    <3> QED
      BY <2>2, <3>1, <3>2 DEF SendFails
  <2>3. CASE SendThrows
    BY <2>3 DEF SendThrows
  <2>4. CASE AskingWaits
    BY <2>4 DEF AskingWaits
  <2>5. CASE WriteReturns
    BY <2>5 DEF WriteReturns, Asking
  <2>6. CASE AnswerReturns
    BY <2>6 DEF AnswerReturns, Asking
  <2>7. CASE Wait
    BY <2>7 DEF Wait
  <2>8. CASE UNCHANGED vars
    BY <2>8 DEF vars
  <2> QED
    BY <2>1, <2>2, <2>3, <2>4, <2>5, <2>6, <2>7, <2>8 DEF Next, Returned
<1> QED
  BY <1>1, <1>2, PTL DEF Spec

(* No call, with any timeout, sleeps longer than it was allowed to.        *)
THEOREM Punctual == Spec => []SleepsWithinTimeout
<1>1. IInv => SleepsWithinTimeout
  BY TimesAssumption DEF TimesAssumption, IInv, TypeOK, Sleeps, SendTime, WaitTime, AtLeastZero, SleepsWithinTimeout
<1> QED
  BY <1>1, Invariance, PTL

(* No call that asks reports a timeout before two thirds of it are over.   *)
THEOREM Patient == Spec => []WaitsLongEnough
<1>1. IInv => WaitsLongEnough
  BY TimesAssumption DEF TimesAssumption, IInv, TypeOK, Sleeps, WaitTime, WaitsLongEnough
<1> QED
  BY <1>1, Invariance, PTL
=============================================================================
