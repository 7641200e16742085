------------------------------ MODULE TimedCall ------------------------------
(***************************************************************************)
(* How long a call may take and what its caller is told.                   *)
(* adaptive_wait_send, which both programs have, tries to send until it    *)
(* succeeds or the time is up, and sleeps longer after each failure.       *)
(* bindy_open and bindy_enumerate then wait for the answer                 *)
(* (sleep_until_open, sleep_until_recv) for the rest of their timeout;     *)
(* bindy_write does not wait; send_data of the server does not wait, and   *)
(* its adaptive_wait_send throws when it has not sent.                     *)
(*                                                                         *)
(* One behavior is one call.  Times are in milliseconds; a sleep takes as  *)
(* long as it was asked to.                                                *)
(***************************************************************************)
EXTENDS Integers

CONSTANTS
  Timeouts,              \* timeouts that a program passes to the library
  SEND_WAIT_TIMEOUT_MS,  \* the timeout of bindy_write and of the server
  SLEEP_WAIT_TIME        \* the time between two looks for an answer

ASSUME TimesAssumption ==
  /\ Timeouts \subseteq Int
  /\ SEND_WAIT_TIMEOUT_MS \in Nat
  /\ SLEEP_WAIT_TIME \in Nat \ {0}

VARIABLES
  caller,        \* the call that is made
  timeout,       \* its timeout
  pc,            \* "sending", "waiting" for the answer, "done" or "thrown"
  delay, total_delay, send_ok,  \* of adaptive_wait_send
  time_elapsed,  \* of sleep_until_open and sleep_until_recv
  result,        \* what the call returns
  slept          \* history: the time spent asleep

vars == <<caller, timeout, pc, delay, total_delay, send_ok, time_elapsed, result, slept>>

Asking == {"bindy_open", "bindy_enumerate"}
Callers == Asking \cup {"bindy_write", "send_data"}

TypeOK ==
  /\ caller \in Callers
  /\ timeout \in Int
  /\ pc \in {"sending", "waiting", "done", "thrown"}
  /\ delay \in Nat
  /\ total_delay \in Nat
  /\ send_ok \in BOOLEAN
  /\ time_elapsed \in Nat
  /\ result \in BOOLEAN
  /\ slept \in Nat

Init ==
  /\ caller \in Callers
  /\ timeout \in IF caller \in Asking THEN Timeouts ELSE {SEND_WAIT_TIMEOUT_MS}
  /\ pc = "sending"
  /\ delay = 2
  /\ total_delay = 0
  /\ send_ok = FALSE
  /\ time_elapsed = 0
  /\ result = FALSE
  /\ slept = 0

-----------------------------------------------------------------------------
AgainLonger ==  \* faulty variant: the sleep that is about to come is not counted
  ~send_ok /\ total_delay < timeout

Again == ~send_ok /\ total_delay + delay < timeout

SendSucceeds ==
  /\ pc = "sending"
  /\ Again
  /\ send_ok' = TRUE
  /\ UNCHANGED <<caller, timeout, pc, delay, total_delay, time_elapsed, result, slept>>

(* The new delay is counted right after the old one was slept.             *)
SendFailsCountsTwice ==  \* faulty variant: both delays are counted
  /\ pc = "sending"
  /\ Again
  /\ slept' = slept + delay
  /\ delay' = (3 * delay) \div 2
  /\ total_delay' = total_delay + delay + delay'
  /\ UNCHANGED <<caller, timeout, pc, send_ok, time_elapsed, result>>

SendFails ==
  /\ pc = "sending"
  /\ Again
  /\ slept' = slept + delay
  /\ delay' = (3 * delay) \div 2
  /\ total_delay' = total_delay + delay'
  /\ UNCHANGED <<caller, timeout, pc, send_ok, time_elapsed, result>>

(* The client retries after a runtime_error only; anything else ends the   *)
(* call.                                                                   *)
SendThrows ==
  /\ pc = "sending"
  /\ Again
  /\ caller # "send_data"
  /\ pc' = "thrown"
  /\ UNCHANGED <<caller, timeout, delay, total_delay, send_ok, time_elapsed, result, slept>>

(* The loop ends.  bindy_write has not caught anything and is content.     *)
AskingWaits ==
  /\ pc = "sending"
  /\ ~Again
  /\ caller \in Asking
  /\ pc' = "waiting"
  /\ UNCHANGED <<caller, timeout, delay, total_delay, send_ok, time_elapsed, result, slept>>

WriteReturns ==
  /\ pc = "sending"
  /\ ~Again
  /\ caller = "bindy_write"
  /\ pc' = "done"
  /\ result' = TRUE
  /\ UNCHANGED <<caller, timeout, delay, total_delay, send_ok, time_elapsed, slept>>

AnswerReturns ==
  /\ pc = "sending"
  /\ ~Again
  /\ caller = "send_data"
  /\ pc' = "done"
  /\ result' = send_ok
  /\ UNCHANGED <<caller, timeout, delay, total_delay, send_ok, time_elapsed, slept>>

(* One round of sleep_until_open or sleep_until_recv.  The answer may be   *)
(* there whenever it is looked for.                                        *)
Wait ==
  /\ pc = "waiting"
  /\ time_elapsed' = time_elapsed + SLEEP_WAIT_TIME
  /\ slept' = slept + SLEEP_WAIT_TIME
  /\ result' \in BOOLEAN
  /\ pc' = IF ~result' /\ time_elapsed' < timeout - total_delay THEN "waiting" ELSE "done"
  /\ UNCHANGED <<caller, timeout, delay, total_delay, send_ok>>

Returned == pc \in {"done", "thrown"} /\ UNCHANGED vars

Next ==
  \/ SendSucceeds \/ SendFails \/ SendThrows
  \/ AskingWaits \/ WriteReturns \/ AnswerReturns
  \/ Wait \/ Returned

Spec == Init /\ [][Next]_vars

-----------------------------------------------------------------------------
AtLeastZero(n) == IF n > 0 THEN n ELSE 0

(* A call sleeps less than its timeout while it sends, whatever happens,   *)
(* and its wait for the answer overruns the timeout by less than one       *)
(* round.  A timeout of zero or less, which nothing rejects, costs a call  *)
(* that asks exactly one round.                                            *)
SleepsWithinTimeout ==
  slept <= AtLeastZero(timeout - 1)
             + (IF caller \in Asking THEN SLEEP_WAIT_TIME ELSE 0)

(* A call that asks and reports that no answer came has not given up too   *)
(* soon: although total_delay counts the next delay in place of the first, *)
(* it has slept for two thirds of its timeout.                             *)
WaitsLongEnough ==
  (caller \in Asking /\ pc = "done" /\ ~result) => 3 * slept >= 2 * timeout
=============================================================================
