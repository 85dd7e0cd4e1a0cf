-------------------------------- MODULE Retry --------------------------------
(***************************************************************************)
(* retry::with_retry, the loop around every S3 request, every idempotent   *)
(* ClickHouse read and every notification: one call after another, each up *)
(* to `attempts' requests, sleeping with exponential backoff and full      *)
(* jitter between them.  Durations are in units of 100 ms.                 *)
(***************************************************************************)
EXTENDS Integers

CONSTANT Bits  \* the width of the shifted integer, 32 in the code

(* The last two conjuncts only say what a power of two is, which the       *)
(* provers do not know.                                                    *)
ASSUME BitsAssumption ==
    /\ Bits \in Nat \ {0}
    /\ \A n \in 0 .. Bits : 2 ^ n \in Nat \ {0}
    /\ \A n \in 0 .. Bits - 1 : 2 ^ (n + 1) = 2 * 2 ^ n

VARIABLES
    policy,   \* the RetryPolicy of the run
    call,     \* what the call is doing, or how it has ended
    attempt,  \* attempt
    answer,   \* history: the class of the last answer
    slept     \* history: the time the call has slept

retry == <<policy, call, attempt, answer, slept>>

Answers == {"ok", "transient", "definitive"}
Ended == {"idle", "ok", "failed"}

RetryTypeOK ==
    /\ policy \in [attempts : Nat \ {0}, baseDelay : Nat \ {0}, maxDelay : Nat \ {0}]
    /\ call \in Ended \cup {"request", "sleep"}
    /\ attempt \in 0 .. policy.attempts - 1
    /\ answer \in Answers
    /\ slept \in Nat

DefaultPolicy == [attempts |-> 3, baseDelay |-> 2, maxDelay |-> 50]

(* backoff_cap: the shift is checked against the width only, and its limit *)
(* replaces the factor; a product that overflows exceeds every max_delay.  *)
FactorWraps(n) ==  \* faulty variant: wrapping_shl
    2 ^ (n % Bits)

Factor(n) == IF n < Bits THEN 2 ^ n ELSE 2 ^ Bits - 1

BackoffUncapped(p, n) ==  \* faulty variant: without min(max_delay)
    p.baseDelay * Factor(n)

BackoffCap(p, n) ==
    IF p.baseDelay * Factor(n) <= p.maxDelay THEN p.baseDelay * Factor(n) ELSE p.maxDelay

RetryInit ==
    /\ policy = DefaultPolicy
    /\ call = "idle"
    /\ attempt = 0
    /\ answer = "ok"
    /\ slept = 0

(* RetryConfig::policy, once the configuration is validated.               *)
Configure(p) ==
    /\ call \in Ended
    /\ p.attempts \in Nat \ {0} /\ p.baseDelay \in Nat \ {0} /\ p.maxDelay \in Nat \ {0}
    /\ policy' = [attempts |-> p.attempts, baseDelay |-> p.baseDelay, maxDelay |-> p.maxDelay]
    /\ attempt' = 0 /\ slept' = 0 /\ call' = "idle"
    /\ UNCHANGED answer

Start ==
    /\ call \in Ended
    /\ call' = "request" /\ attempt' = 0 /\ slept' = 0
    /\ UNCHANGED <<policy, answer>>

OneAttemptMore(a) ==  \* faulty variant: attempt < attempts
    a = "transient" /\ attempt < policy.attempts

Retries(a) == a = "transient" /\ attempt + 1 < policy.attempts

(* The three arms of the match on the answer of op().                      *)
Request(a) ==
    /\ call = "request"
    /\ answer' = a
    /\ call' = IF a = "ok" THEN "ok" ELSE IF Retries(a) THEN "sleep" ELSE "failed"
    /\ UNCHANGED <<policy, attempt, slept>>

(* jittered: any duration up to the cap, in whole milliseconds.            *)
Sleep ==
    /\ call = "sleep"
    /\ \E delay \in 0 .. BackoffCap(policy, attempt) : slept' = slept + delay
    /\ attempt' = attempt + 1
    /\ call' = "request"
    /\ UNCHANGED <<policy, answer>>

RetryNext ==
    \/ call' = "idle" /\ Configure(policy')
    \/ Start
    \/ \E a \in Answers : Request(a)
    \/ Sleep

RetrySpec == RetryInit /\ [][RetryNext]_retry

(***************************************************************************)
(* Properties                                                              *)
(***************************************************************************)
(* A call of with_retry keeps to its budget.  It never sleeps longer than  *)
(* max_delay for each retry, whatever the jitter and the shift make of it; *)
(* a transient failure ends it only with its last attempt; and nothing but *)
(* a transient failure is asked again: a 404 or a 403 is an answer.        *)
SleepIsBounded == slept <= attempt * policy.maxDelay

GivesUpWhenDue ==
    /\ call = "failed" /\ answer = "transient" => attempt + 1 = policy.attempts
    /\ call = "sleep" => answer = "transient" /\ attempt + 1 < policy.attempts

RetryBudget == SleepIsBounded /\ GivesUpWhenDue

(* The backoff never shrinks from one retry to the next, at the width of   *)
(* the shift either.                                                       *)
BackoffGrows ==
    attempt > 0 => BackoffCap(policy, attempt - 1) <= BackoffCap(policy, attempt)
=============================================================================
