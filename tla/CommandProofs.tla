---------------------------- MODULE CommandProofs ----------------------------
(***************************************************************************)
(* Proofs about Retry and Command, for every retry policy, every set of    *)
(* configuration files, every set of endpoints and every answer they give. *)
(***************************************************************************)
EXTENDS Command, TLAPS

(***************************************************************************)
(* with_retry on its own, for every policy and every width of the shift    *)
(***************************************************************************)
(* A sleep lasts at most max_delay, whatever the shift makes of the        *)
(* factor: the comparison is between integers at every attempt.            *)
LEMMA CapBounded ==
  ASSUME RetryTypeOK, NEW n \in Nat, NEW delay \in 0 .. BackoffCap(policy, n)
  PROVE  delay \in Nat /\ delay <= policy.maxDelay
<1>1. Factor(n) \in Int
  <2>1. CASE n < Bits
    BY <2>1, BitsAssumption DEF Factor
  <2>2. CASE ~(n < Bits)
    BY <2>2, BitsAssumption DEF Factor
  <2>. QED  BY <2>1, <2>2
<1>2. policy.baseDelay \in Int /\ policy.maxDelay \in Int
  BY DEF RetryTypeOK
<1>. DEFINE product == policy.baseDelay * Factor(n)
<1>3. product \in Int
  BY <1>1, <1>2
<1>4. BackoffCap(policy, n) = IF product <= policy.maxDelay THEN product ELSE policy.maxDelay
  BY DEF BackoffCap
<1>. HIDE DEF product
<1>. QED  BY <1>2, <1>3, <1>4

(* The inductive invariant.  The range of attempt needs GivesUpWhenDue: a  *)
(* call that sleeps has an attempt left.                                   *)
RetryInv == RetryTypeOK /\ SleepIsBounded /\ GivesUpWhenDue

LEMMA InitRetryInv == RetryInit => RetryInv
  BY DEF RetryInit, RetryInv, RetryTypeOK, SleepIsBounded, GivesUpWhenDue, DefaultPolicy,
         Ended, Answers

LEMMA ConfigureRetryInv ==
  ASSUME RetryInv, NEW p, Configure(p) PROVE RetryInv'
<1>. USE DEF RetryInv, RetryTypeOK, SleepIsBounded, GivesUpWhenDue, Configure, Ended, Answers
<1>1. RetryTypeOK'
  OBVIOUS
<1>2. SleepIsBounded'
  OBVIOUS
<1>3. GivesUpWhenDue'
  OBVIOUS
<1>. QED  BY <1>1, <1>2, <1>3

LEMMA StepRetryInv == RetryInv /\ [RetryNext]_retry => RetryInv'
<1>. SUFFICES ASSUME RetryInv, [RetryNext]_retry PROVE RetryInv'
  OBVIOUS
<1>. USE DEF RetryInv
<1>1. CASE Configure(policy')
  BY <1>1, ConfigureRetryInv
<1>2. CASE Start
  BY <1>2 DEF Start, RetryTypeOK, SleepIsBounded, GivesUpWhenDue, Ended
<1>3. ASSUME NEW a \in Answers, Request(a) PROVE RetryInv'
  BY <1>3 DEF Request, Retries, RetryTypeOK, SleepIsBounded, GivesUpWhenDue, Ended, Answers
<1>4. CASE Sleep
  <2>1. PICK delay \in 0 .. BackoffCap(policy, attempt) : slept' = slept + delay
    BY <1>4 DEF Sleep
  <2>2. attempt \in Nat /\ policy.maxDelay \in Nat /\ policy.attempts \in Nat /\ slept \in Nat
    BY DEF RetryTypeOK
  <2>3. delay \in Nat /\ delay <= policy.maxDelay
    BY <2>1, <2>2, CapBounded
  <2>4. policy' = policy /\ attempt' = attempt + 1 /\ call' = "request" /\ answer' = answer
    BY <1>4 DEF Sleep
  <2>5. attempt + 1 < policy.attempts
    BY <1>4 DEF Sleep, GivesUpWhenDue
  <2>6. RetryTypeOK'
    BY <2>1, <2>2, <2>3, <2>4, <2>5 DEF RetryTypeOK
  <2>7. (attempt + 1) * policy.maxDelay = attempt * policy.maxDelay + policy.maxDelay
    BY <2>2
  <2>8. SleepIsBounded'
    <3>. DEFINE before == attempt * policy.maxDelay
    <3>1. before \in Int /\ slept <= before
      BY <2>2 DEF SleepIsBounded
    <3>2. slept' = slept + delay /\ (attempt + 1) * policy.maxDelay = before + policy.maxDelay
      BY <2>1, <2>7
    <3>. HIDE DEF before
    <3>3. slept + delay <= before + policy.maxDelay
      BY <2>2, <2>3, <3>1
    <3>. QED  BY <2>4, <3>2, <3>3 DEF SleepIsBounded
  <2>9. GivesUpWhenDue'
    BY <2>4 DEF GivesUpWhenDue
  <2>. QED  BY <2>6, <2>8, <2>9
<1>5. CASE UNCHANGED retry
  BY <1>5 DEF retry, RetryTypeOK, SleepIsBounded, GivesUpWhenDue
<1>. QED  BY <1>1, <1>2, <1>3, <1>4, <1>5 DEF RetryNext

LEMMA RetryInvariant == RetrySpec => []RetryInv
  BY InitRetryInv, StepRetryInv, PTL DEF RetrySpec

(* with_retry sleeps at most max_delay before each retry, and only gives   *)
(* up on an answer or on its last attempt, for every policy.               *)
THEOREM KeepsBudget == RetrySpec => []RetryBudget
<1>1. RetryInv => RetryBudget
  BY DEF RetryInv, RetryBudget
<1>. QED  BY <1>1, RetryInvariant, PTL

(* The factor never shrinks, at the width of the shift either, where its   *)
(* limit takes over from the powers of two.                                *)
LEMMA FactorGrows ==
  ASSUME NEW n \in Nat
  PROVE  Factor(n) \in Int /\ Factor(n + 1) \in Int /\ Factor(n) <= Factor(n + 1)
<1>1. CASE n + 1 < Bits
  <2>1. 2 ^ n \in Nat /\ 2 ^ (n + 1) = 2 * 2 ^ n
    BY <1>1, BitsAssumption
  <2>2. Factor(n) = 2 ^ n /\ Factor(n + 1) = 2 ^ (n + 1)
    BY <1>1, BitsAssumption DEF Factor
  <2>. QED  BY <2>1, <2>2
<1>2. CASE n + 1 = Bits
  <2>1. 2 ^ n \in Nat \ {0} /\ 2 ^ Bits = 2 * 2 ^ n
    BY <1>2, BitsAssumption
  <2>2. Factor(n) = 2 ^ n /\ Factor(n + 1) = 2 ^ Bits - 1
    BY <1>2, BitsAssumption DEF Factor
  <2>. QED  BY <2>1, <2>2
<1>3. CASE n >= Bits
  BY <1>3, BitsAssumption DEF Factor
<1>. QED  BY <1>1, <1>2, <1>3, BitsAssumption

LEMMA ProductGrows ==
  ASSUME NEW a \in Nat, NEW x \in Int, NEW y \in Int, x <= y
  PROVE  a * x \in Int /\ a * y \in Int /\ a * x <= a * y
<1>1. a * (y - x) >= 0
  BY SMT
<1>2. a * (y - x) = a * y - a * x
  BY SMT
<1>. QED  BY <1>1, <1>2

(* with_retry never sleeps with a smaller cap than before its last retry,  *)
(* for every policy and every width of the shift.                          *)
THEOREM BackoffNeverShrinks == RetrySpec => []BackoffGrows
<1>1. RetryInv => BackoffGrows
  <2>. SUFFICES ASSUME RetryInv, attempt > 0
                PROVE  BackoffCap(policy, attempt - 1) <= BackoffCap(policy, attempt)
    BY DEF BackoffGrows
  <2>1. attempt \in Nat /\ attempt - 1 \in Nat /\ (attempt - 1) + 1 = attempt
    BY DEF RetryInv, RetryTypeOK
  <2>2. policy.baseDelay \in Nat /\ policy.maxDelay \in Nat
    BY DEF RetryInv, RetryTypeOK
  <2>. DEFINE before == policy.baseDelay * Factor(attempt - 1)
              after  == policy.baseDelay * Factor(attempt)
  <2>3. before \in Int /\ after \in Int /\ before <= after
    <3>1. /\ Factor(attempt - 1) \in Int /\ Factor(attempt) \in Int
          /\ Factor(attempt - 1) <= Factor(attempt)
      <4>1. /\ Factor(attempt - 1) \in Int /\ Factor((attempt - 1) + 1) \in Int
            /\ Factor(attempt - 1) <= Factor((attempt - 1) + 1)
        BY <2>1, FactorGrows
      <4>. QED  BY <2>1, <4>1
    <3>. QED  BY <2>2, <3>1, ProductGrows
  <2>4. /\ BackoffCap(policy, attempt - 1) = IF before <= policy.maxDelay THEN before ELSE policy.maxDelay
        /\ BackoffCap(policy, attempt) = IF after <= policy.maxDelay THEN after ELSE policy.maxDelay
    BY DEF BackoffCap
  <2>. HIDE DEF before, after
  <2>. QED  BY <2>2, <2>3, <2>4
<1>. QED  BY <1>1, RetryInvariant, PTL

(***************************************************************************)
(* Every send is a call of with_retry                                      *)
(***************************************************************************)
LEMMA StepIsRetry == [Step]_vars => [RetryNext]_retry
<1>. SUFFICES ASSUME [Step]_vars PROVE [RetryNext]_retry
  OBVIOUS
<1>1. CASE UNCHANGED retry
  BY <1>1
<1>2. CASE BuildBucket
  <2>1. CASE Configure(config.retry)
    <3>1. policy' = [attempts |-> config.retry.attempts, baseDelay |-> config.retry.baseDelay,
                     maxDelay |-> config.retry.maxDelay] /\ call' = "idle"
      BY <2>1 DEF Configure
    <3>2. Configure(policy')
      BY <2>1, <3>1 DEF Configure
    <3>. QED  BY <3>1, <3>2 DEF RetryNext
  <2>. QED  BY <1>2, <2>1 DEF BuildBucket
<1>3. CASE StartSend
  BY <1>3 DEF StartSend, RetryNext
<1>4. CASE Send
  <2>1. PICK reply \in Replies : Request(Classify(reply))
    BY <1>4 DEF Send
  <2>2. Classify(reply) \in Answers
    BY DEF Classify, Answers
  <2>. QED  BY <2>1, <2>2 DEF RetryNext
<1>5. CASE SleepBeforeRetry
  BY <1>5 DEF SleepBeforeRetry, RetryNext
<1>6. CASE LoadFails \/ Load \/ RunBackup \/ AutoCleanup \/ RunCleanup \/ Read \/ EndDispatch
  BY <1>1, <1>6 DEF LoadFails, Load, RunBackup, AutoCleanup, RunCleanup, Read, EndDispatch
<1>7. CASE UNCHANGED vars
  BY <1>1, <1>7 DEF vars
<1>. QED  BY <1>2, <1>3, <1>4, <1>5, <1>6, <1>7 DEF Step

(* The program implements with_retry's loop: no event, endpoint or exit    *)
(* lets a send skip its limits.                                            *)
THEOREM SendsRetry == Spec => RetrySpec
<1>1. Init => RetryInit
  BY DEF Init
<1>. QED  BY <1>1, StepIsRetry, PTL DEF Spec, RetrySpec

LEMMA SpecRetryInv == Spec => []RetryInv
  BY SendsRetry, RetryInvariant, PTL

(* Hence every send keeps to the budget of with_retry.                     *)
THEOREM SendsKeepBudget == Spec => []RetryBudget
  BY SendsRetry, KeepsBudget, PTL

(***************************************************************************)
(* Configuration                                                           *)
(***************************************************************************)
Accepted(c) == Usable(c) /\ c.notifications \in NotificationConfig /\ c.autoCleanup \in BOOLEAN

(* What is parsed has every section, and when it is valid, it satisfies    *)
(* what the other modules assume.                                          *)
LEMMA ValidIsUsable ==
  ASSUME NEW f \in ParsedFile, NEW c, c = Parse(f), IsValid(c)
  PROVE  Accepted(c)
<1>1. /\ c.backup = IF f.backup = Absent THEN DefaultBackup ELSE f.backup
      /\ c.retry = IF f.retry = Absent THEN DefaultRetry ELSE f.retry
      /\ c.notifications = IF f.notifications = Absent THEN NoNotifications ELSE f.notifications
      /\ c.interval = f.interval /\ c.keep = f.keep /\ c.autoCleanup = f.autoCleanup
  BY DEF Parse, ParsedFile
<1>2. /\ f.backup \in [pollInterval : Nat, timeout : Nat] \cup {Absent}
      /\ f.retry \in [attempts : Nat, baseDelay : Nat, maxDelay : Nat] \cup {Absent}
      /\ f.notifications \in NotificationConfig \cup {Absent}
      /\ f.interval \in Nat /\ f.keep \in Nat /\ f.autoCleanup \in BOOLEAN
  BY DEF ParsedFile
<1>3. PollTimesAssumed(c)
  <2>1. c.backup \in [pollInterval : Nat, timeout : Nat]
    BY <1>1, <1>2 DEF DefaultBackup
  <2>. QED  BY <2>1 DEF IsValid, PollsAreValid, PollTimesAssumed
<1>4. AttemptsAssumed(c)
  <2>1. c.retry \in [attempts : Nat, baseDelay : Nat, maxDelay : Nat]
    BY <1>1, <1>2 DEF DefaultRetry
  <2>. QED  BY <2>1 DEF IsValid, RetryIsValid, AttemptsAssumed
<1>5. KeepAssumed(c)
  BY <1>1, <1>2 DEF IsValid, RetentionIsValid, KeepAssumed
<1>6. c.notifications \in NotificationConfig
  <2>1. NoNotifications \in NotificationConfig
    BY DEF NoNotifications, NotificationConfig
  <2>. QED  BY <1>1, <1>2, <2>1
<1>. QED  BY <1>1, <1>2, <1>3, <1>4, <1>5, <1>6 DEF Usable, Accepted

ConfigInv ==
    /\ pc = "load" => config = Absent
    /\ pc \notin {"load", "exited"} => Accepted(config)
    /\ config # Absent => Accepted(config)

LEMMA StepConfigInv == ConfigInv /\ [Step]_vars => ConfigInv'
<1>. SUFFICES ASSUME ConfigInv, [Step]_vars PROVE ConfigInv'
  OBVIOUS
<1>1. CASE Load
  <2>1. PICK f \in Files :
          IF IsValid(Parse(f)) THEN config' = Parse(f) /\ pc' = "bucket" /\ UNCHANGED status
          ELSE Exit(1) /\ UNCHANGED config
    BY <1>1 DEF Load
  <2>. DEFINE c == Parse(f)
  <2>2. CASE ~IsValid(c)
    BY <1>1, <2>1, <2>2 DEF ConfigInv, Exit
  <2>3. CASE IsValid(c)
    <3>1. config' = c /\ pc' = "bucket"
      BY <2>1, <2>3
    <3>2. Accepted(c)
      BY <2>3, FilesAssumption, ValidIsUsable
    <3>3. Accepted(config')
      BY <3>1, <3>2
    <3>4. Accepted(config)'
      BY <3>3 DEF Accepted, Usable, PollTimesAssumed, AttemptsAssumed, KeepAssumed
    <3>. QED  BY <3>1, <3>4 DEF ConfigInv
  <2>. QED  BY <2>2, <2>3
<1>2. ASSUME config' = config, pc' = pc \/ (pc' # "load" /\ (pc' = "exited" \/ pc \notin {"load", "exited"}))
      PROVE  ConfigInv'
  <2>1. Accepted(config)' <=> Accepted(config)
    BY <1>2 DEF Accepted, Usable, PollTimesAssumed, AttemptsAssumed, KeepAssumed
  <2>. QED  BY <1>2, <2>1 DEF ConfigInv
<1>3. CASE LoadFails \/ BuildBucket
  BY <1>2, <1>3 DEF LoadFails, BuildBucket, Exit
<1>4. CASE RunBackup \/ AutoCleanup \/ RunCleanup \/ Read
  BY <1>2, <1>4 DEF RunBackup, AutoCleanup, RunCleanup, Read, Exit, Announce
<1>5. CASE StartSend \/ Send \/ SleepBeforeRetry
  BY <1>2, <1>5 DEF StartSend, Send, SleepBeforeRetry
<1>6. CASE EndDispatch
  BY <1>2, <1>6 DEF EndDispatch, AfterDispatch, Exit
<1>7. CASE UNCHANGED vars
  BY <1>2, <1>7 DEF vars
<1>. QED  BY <1>1, <1>3, <1>4, <1>5, <1>6, <1>7 DEF Step

(* A configuration the program runs with satisfies what the other modules  *)
(* assume of their constants.                                              *)
THEOREM ConfigUsable == Spec => []AcceptedIsUsable
<1>1. Init => ConfigInv
  BY DEF Init, ConfigInv
<1>2. ConfigInv => AcceptedIsUsable
  BY DEF ConfigInv, Accepted, AcceptedIsUsable
<1>. QED  BY <1>1, <1>2, StepConfigInv, PTL DEF Spec

(***************************************************************************)
(* Outcomes                                                                *)
(***************************************************************************)
RunTypeOK ==
    /\ pc \in {"load", "bucket", "command", "dispatch", "auto cleanup", "exited"}
    /\ command \in Commands
    /\ backup \in [result : {"none", "completed", "failed"}, kind : Kinds \cup {"undecided"}]
    /\ cleanup \in {"none", "complete", "partial", "error"}
    /\ event \in Events \cup {NoEvent}
    /\ next \in Nat \ {0}
    /\ received \in [Endpoints -> SUBSET Events]
    /\ refused \in [Endpoints -> SUBSET Events]
    /\ status \in {0, 1}

(* What an event says of the run.                                          *)
Tells(e) ==
    /\ e.type = "backup_completed" => backup = [result |-> "completed", kind |-> e.kind]
    /\ e.type = "backup_failed" =>
          backup.result = "failed" /\ e.kind = AnnouncedKind(backup.kind)
    /\ e.type = "cleanup_completed" => cleanup \in {"complete", "partial"}

(* The event being dispatched is about what has just ended.                *)
EventInv ==
    /\ event \in Events /\ Tells(event)
    /\ command.name \in {"backup", "cleanup"}
    /\ event.type # "cleanup_completed" => cleanup = "none"
    /\ event.type = "cleanup_completed" /\ command.name = "backup" => backup.result = "completed"

OutcomeInv ==
    /\ backup.result # "none" => command.name = "backup"
    /\ pc \in {"load", "bucket", "command"} =>
          /\ backup.result = "none" /\ cleanup = "none"
          /\ \A endpoint \in Endpoints : received[endpoint] = {}
    /\ pc = "auto cleanup" =>
          backup.result = "completed" /\ command.name = "backup" /\ cleanup = "none"
    /\ pc = "dispatch" => EventInv
    /\ FailuresShow
    /\ \A endpoint \in Endpoints : \A e \in received[endpoint] : Tells(e)

RunInv == RunTypeOK /\ OutcomeInv

LEMMA InitRunInv == Init => RunInv
<1>. SUFFICES ASSUME Init PROVE RunInv
  OBVIOUS
<1>1. RunTypeOK
  BY DEF Init, RunTypeOK
<1>2. OutcomeInv
  BY DEF Init, OutcomeInv, FailuresShow
<1>. QED  BY <1>1, <1>2 DEF RunInv

(* An action that keeps the outcomes and what was received.                *)
LEMMA KeepsTells ==
  ASSUME run' = run, NEW e PROVE Tells(e)' <=> Tells(e)
BY DEF run, Tells, AnnouncedKind, FlagKind

LEMMA StepRunInv == RunInv /\ [Step]_vars => RunInv'
<1>. SUFFICES ASSUME RunInv, [Step]_vars PROVE RunInv'
  OBVIOUS
<1>. USE DEF RunInv
<1>1. CASE LoadFails \/ Load \/ BuildBucket
  <2>1. /\ pc \in {"load", "bucket"} /\ UNCHANGED <<run, event, next, mail>>
        /\ (pc' = "exited" /\ status' = 1) \/ (pc' \in {"bucket", "command"} /\ status' = status)
    BY <1>1 DEF LoadFails, Load, BuildBucket, Exit
  <2>2. RunTypeOK'
    BY <2>1 DEF RunTypeOK, run, mail
  <2>3. OutcomeInv'
    <3>1. \A endpoint \in Endpoints : \A e \in received'[endpoint] : Tells(e)'
      BY <2>1, KeepsTells DEF OutcomeInv, mail
    <3>2. UNCHANGED <<command, backup, cleanup, received>>
      BY <2>1 DEF run, mail
    <3>3. /\ backup.result = "none" /\ cleanup = "none"
          /\ \A endpoint \in Endpoints : received[endpoint] = {}
      BY <2>1 DEF OutcomeInv
    <3>4. FailuresShow'
      BY <2>1, <3>2, <3>3 DEF FailuresShow
    <3>5. backup'.result # "none" => command'.name = "backup"
      BY <3>2, <3>3
    <3>. QED  BY <2>1, <3>1, <3>2, <3>3, <3>4, <3>5 DEF OutcomeInv
  <2>. QED  BY <2>2, <2>3
<1>2. CASE RunBackup
  <2>1. PICK kind \in Kinds, result \in {"completed", "failed"},
             decided \in Kinds \cup {"undecided"} :
          /\ result = "completed" => decided = kind
          /\ backup' = [result |-> result, kind |-> decided]
          /\ event'.type = IF result = "completed" THEN "backup_completed" ELSE "backup_failed"
          /\ event'.kind = IF result = "completed" THEN kind ELSE AnnouncedKind(decided)
          /\ event' \in Events
    <3>1. FlagKind \in Kinds
      BY DEF FlagKind, Kinds
    <3>2. \A k \in Kinds \cup {"undecided"} : AnnouncedKind(k) \in Kinds
      BY <3>1 DEF AnnouncedKind
    <3>. QED  BY <1>2, <3>2 DEF RunBackup, Announce, Kinds, Events
  <2>2. /\ pc = "command" /\ pc' = "dispatch" /\ next' = 1 /\ command.name = "backup"
        /\ UNCHANGED <<command, cleanup, received, refused, status>>
    BY <1>2 DEF RunBackup, Announce, mail
  <2>3. cleanup = "none" /\ backup.result = "none"
    BY <2>2 DEF OutcomeInv
  <2>4. RunTypeOK'
    BY <2>1, <2>2 DEF RunTypeOK
  <2>5. EventInv'
    BY <2>1, <2>2, <2>3 DEF EventInv, Tells, AnnouncedKind, FlagKind
  <2>6. \A endpoint \in Endpoints : \A e \in received'[endpoint] : Tells(e)'
    <3>1. \A endpoint \in Endpoints : received[endpoint] = {}
      BY <2>2 DEF OutcomeInv
    <3>. QED  BY <2>2, <3>1
  <2>7. OutcomeInv'
    BY <2>1, <2>2, <2>5, <2>6 DEF OutcomeInv, FailuresShow
  <2>. QED  BY <2>4, <2>7
<1>3. CASE AutoCleanup \/ RunCleanup
  <2>1. /\ cleanup' \in {"complete", "partial", "error"}
        /\ UNCHANGED <<command, backup, received, refused>>
        /\ \/ pc = "auto cleanup"
           \/ pc = "command" /\ command.name = "cleanup"
    BY <1>3 DEF AutoCleanup, RunCleanup, mail
  <2>2. CASE cleanup' = "error"
    <3>1. /\ pc' = "exited" /\ status' = (IF pc = "auto cleanup" THEN 0 ELSE 1)
          /\ UNCHANGED <<event, next>>
      BY <1>3, <2>2 DEF AutoCleanup, RunCleanup, Exit, AutoCleanupStatus
    <3>2. RunTypeOK'
      BY <2>1, <2>2, <3>1 DEF RunTypeOK
    <3>3. cleanup = "none" /\ \A to \in Endpoints : \A e \in received[to] : Tells(e)
      BY <2>1 DEF OutcomeInv
    <3>4. \A to \in Endpoints : \A e \in received'[to] : Tells(e)'
      BY <2>1, <3>3 DEF Tells, AnnouncedKind, FlagKind
    <3>5. FailuresShow'
      <4>1. CASE pc = "auto cleanup"
        <5>1. backup.result = "completed" /\ command.name = "backup"
          BY <4>1 DEF OutcomeInv
        <5>. QED  BY <2>1, <3>1, <4>1, <5>1 DEF FailuresShow
      <4>2. CASE pc = "command" /\ command.name = "cleanup"
        <5>1. backup.result = "none"
          BY <4>2 DEF OutcomeInv
        <5>. QED  BY <2>1, <2>2, <3>1, <4>2, <5>1 DEF FailuresShow
      <4>. QED  BY <2>1, <4>1, <4>2
    <3>. QED  BY <2>1, <3>1, <3>2, <3>4, <3>5 DEF OutcomeInv
  <2>3. CASE cleanup' # "error"
    <3>1. /\ event' = [type |-> "cleanup_completed", kind |-> "none"] /\ next' = 1
          /\ pc' = "dispatch" /\ status' = status
      BY <1>3, <2>3 DEF AutoCleanup, RunCleanup, Announce
    <3>2. event' \in Events /\ event'.type = "cleanup_completed"
      BY <3>1 DEF Events
    <3>3. RunTypeOK'
      <4>1. /\ pc' = "dispatch" /\ next' \in Nat \ {0} /\ status' \in {0, 1}
            /\ received' \in [Endpoints -> SUBSET Events] /\ refused' \in [Endpoints -> SUBSET Events]
        <5>1. received' = received /\ refused' = refused /\ status' = status
          BY <2>1, <3>1
        <5>2. /\ status \in {0, 1}
              /\ received \in [Endpoints -> SUBSET Events] /\ refused \in [Endpoints -> SUBSET Events]
          BY DEF RunTypeOK
        <5>. QED  BY <3>1, <5>1, <5>2
      <4>2. /\ command' \in Commands /\ cleanup' \in {"none", "complete", "partial", "error"}
            /\ backup' \in [result : {"none", "completed", "failed"}, kind : Kinds \cup {"undecided"}]
        BY <2>1 DEF RunTypeOK
      <4>. QED  BY <3>2, <4>1, <4>2 DEF RunTypeOK
    <3>4. EventInv'
      BY <2>1, <2>3, <3>1, <3>2 DEF EventInv, Tells, OutcomeInv
    <3>5. \A endpoint \in Endpoints : \A e \in received'[endpoint] : Tells(e)'
      BY <2>1, <2>3 DEF OutcomeInv, Tells, AnnouncedKind, FlagKind
    <3>. QED  BY <2>1, <3>1, <3>3, <3>4, <3>5 DEF OutcomeInv, FailuresShow
  <2>. QED  BY <2>2, <2>3
<1>4. CASE Read
  <2>1. /\ pc = "command" /\ command.name # "cleanup" /\ UNCHANGED <<run, event, next, mail>>
        /\ pc' = "exited" /\ status' \in {0, 1}
    BY <1>4 DEF Read, Exit
  <2>2. \A endpoint \in Endpoints : \A e \in received'[endpoint] : Tells(e)'
    BY <2>1, KeepsTells DEF OutcomeInv, mail
  <2>3. RunTypeOK'
    BY <2>1 DEF RunTypeOK, run, mail
  <2>4. OutcomeInv'
    BY <2>1, <2>2 DEF OutcomeInv, FailuresShow, run, mail
  <2>. QED  BY <2>3, <2>4
<1>5. CASE StartSend \/ SleepBeforeRetry
  <2>1. pc = "dispatch" /\ UNCHANGED <<pc, run, event, next, mail, status>>
    BY <1>5 DEF StartSend, SleepBeforeRetry
  <2>. QED  BY <2>1, KeepsTells DEF RunTypeOK, OutcomeInv, FailuresShow, EventInv, run, mail
<1>6. CASE Send
  <2>. DEFINE endpoint == Notifiers(config)[next].endpoint
              told == [received EXCEPT ![endpoint] = @ \cup {event}]
  <2>1. /\ pc = "dispatch" /\ UNCHANGED <<pc, run, event, status>>
        /\ received' \in {received, told}
        /\ refused' \in {refused, [refused EXCEPT ![endpoint] = @ \cup {event}]}
        /\ next' \in {next, next + 1}
    BY <1>6 DEF Send
  <2>. HIDE DEF endpoint
  <2>2. EventInv
    BY <2>1 DEF OutcomeInv
  <2>3. RunTypeOK'
    BY <2>1, <2>2 DEF RunTypeOK, run, EventInv
  <2>4. EventInv'
    BY <2>1, <2>2, KeepsTells DEF EventInv, run
  <2>5. ASSUME NEW to \in Endpoints, NEW e \in received'[to] PROVE Tells(e)'
    <3>1. e \in received[to] \/ e = event
      BY <2>1 DEF RunTypeOK
    <3>. QED  BY <2>1, <2>2, <3>1, KeepsTells DEF EventInv, OutcomeInv
  <2>6. OutcomeInv'
    BY <2>1, <2>4, <2>5 DEF OutcomeInv, FailuresShow, run
  <2>. QED  BY <2>3, <2>6
<1>7. CASE EndDispatch
  <2>1. pc = "dispatch" /\ UNCHANGED <<run, event, next, mail>>
    BY <1>7 DEF EndDispatch
  <2>2. EventInv
    BY <2>1 DEF OutcomeInv
  <2>3. \/ /\ event.type = "backup_completed"
           /\ pc' = "auto cleanup" /\ status' = status
        \/ /\ pc' = "exited"
           /\ status' = IF event.type = "backup_failed" THEN 1
                        ELSE IF event.type = "cleanup_completed" THEN CleanupStatus ELSE 0
    BY <1>7 DEF EndDispatch, AfterDispatch, Exit
  <2>4. RunTypeOK'
    BY <2>1, <2>3 DEF RunTypeOK, CleanupStatus, run, mail
  <2>5. \A endpoint \in Endpoints : \A e \in received'[endpoint] : Tells(e)'
    BY <2>1, KeepsTells DEF OutcomeInv, mail
  <2>6. event.type \in {"backup_completed", "backup_failed", "cleanup_completed"}
    BY <2>2 DEF EventInv, Events
  <2>7. event.type = "backup_completed" => backup.result = "completed"
    BY <2>2 DEF EventInv, Tells
  <2>8. FailuresShow'
    BY <2>1, <2>2, <2>3, <2>6, <2>7 DEF FailuresShow, CleanupStatus, EventInv, Tells, OutcomeInv, run
  <2>9. OutcomeInv'
    BY <2>1, <2>2, <2>3, <2>5, <2>7, <2>8 DEF OutcomeInv, EventInv, run, mail
  <2>. QED  BY <2>4, <2>9
<1>8. CASE UNCHANGED vars
  BY <1>8, KeepsTells DEF vars, RunTypeOK, OutcomeInv, FailuresShow, EventInv, run, mail
<1>. QED  BY <1>1, <1>2, <1>3, <1>4, <1>5, <1>6, <1>7, <1>8 DEF Step

LEMMA SpecRunInv == Spec => []RunInv
  BY InitRunInv, StepRunInv, PTL DEF Spec

(* Every variable of Command keeps its type.                               *)
THEOREM TypeCorrect == Spec => []TypeOK
<1>1. RetryInv /\ RunInv => TypeOK
  BY DEF RetryInv, RunInv, RunTypeOK, TypeOK
<1>. QED  BY <1>1, SpecRetryInv, SpecRunInv, PTL

(* No endpoint ever receives an event that did not happen, or that the     *)
(* exit status contradicts.                                                *)
THEOREM EventsTrue == Spec => []EventsAreTrue
<1>1. RunInv => EventsAreTrue
  <2>. SUFFICES ASSUME RunInv, NEW endpoint \in Endpoints, NEW e \in received[endpoint]
               PROVE  /\ e.type = "backup_completed" =>
                            /\ backup = [result |-> "completed", kind |-> e.kind]
                            /\ pc = "exited" => status = 0
                      /\ e.type = "backup_failed" =>
                            /\ backup.result = "failed" /\ backup.kind \in {e.kind, "undecided"}
                            /\ pc = "exited" => status = 1
                      /\ e.type = "cleanup_completed" => cleanup \in {"complete", "partial"}
    BY DEF EventsAreTrue
  <2>1. Tells(e) /\ status \in {0, 1} /\ FailuresShow
    BY DEF RunInv, RunTypeOK, OutcomeInv
  <2>2. e.type = "backup_completed" => backup.result = "completed"
    BY <2>1 DEF Tells
  <2>3. e.type = "backup_failed" => backup.result = "failed" /\ backup.kind \in {e.kind, "undecided"}
    BY <2>1 DEF Tells, AnnouncedKind
  <2>. QED  BY <2>1, <2>2, <2>3 DEF Tells, FailuresShow
<1>. QED  BY <1>1, SpecRunInv, PTL

(* A failed backup and an incomplete cleanup always show in the status.    *)
THEOREM FailuresShown == Spec => []FailuresShow
<1>1. RunInv => FailuresShow
  BY DEF RunInv, OutcomeInv
<1>. QED  BY <1>1, SpecRunInv, PTL

(***************************************************************************)
(* Everyone is told                                                        *)
(***************************************************************************)
Providers == config.notifications.providers

Told(e, i) == e \in received[Providers[i].endpoint] \cup refused[Providers[i].endpoint]

(* The inductive invariant: the notifiers before `next' have been told the *)
(* event being dispatched, and all of them every other event that is due.  *)
ToldInv ==
    /\ call \in {"request", "sleep"} => pc = "dispatch" /\ ~DispatchOver
    /\ pc = "dispatch" /\ ShouldSend(event) =>
          \A i \in DOMAIN Providers : i < next => Told(event, i)
    /\ pc \in {"dispatch", "auto cleanup", "exited"} =>
          \A e \in Events : Due(e) /\ ~(pc = "dispatch" /\ e = event) =>
              \A i \in DOMAIN Providers : Told(e, i)

LEMMA NotifiersProperties ==
  ASSUME Accepted(config)
  PROVE  /\ Len(Notifiers(config)) \in Nat
         /\ DOMAIN Providers = 1 .. Len(Notifiers(config))
         /\ \A i \in DOMAIN Providers :
               /\ Providers[i].endpoint \in Endpoints
               /\ Notifiers(config)[i].endpoint = Providers[i].endpoint
<1>1. Providers \in Seq([endpoint : Endpoints, method : STRING])
  BY DEF Accepted, Providers, NotificationConfig
<1>2. DOMAIN Providers = 1 .. Len(Providers) /\ Len(Providers) \in Nat
  BY <1>1
<1>. DEFINE n == Len(Providers)
           Build(p) == [p EXCEPT !.method = MethodOf(@)]
           Built == {Build(Providers[i]) : i \in 1 .. n}
<1>3. n \in Nat /\ DOMAIN Providers = 1 .. n
  BY <1>2
<1>4. \A i \in 1 .. n : Providers[i] \in [endpoint : Endpoints, method : STRING]
  <2>. DEFINE Provider == [endpoint : Endpoints, method : STRING]
  <2>1. Providers \in Seq(Provider)
    BY <1>1
  <2>. HIDE DEF Provider
  <2>2. \A i \in 1 .. n : Providers[i] \in Provider
    BY <2>1
  <2>. QED  BY <2>2 DEF Provider
<1>5. \A i \in 1 .. n : Build(Providers[i]).endpoint = Providers[i].endpoint
  <2>. SUFFICES ASSUME NEW i \in 1 .. n PROVE Build(Providers[i]).endpoint = Providers[i].endpoint
    OBVIOUS
  <2>1. Providers[i] \in [endpoint : Endpoints, method : STRING]
    BY <1>4
  <2>. QED  BY <2>1
<1>6. Notifiers(config) = [i \in 1 .. n |-> Build(Providers[i])]
  BY <1>3 DEF Notifiers, Providers
<1>. HIDE DEF Build, n
<1>7. Notifiers(config) \in [1 .. n -> Built]
  BY <1>6
<1>. HIDE DEF Built
<1>8. Len(Notifiers(config)) = n
  BY <1>3, <1>7
<1>. QED  BY <1>3, <1>4, <1>5, <1>6, <1>8

(* Only the event being dispatched can be due among those of its type.     *)
LEMMA DueIsEvent ==
  ASSUME EventInv, NEW e \in Events, Due(e), e.type = event.type
  PROVE  e = event
<1>1. e.kind = event.kind
  BY DEF EventInv, Tells, Due, Events
<1>. QED  BY <1>1 DEF EventInv, Events

(* What is due depends on the outcomes and on the configuration only, and  *)
(* who was told on what was received and refused.                          *)
LEMMA KeepsDue ==
  ASSUME UNCHANGED <<config, run>>, NEW e PROVE Due(e)' <=> Due(e)
BY DEF run, Due, AnnouncedKind, FlagKind

LEMMA KeepsTold ==
  ASSUME UNCHANGED <<config, mail>>, NEW e, NEW i PROVE Told(e, i)' <=> Told(e, i)
BY DEF mail, Told, Providers

(* Before a subcommand has ended, nothing is due.                          *)
LEMMA NothingDue ==
  ASSUME backup.result = "none", cleanup \notin {"complete", "partial"}, NEW e
  PROVE  ~Due(e)
BY DEF Due

LEMMA StepToldInv ==
  ASSUME RunInv, RunInv', ConfigInv, ToldInv, [Step]_vars
  PROVE  ToldInv'
<1>1. CASE LoadFails \/ Load \/ BuildBucket \/ Read
  <2>1. /\ pc \in {"load", "bucket", "command"} /\ UNCHANGED <<backup, cleanup>>
        /\ pc' # "dispatch" /\ call \notin {"request", "sleep"}
    BY <1>1 DEF LoadFails, Load, BuildBucket, Read, Exit, run, ToldInv
  <2>2. call' \notin {"request", "sleep"}
    BY <1>1, <2>1 DEF LoadFails, Load, BuildBucket, Read, retry, Configure
  <2>3. backup'.result = "none" /\ cleanup' = "none"
    BY <2>1 DEF RunInv, OutcomeInv
  <2>4. \A e : ~Due(e)'
    BY <2>3 DEF Due
  <2>. QED  BY <2>1, <2>2, <2>4 DEF ToldInv
<1>2. CASE RunBackup \/ RunCleanup
  <2>1. /\ pc = "command" /\ UNCHANGED <<retry, config>>
        /\ \/ pc' = "dispatch" /\ next' = 1
           \/ pc' = "exited" /\ cleanup' = "error" /\ backup' = backup
    BY <1>2 DEF RunBackup, RunCleanup, Announce, Exit
  <2>2. call' \notin {"request", "sleep"}
    BY <2>1 DEF retry, ToldInv
  <2>3. backup.result = "none" /\ cleanup = "none"
    BY <2>1 DEF RunInv, OutcomeInv
  <2>4. CASE pc' = "exited"
    <3>1. \A e : ~Due(e)'
      BY <2>1, <2>3, <2>4 DEF Due
    <3>. QED  BY <2>2, <2>4, <3>1 DEF ToldInv
  <2>5. CASE pc' = "dispatch"
    <3>1. EventInv'
      BY <2>5 DEF RunInv, OutcomeInv
    <3>2. ASSUME NEW e \in Events, Due(e)' PROVE e = event'
      <4>1. e.type = event'.type
        BY <1>2, <2>3, <2>5, <3>1, <3>2
           DEF RunBackup, RunCleanup, Exit, Announce, Due, EventInv, Tells, Events
      <4>2. e.kind = event'.kind
        BY <3>1, <3>2, <4>1 DEF EventInv, Tells, Due, Events
      <4>. QED  BY <3>1, <4>1, <4>2 DEF EventInv, Events
    <3>3. \A i \in DOMAIN Providers' : ~(i < next')
      <4>1. Accepted(config)
        BY <2>1 DEF ConfigInv
      <4>. QED  BY <2>1, <2>5, <4>1, NotifiersProperties DEF Providers
    <3>. QED  BY <2>2, <2>5, <3>2, <3>3 DEF ToldInv
  <2>. QED  BY <2>1, <2>4, <2>5
<1>3. CASE AutoCleanup
  <2>1. /\ pc = "auto cleanup" /\ UNCHANGED <<retry, config, command, backup, mail>>
        /\ \/ pc' = "dispatch" /\ next' = 1 /\ event'.type = "cleanup_completed"
           \/ pc' = "exited" /\ cleanup' = "error"
    <3>1. pc = "auto cleanup" /\ UNCHANGED <<retry, config, command, backup, mail>>
      BY <1>3 DEF AutoCleanup
    <3>2. CASE cleanup' = "error"
      BY <1>3, <3>1, <3>2 DEF AutoCleanup, Exit
    <3>3. CASE cleanup' # "error"
      <4>1. event' = [type |-> "cleanup_completed", kind |-> "none"] /\ next' = 1 /\ pc' = "dispatch"
        BY <1>3, <3>3 DEF AutoCleanup, Announce
      <4>. QED  BY <3>1, <4>1
    <3>. QED  BY <3>2, <3>3
  <2>2. call' \notin {"request", "sleep"}
    BY <2>1 DEF retry, ToldInv
  <2>3. Accepted(config)
    BY <2>1 DEF ConfigInv
  <2>4. ASSUME NEW e \in Events, Due(e)', ~(pc' = "dispatch" /\ e = event')
        PROVE  Due(e)
    <3>1. e.type = "cleanup_completed" => cleanup' # "error"
      BY <2>4 DEF Due
    <3>2. e.type # "cleanup_completed"
      <4>1. CASE pc' = "dispatch"
        <5>1. EventInv'
          BY <4>1 DEF RunInv, OutcomeInv
        <5>2. event'.type = "cleanup_completed"
          BY <2>1, <4>1
        <5>. QED  BY <2>4, <4>1, <5>1, <5>2 DEF EventInv, Events
      <4>2. CASE pc' # "dispatch"
        BY <2>1, <3>1, <4>2
      <4>. QED  BY <4>1, <4>2
    <3>. QED  BY <2>1, <2>4, <3>2 DEF Due, AnnouncedKind, FlagKind
  <2>5. ASSUME NEW e \in Events, Due(e), NEW i \in DOMAIN Providers
        PROVE  Told(e, i)
    BY <2>1, <2>5 DEF ToldInv
  <2>6. \A i \in DOMAIN Providers' : ~(i < next') \/ pc' # "dispatch"
    <3>1. \A i \in DOMAIN Providers : i \in Int /\ 1 <= i
      BY <2>3, NotifiersProperties
    <3>2. Providers' = Providers
      BY <2>1 DEF Providers
    <3>3. \A i \in DOMAIN Providers' : ~(i < 1)
      BY <3>1, <3>2
    <3>4. pc' = "dispatch" => next' = 1
      BY <2>1
    <3>. QED  BY <3>3, <3>4
  <2>7. DOMAIN Providers' = DOMAIN Providers
    BY <2>1 DEF Providers
  <2>8. \A e, i : Told(e, i)' <=> Told(e, i)
    BY <2>1, KeepsTold
  <2>. QED  BY <2>1, <2>2, <2>4, <2>5, <2>6, <2>7, <2>8 DEF ToldInv
<1>4. CASE StartSend
  <2>1. /\ pc = "dispatch" /\ ~DispatchOver /\ UNCHANGED <<pc, config, run, event, next, mail, status>>
    BY <1>4 DEF StartSend
  <2>2. DispatchOver' <=> DispatchOver
    BY <2>1 DEF DispatchOver, ShouldSend, IsSuccess, IsFailure, Notifiers
  <2>3. ShouldSend(event)' <=> ShouldSend(event)
    BY <2>1 DEF ShouldSend, IsSuccess, IsFailure
  <2>4. DOMAIN Providers' = DOMAIN Providers
    BY <2>1 DEF Providers
  <2>. QED  BY <2>1, <2>2, <2>3, <2>4, KeepsTold, KeepsDue DEF ToldInv
<1>5. CASE Send
  <2>. DEFINE to == Notifiers(config)[next].endpoint
  <2>1. /\ pc = "dispatch" /\ UNCHANGED <<pc, config, run, event, status>> /\ call = "request"
    BY <1>5 DEF Send, Request
  <2>2. PICK reply \in Replies :
          /\ call' = IF Classify(reply) = "ok" THEN "ok"
                     ELSE IF Retries(Classify(reply)) THEN "sleep" ELSE "failed"
          /\ received' \in {received, [received EXCEPT ![to] = @ \cup {event}]}
          /\ reply = "2xx" => received' = [received EXCEPT ![to] = @ \cup {event}]
          /\ refused' = IF call' = "failed" THEN [refused EXCEPT ![to] = @ \cup {event}] ELSE refused
          /\ next' = IF call' \in Ended THEN next + 1 ELSE next
    BY <1>5 DEF Send, Request
  <2>3. ~DispatchOver /\ Accepted(config) /\ RunTypeOK
    BY <2>1 DEF ToldInv, ConfigInv, RunInv
  <2>4. /\ next \in DOMAIN Providers /\ to = Providers[next].endpoint
        /\ \A i \in DOMAIN Providers : i \in Int /\ Providers[i].endpoint \in Endpoints
    <3>1. /\ Len(Notifiers(config)) \in Nat /\ DOMAIN Providers = 1 .. Len(Notifiers(config))
          /\ \A i \in DOMAIN Providers :
                /\ Providers[i].endpoint \in Endpoints
                /\ Notifiers(config)[i].endpoint = Providers[i].endpoint
      BY <2>3, NotifiersProperties
    <3>2. next \in Nat \ {0} /\ ~(next > Len(Notifiers(config)))
      BY <2>3 DEF DispatchOver, RunTypeOK
    <3>3. next \in DOMAIN Providers
      BY <3>1, <3>2
    <3>. QED  BY <3>1, <3>3
  <2>5. next \in Nat /\ received \in [Endpoints -> SUBSET Events] /\ refused \in [Endpoints -> SUBSET Events]
    BY <2>3 DEF RunTypeOK
  <2>. HIDE DEF to
  <2>6. Providers' = Providers /\ (ShouldSend(event)' <=> ShouldSend(event))
        /\ (DispatchOver' <=> ~ShouldSend(event) \/ next' > Len(Notifiers(config)))
    BY <2>1 DEF Providers, ShouldSend, IsSuccess, IsFailure, DispatchOver, Notifiers
  <2>7. ASSUME NEW e \in Events, NEW i \in DOMAIN Providers, Told(e, i) PROVE Told(e, i)'
    BY <2>2, <2>4, <2>5, <2>6, <2>7 DEF Told
  <2>8. call' \in Ended => call' \in {"ok", "failed"}
    BY <2>2 DEF Ended
  <2>9. call' = "ok" => reply = "2xx"
    BY <2>2 DEF Classify
  <2>10. ASSUME call' \in Ended PROVE event \in received'[to] \cup refused'[to]
    <3>1. to \in Endpoints
      BY <2>4
    <3>2. call' = "ok" => received'[to] = received[to] \cup {event}
      BY <2>2, <2>5, <2>9, <3>1
    <3>3. call' = "failed" => refused'[to] = refused[to] \cup {event}
      BY <2>2, <2>5, <3>1
    <3>. QED  BY <2>8, <2>10, <3>2, <3>3
  <2>11. ASSUME ShouldSend(event)', NEW i \in DOMAIN Providers, i < next' PROVE Told(event, i)'
    <3>1. CASE i < next
      <4>1. Told(event, i) /\ event \in Events
        BY <2>1, <2>6, <2>11, <3>1 DEF ToldInv, RunInv, OutcomeInv, EventInv
      <4>2. event' = event /\ i' = i
        BY <2>1
      <4>. QED  BY <2>7, <4>1, <4>2 DEF Told
    <3>2. CASE ~(i < next)
      <4>1. i = next /\ call' \in Ended
        BY <2>2, <2>4, <2>5, <2>11, <3>2
      <4>. QED  BY <2>1, <2>4, <2>6, <2>10, <4>1 DEF Told
    <3>. QED  BY <3>1, <3>2
  <2>12. ASSUME NEW e \in Events, Due(e)', e # event', NEW i \in DOMAIN Providers PROVE Told(e, i)'
    <3>1. Due(e) /\ e # event
      BY <2>1, <2>12, KeepsDue
    <3>2. Told(e, i)
      BY <2>1, <3>1 DEF ToldInv
    <3>. QED  BY <2>7, <3>2
  <2>13. call' \in {"request", "sleep"} => ~DispatchOver'
    BY <2>2, <2>3, <2>6 DEF DispatchOver, Ended
  <2>. QED  BY <2>1, <2>6, <2>11, <2>12, <2>13 DEF ToldInv
<1>6. CASE SleepBeforeRetry
  <2>1. /\ pc = "dispatch" /\ call = "sleep" /\ UNCHANGED <<pc, config, run, event, next, mail, status>>
    BY <1>6 DEF SleepBeforeRetry, Sleep
  <2>2. DispatchOver' <=> DispatchOver
    BY <2>1 DEF DispatchOver, ShouldSend, IsSuccess, IsFailure, Notifiers
  <2>3. ShouldSend(event)' <=> ShouldSend(event)
    BY <2>1 DEF ShouldSend, IsSuccess, IsFailure
  <2>4. DOMAIN Providers' = DOMAIN Providers
    BY <2>1 DEF Providers
  <2>. QED  BY <2>1, <2>2, <2>3, <2>4, KeepsTold, KeepsDue DEF ToldInv
<1>7. CASE EndDispatch
  <2>1. /\ pc = "dispatch" /\ call \in Ended /\ DispatchOver
        /\ UNCHANGED <<retry, config, run, event, next, mail>>
        /\ pc' # "dispatch"
    BY <1>7 DEF EndDispatch, AfterDispatch, Exit
  <2>2. call' \notin {"request", "sleep"}
    BY <2>1 DEF retry, Ended
  <2>3. EventInv /\ Accepted(config) /\ next \in Nat
    BY <2>1 DEF RunInv, OutcomeInv, ConfigInv, RunTypeOK
  <2>4. ASSUME NEW e \in Events, Due(e), NEW i \in DOMAIN Providers PROVE Told(e, i)
    <3>1. CASE e = event
      <4>1. ShouldSend(event)
        BY <2>4, <3>1 DEF Due, ShouldSend, IsSuccess, IsFailure
      <4>2. i < next
        BY <2>1, <2>3, <4>1, NotifiersProperties DEF DispatchOver
      <4>. QED  BY <2>1, <3>1, <4>1, <4>2 DEF ToldInv
    <3>2. CASE e # event
      BY <2>1, <2>4, <3>2 DEF ToldInv
    <3>. QED  BY <3>1, <3>2
  <2>5. DOMAIN Providers' = DOMAIN Providers
    BY <2>1 DEF Providers
  <2>. QED  BY <2>1, <2>2, <2>4, <2>5, KeepsDue, KeepsTold DEF ToldInv
<1>8. CASE UNCHANGED vars
  <2>1. UNCHANGED <<call, pc, config, run, event, next, mail>>
    BY <1>8 DEF vars, retry
  <2>2. DispatchOver' <=> DispatchOver
    BY <2>1 DEF DispatchOver, ShouldSend, IsSuccess, IsFailure, Notifiers
  <2>3. ShouldSend(event)' <=> ShouldSend(event)
    BY <2>1 DEF ShouldSend, IsSuccess, IsFailure
  <2>4. DOMAIN Providers' = DOMAIN Providers
    BY <2>1 DEF Providers
  <2>. QED  BY <2>1, <2>2, <2>3, <2>4, KeepsTold, KeepsDue DEF ToldInv
<1>. QED  BY <1>1, <1>2, <1>3, <1>4, <1>5, <1>6, <1>7, <1>8 DEF Step

(* A provider that fails, however it fails, costs nobody else an event.    *)
THEOREM EveryoneTold == Spec => []EveryoneIsTold
<1>1. Init => ToldInv
  BY DEF Init, RetryInit, ToldInv
<1>2. Init => ConfigInv
  BY DEF Init, ConfigInv
<1>3. ToldInv => EveryoneIsTold
  BY DEF ToldInv, EveryoneIsTold, Told, Providers
<1>. QED  BY <1>1, <1>2, <1>3, StepToldInv, StepConfigInv, SpecRunInv, PTL DEF Spec
=============================================================================
