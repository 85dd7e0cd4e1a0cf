------------------------------- MODULE Command -------------------------------
(***************************************************************************)
(* One invocation of the program, from main: load the configuration, build *)
(* the bucket handle, run the subcommand, announce its outcome to every    *)
(* provider with Retry around each send, and exit.  What a backup and a    *)
(* cleanup do is Vault's business; here they have outcomes.                *)
(***************************************************************************)
EXTENDS Retry, Config

CONSTANTS
    Files,   \* the configuration files that parse
    Methods  \* the HTTP methods that parse

ASSUME FilesAssumption == Files \subseteq ParsedFile

VARIABLES
    pc,        \* where main is
    config,    \* the configuration, once it is loaded
    command,   \* the subcommand with its flag
    backup,    \* how the backup ended: a result, and the kind it decided on
    cleanup,   \* how the cleanup ended
    event,     \* the BackupEvent being dispatched
    next,      \* the notifier dispatch sends to
    received,  \* the events each endpoint has received
    refused,   \* the events each notifier gave up on
    status     \* the exit status

run == <<command, backup, cleanup>>
mail == <<received, refused>>
vars == <<retry, pc, config, run, event, next, mail, status>>

Commands ==
    [name : {"backup"}, full : BOOLEAN]
        \cup [name : {"list", "status", "check", "cleanup", "dry run"}, full : {FALSE}]
Kinds == {"full", "incremental"}
Events ==
    [type : {"backup_completed", "backup_failed"}, kind : Kinds]
        \cup {[type |-> "cleanup_completed", kind |-> "none"]}
NoEvent == [type |-> "none", kind |-> "none"]

TypeOK ==
    /\ RetryTypeOK
    /\ pc \in {"load", "bucket", "command", "dispatch", "auto cleanup", "exited"}
    /\ command \in Commands
    /\ backup \in [result : {"none", "completed", "failed"}, kind : Kinds \cup {"undecided"}]
    /\ cleanup \in {"none", "complete", "partial", "error"}
    /\ event \in Events \cup {NoEvent}
    /\ next \in Nat \ {0}
    /\ received \in [Endpoints -> SUBSET Events]
    /\ refused \in [Endpoints -> SUBSET Events]
    /\ status \in {0, 1}

Init ==
    /\ RetryInit
    /\ pc = "load"
    /\ config = Absent
    /\ command \in Commands
    /\ backup = [result |-> "none", kind |-> "undecided"]
    /\ cleanup = "none"
    /\ event = NoEvent
    /\ next = 1
    /\ received = [e \in Endpoints |-> {}]
    /\ refused = [e \in Endpoints |-> {}]
    /\ status = 0

Exit(code) == pc' = "exited" /\ status' = code

(***************************************************************************)
(* Start                                                                   *)
(***************************************************************************)
(* Config::load: reading or parsing fails, or the parsed file is validated. *)
LoadFails ==
    /\ pc = "load"
    /\ Exit(1)
    /\ UNCHANGED <<retry, config, run, event, next, mail>>

Load ==
    /\ pc = "load"
    /\ \E f \in Files :
          IF IsValid(Parse(f))
            THEN config' = Parse(f) /\ pc' = "bucket" /\ UNCHANGED status
            ELSE Exit(1) /\ UNCHANGED config
    /\ UNCHANGED <<retry, run, event, next, mail>>

(* build_bucket, which may find no credentials or no usable handle, and    *)
(* RetryConfig::policy.                                                    *)
BuildBucket ==
    /\ pc = "bucket"
    /\ \/ Exit(1) /\ UNCHANGED retry
       \/ pc' = "command" /\ Configure(config.retry) /\ UNCHANGED status
    /\ UNCHANGED <<config, run, event, next, mail>>

(***************************************************************************)
(* Subcommands                                                             *)
(***************************************************************************)
Announce(e) == event' = e /\ next' = 1 /\ pc' = "dispatch" /\ UNCHANGED status

(* run_backup may fail before it decides on a kind.                        *)
FlagKind == IF command.full THEN "full" ELSE "incremental"

KindFromFlag(kind) ==  \* faulty variant: the kind the flag implies
    FlagKind

AnnouncedKind(kind) == IF kind = "undecided" THEN FlagKind ELSE kind

RunBackup ==
    /\ pc = "command" /\ command.name = "backup"
    /\ \E kind \in IF command.full THEN {"full"} ELSE Kinds :
          \/ /\ backup' = [result |-> "completed", kind |-> kind]
             /\ Announce([type |-> "backup_completed", kind |-> kind])
          \/ \E decided \in {kind, "undecided"} :
                /\ backup' = [result |-> "failed", kind |-> decided]
                /\ Announce([type |-> "backup_failed", kind |-> AnnouncedKind(decided)])
    /\ UNCHANGED <<retry, config, command, cleanup, mail>>

(* Auto cleanup: an error is logged and ends the run as a success.         *)
AutoCleanupFailsRun(outcome) ==  \* faulty variant: the error is propagated
    1

AutoCleanupStatus(outcome) == 0

AutoCleanup ==
    /\ pc = "auto cleanup"
    /\ cleanup' \in {"complete", "partial", "error"}
    /\ IF cleanup' = "error"
         THEN Exit(AutoCleanupStatus(cleanup')) /\ UNCHANGED <<event, next>>
         ELSE Announce([type |-> "cleanup_completed", kind |-> "none"])
    /\ UNCHANGED <<retry, config, command, backup, mail>>

(* The cleanup command: strict discovery may fail; a report is announced   *)
(* whether it has failures or not, a dry run's is not.                     *)
RunCleanup ==
    /\ pc = "command" /\ command.name = "cleanup"
    /\ cleanup' \in {"complete", "partial", "error"}
    /\ IF cleanup' = "error" THEN Exit(1) /\ UNCHANGED <<event, next>>
       ELSE Announce([type |-> "cleanup_completed", kind |-> "none"])
    /\ UNCHANGED <<retry, config, command, backup, mail>>

(* list, status, check and a dry run read, print, and may fail; check also *)
(* fails with an unhealthy report.                                         *)
Read ==
    /\ pc = "command" /\ command.name \notin {"backup", "cleanup"}
    /\ \E code \in {0, 1} : Exit(code)
    /\ UNCHANGED <<retry, config, run, event, next, mail>>

(***************************************************************************)
(* Notifications                                                           *)
(***************************************************************************)
(* A webhook whose method does not parse uses POST.                        *)
MethodOf(m) == IF m \in Methods THEN m ELSE "POST"

(* build_notifiers: one notifier for each provider, in their order.        *)
Notifiers(c) ==
    [i \in DOMAIN c.notifications.providers |->
        [c.notifications.providers[i] EXCEPT !.method = MethodOf(@)]]

IsSuccess(e) == e.type \in {"backup_completed", "cleanup_completed"}
IsFailure(e) == e.type = "backup_failed"

ShouldSend(e) ==
    \/ IsSuccess(e) /\ config.notifications.onSuccess
    \/ IsFailure(e) /\ config.notifications.onFailure

(* The answers to a send, and is_transient_send.                           *)
Replies == {"2xx", "408", "429", "5xx", "other status", "connect", "timeout", "broken response"}

Classify(reply) ==
    IF reply = "2xx" THEN "ok"
    ELSE IF reply \in {"connect", "timeout", "408", "429", "5xx"} THEN "transient"
    ELSE "definitive"

(* What main does once the event is dispatched.                            *)
CleanupStatus == IF command.name = "cleanup" /\ cleanup = "partial" THEN 1 ELSE 0

AfterDispatch ==
    IF event.type = "backup_completed" /\ config.autoCleanup
      THEN pc' = "auto cleanup" /\ UNCHANGED status
      ELSE Exit(IF event.type = "backup_failed" THEN 1
                ELSE IF event.type = "cleanup_completed" THEN CleanupStatus ELSE 0)

StopsAtFailure ==  \* faulty variant: dispatch returns the first error
    ~ShouldSend(event) \/ call = "failed" \/ next > Len(Notifiers(config))

DispatchOver == ~ShouldSend(event) \/ next > Len(Notifiers(config))

EndDispatch ==
    /\ pc = "dispatch" /\ call \in Ended /\ DispatchOver
    /\ AfterDispatch
    /\ UNCHANGED <<retry, config, run, event, next, mail>>

StartSend ==
    /\ pc = "dispatch" /\ ~DispatchOver
    /\ Start
    /\ UNCHANGED <<pc, config, run, event, next, mail, status>>

(* One request.  An endpoint may have handled it although its answer says  *)
(* otherwise, unless there was no connection.                              *)
Send ==
    /\ pc = "dispatch"
    /\ \E reply \in Replies :
          LET endpoint == Notifiers(config)[next].endpoint
          IN  /\ Request(Classify(reply))
              /\ received' \in
                    (IF reply = "2xx" THEN {} ELSE {received})
                       \cup IF reply = "connect" THEN {}
                            ELSE {[received EXCEPT ![endpoint] = @ \cup {event}]}
              /\ refused' = IF call' = "failed" THEN [refused EXCEPT ![endpoint] = @ \cup {event}]
                            ELSE refused
              /\ next' = IF call' \in Ended THEN next + 1 ELSE next
    /\ UNCHANGED <<pc, config, run, event, status>>

ForgetsAttempts ==  \* faulty variant: every retry starts a new call
    /\ pc = "dispatch" /\ call = "sleep"
    /\ call' = "request" /\ attempt' = 0 /\ slept' = 0
    /\ UNCHANGED <<policy, answer, pc, config, run, event, next, mail, status>>

SleepBeforeRetry ==
    /\ pc = "dispatch"
    /\ Sleep
    /\ UNCHANGED <<pc, config, run, event, next, mail, status>>

Step ==
    \/ LoadFails \/ Load \/ BuildBucket
    \/ RunBackup \/ AutoCleanup \/ RunCleanup \/ Read
    \/ StartSend \/ Send \/ SleepBeforeRetry \/ EndDispatch

Spec == Init /\ [][Step]_vars

(* main runs: every request has a timeout, the notifications 30 seconds.   *)
FairSpec == Spec /\ WF_vars(Step)

(***************************************************************************)
(* Properties                                                              *)
(***************************************************************************)
(* What Config::validate accepts satisfies the assumptions under which the *)
(* other modules are checked and proved.                                   *)
AcceptedIsUsable == config # Absent => Usable(config)

(* The events a run owes its endpoints, by what happened and what the      *)
(* configuration asks for.                                                 *)
Due(e) ==
    \/ /\ e.type = "backup_completed" /\ config.notifications.onSuccess
       /\ backup = [result |-> "completed", kind |-> e.kind]
    \/ /\ e.type = "backup_failed" /\ config.notifications.onFailure
       /\ backup.result = "failed" /\ e.kind = AnnouncedKind(backup.kind)
    \/ /\ e.type = "cleanup_completed" /\ config.notifications.onSuccess
       /\ cleanup \in {"complete", "partial"}

(* Notifications are independent of each other: when the program exits,    *)
(* every configured endpoint has received every due event, or the sends to *)
(* that endpoint itself have failed for good.                              *)
EveryoneIsTold ==
    pc = "exited" /\ config # Absent =>
        \A i \in DOMAIN config.notifications.providers : \A e \in Events :
            Due(e) => e \in received[config.notifications.providers[i].endpoint]
                              \cup refused[config.notifications.providers[i].endpoint]

(* Whatever an endpoint received is what happened: the kind is the one the *)
(* run decided on, and the exit status agrees with it.                     *)
EventsAreTrue ==
    \A endpoint \in Endpoints : \A e \in received[endpoint] :
        /\ e.type = "backup_completed" =>
              /\ backup = [result |-> "completed", kind |-> e.kind]
              /\ pc = "exited" => status = 0
        /\ e.type = "backup_failed" =>
              /\ backup.result = "failed" /\ backup.kind \in {e.kind, "undecided"}
              /\ pc = "exited" => status = 1
        /\ e.type = "cleanup_completed" => cleanup \in {"complete", "partial"}

(* The exit status: a failed backup and an incomplete cleanup show in it,  *)
(* also when the cleanup was announced as completed; the cleanup after a   *)
(* backup and failing notifications never do.                              *)
FailuresShow ==
    pc = "exited" =>
        /\ status = 0 => backup.result # "failed"
        /\ status = 0 /\ command.name = "cleanup" => cleanup = "complete"
        /\ backup.result = "completed" => status = 0
        /\ command.name = "cleanup" /\ cleanup = "complete" => status = 0

(* The program exits, whatever the endpoints answer.                       *)
Exits == <>(pc = "exited")
=============================================================================
