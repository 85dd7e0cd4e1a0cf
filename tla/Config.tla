------------------------------- MODULE Config --------------------------------
(***************************************************************************)
(* Config::load: the defaults serde fills in, and validation.  The         *)
(* overrides from the environment only set credentials, which are nothing  *)
(* but passed on.  A configuration is a record with a field for each key   *)
(* the program acts on.  An endpoint is "ok", "schemeless" or "trailing    *)
(* slash", a name is "set" or "empty", a prefix "clean" or "slashed";      *)
(* numbers are numbers.  A section or a key that a file may omit, and      *)
(* does, is Absent.                                                        *)
(***************************************************************************)
EXTENDS Integers, Sequences

CONSTANTS
    Absent,
    Endpoints  \* the URLs notifications go to

DefaultBackup == [pollInterval |-> 5, timeout |-> 86400]
DefaultRetry == [attempts |-> 3, baseDelay |-> 2, maxDelay |-> 50]
NotificationConfig ==
    [onSuccess : BOOLEAN, onFailure : BOOLEAN,
     providers : Seq([endpoint : Endpoints, method : STRING])]
NoNotifications == [onSuccess |-> FALSE, onFailure |-> FALSE, providers |-> <<>>]

(* What a file that parses may hold.                                       *)
ParsedFile ==
    [url : STRING, database : STRING, endpoint : STRING, clickhouseEndpoint : STRING \cup {Absent},
     bucket : STRING, prefix : STRING, region : STRING,
     backup : [pollInterval : Nat, timeout : Nat] \cup {Absent},
     retry : [attempts : Nat, baseDelay : Nat, maxDelay : Nat] \cup {Absent},
     interval : Nat, keep : Nat, keepDays : Nat \cup {Absent}, autoCleanup : BOOLEAN,
     notifications : NotificationConfig \cup {Absent}]

(* toml::from_str: the defaults of BackupConfig, RetryConfig, keep_days.   *)
(* Without a notification section the program sends nothing.               *)
Parse(f) ==
    [f EXCEPT !.backup = IF @ = Absent THEN DefaultBackup ELSE @,
              !.retry = IF @ = Absent THEN DefaultRetry ELSE @,
              !.notifications = IF @ = Absent THEN NoNotifications ELSE @]

(* validate_endpoint_url                                                   *)
EndpointIsValid(url) == url \notin {"schemeless", "trailing slash"}

PollsAreUnchecked(c) ==  \* faulty variant: poll_interval against the timeout only
    c.backup.pollInterval <= c.backup.timeout

PollsAreValid(c) ==
    c.backup.pollInterval # 0 /\ c.backup.timeout >= c.backup.pollInterval

RetryIsValid(c) ==
    /\ c.retry.attempts # 0
    /\ c.retry.baseDelay # 0 /\ c.retry.baseDelay <= c.retry.maxDelay

RetentionIsValid(c) == c.interval # 0 /\ c.keep # 0 /\ c.keepDays # 0

(* validate, check by check.                                               *)
IsValid(c) ==
    /\ EndpointIsValid(c.url)
    /\ c.database # "empty"
    /\ EndpointIsValid(c.endpoint)
    /\ c.clickhouseEndpoint = Absent \/ EndpointIsValid(c.clickhouseEndpoint)
    /\ c.bucket # "empty"
    /\ c.prefix # "slashed"
    /\ c.region # "empty"
    /\ PollsAreValid(c)
    /\ RetryIsValid(c)
    /\ RetentionIsValid(c)

(* What the other modules assume of their constants.                       *)
PollTimesAssumed(c) ==  \* PollLoop!TimesAssumption
    c.backup.pollInterval \in Nat \ {0} /\ c.backup.pollInterval <= c.backup.timeout
AttemptsAssumed(c) ==   \* PrefixDelete!AttemptsAssumption, Retry!RetryTypeOK
    c.retry.attempts \in Nat \ {0} /\ 0 < c.retry.baseDelay /\ c.retry.baseDelay <= c.retry.maxDelay
KeepAssumed(c) ==       \* Vault!KeepAssumption; an interval of 0 would never take an incremental
    c.keep \in Nat \ {0} /\ c.interval \in Nat \ {0}

Usable(c) == PollTimesAssumed(c) /\ AttemptsAssumed(c) /\ KeepAssumed(c)
=============================================================================
