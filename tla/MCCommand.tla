------------------------------ MODULE MCCommand ------------------------------
(***************************************************************************)
(* Command for TLC: a configuration that is valid, one that leaves out     *)
(* what may be left out, and one for each check of Config::validate that   *)
(* fails this check only.                                                  *)
(***************************************************************************)
EXTENDS Command

Provider(endpoint, method) == [endpoint |-> endpoint, method |-> method]

Good ==
    [url |-> "ok", database |-> "set", endpoint |-> "ok", clickhouseEndpoint |-> Absent,
     bucket |-> "set", prefix |-> "clean", region |-> "set",
     backup |-> [pollInterval |-> 1, timeout |-> 1],
     retry |-> [attempts |-> 4, baseDelay |-> 2, maxDelay |-> 3],
     interval |-> 1, keep |-> 1, keepDays |-> 1, autoCleanup |-> TRUE,
     notifications |-> [onSuccess |-> TRUE, onFailure |-> FALSE,
                        providers |-> <<Provider("slack", "POST"), Provider("hook", "PUT")>>]]

OnFailure ==
    [Good EXCEPT !.autoCleanup = FALSE, !.clickhouseEndpoint = "ok",
                 !.notifications = [onSuccess |-> FALSE, onFailure |-> TRUE,
                                    providers |-> <<Provider("hook", "no method"),
                                                    Provider("slack", "POST")>>]]

Sparse ==
    [Good EXCEPT !.backup = Absent, !.retry = Absent, !.keepDays = Absent,
                 !.notifications = Absent]

Invalid ==
    {[Good EXCEPT !.url = "schemeless"], [Good EXCEPT !.database = "empty"],
     [Good EXCEPT !.endpoint = "trailing slash"],
     [Good EXCEPT !.clickhouseEndpoint = "schemeless"],
     [Good EXCEPT !.bucket = "empty"], [Good EXCEPT !.prefix = "slashed"],
     [Good EXCEPT !.region = "empty"],
     [Good EXCEPT !.backup.pollInterval = 0], [Good EXCEPT !.backup.pollInterval = 2],
     [Good EXCEPT !.retry.attempts = 0], [Good EXCEPT !.retry.baseDelay = 0],
     [Good EXCEPT !.retry.maxDelay = 0], [Good EXCEPT !.interval = 0],
     [Good EXCEPT !.keep = 0], [Good EXCEPT !.keepDays = 0]}

MCFiles == {Good, OnFailure, Sparse} \cup Invalid
=============================================================================
