------------------------------ MODULE PollLoop ------------------------------
(***************************************************************************)
(* progress::poll_until_complete against the row of system.backups it      *)
(* polls.  The server moves the row at any time, forgets it when it        *)
(* restarts, shows a status this version does not know, or answers without *)
(* the row although it is there; time passes in queries and in sleeps.     *)
(***************************************************************************)
EXTENDS Integers

CONSTANTS
    Timeout,         \* backup.timeout_secs
    PollInterval,    \* backup.poll_interval_secs
    QueryTime,       \* bound: the longest query with its retries
    MaxMissingPolls,
    MaxUnknownPolls,
    MaxBlinks        \* bound: consecutive answers without a row that exists

ASSUME TimesAssumption ==
    /\ PollInterval \in Nat \ {0} /\ QueryTime \in Nat
    /\ Timeout \in Nat /\ PollInterval <= Timeout  \* Config::validate
ASSUME LimitsAssumption ==
    /\ MaxMissingPolls \in Nat \ {0} /\ MaxUnknownPolls \in Nat \ {0}
    /\ MaxBlinks \in Nat /\ MaxBlinks < MaxMissingPolls

VARIABLES
    row,       \* the status in system.backups: an action class, or "gone"
    pc,        \* "check" the timeout, "query", "answer" of it, "sleep", "returned"
    result,    \* what the loop returned
    shown,     \* the status in the server's answer, or "none"
    elapsed,   \* start.elapsed()
    until,     \* when the query is answered at the latest, or the sleep ends
    missing,   \* missing_polls
    unknown,   \* unknown_polls
    blinks,    \* history: how long the row has been missing by mistake
    doneAt     \* history: when the backup completed

server == <<row, blinks, doneAt>>
loop == <<pc, result, shown, until, missing, unknown>>
vars == <<server, loop, elapsed>>

Statuses == {"creating", "created", "failed", "strange"}
Results == {"none", "completed", "failed", "unrecognised", "lost", "timeout", "error"}

TypeOK ==
    /\ row \in Statuses \cup {"gone"}
    /\ pc \in {"check", "query", "answer", "sleep", "returned"}
    /\ result \in Results
    /\ shown \in Statuses \cup {"none"}
    /\ elapsed \in Nat /\ until \in Nat
    /\ missing \in 0 .. MaxMissingPolls
    /\ unknown \in 0 .. MaxUnknownPolls
    /\ blinks \in 0 .. MaxBlinks
    /\ doneAt \in Nat

Init ==
    /\ row = "creating"
    /\ pc = "check"
    /\ result = "none" /\ shown = "none"
    /\ elapsed = 0 /\ until = 0
    /\ missing = 0
    /\ unknown = 0
    /\ blinks = 0
    /\ doneAt = 0

Return(answer) == pc' = "returned" /\ result' = answer /\ UNCHANGED until

Sleep == pc' = "sleep" /\ until' = elapsed + PollInterval /\ UNCHANGED result

(* The limits on missing and unknown polls.                                *)
PastLimit(polls, limit) ==  \* faulty variant: one poll too many
    polls > limit

AtLimit(polls, limit) == polls >= limit

(* The top of the loop; the query that follows takes its time, retries     *)
(* included.                                                               *)
ExpiredWhenFound ==  \* faulty variant: only checked after polls that found the row
    missing = 0 /\ elapsed > Timeout

ExpiredBeforeSleep ==  \* faulty variant: gives up when the next sleep would pass the timeout
    elapsed + PollInterval > Timeout

Expired == elapsed > Timeout

CheckTimeout ==
    /\ pc = "check"
    /\ IF Expired THEN Return("timeout")
       ELSE pc' = "query" /\ until' = elapsed + QueryTime /\ UNCHANGED result
    /\ UNCHANGED <<server, shown, elapsed, missing, unknown>>

(* The server answers, the last attempt if there were several: with the    *)
(* row as it is now, or without a row although it exists.                  *)
Answer ==
    /\ pc = "query" /\ pc' = "answer"
    /\ \/ row = "gone" /\ shown' = "none" /\ UNCHANGED blinks
       \/ row # "gone" /\ shown' = row /\ blinks' = 0
       \/ row # "gone" /\ blinks < MaxBlinks /\ shown' = "none" /\ blinks' = blinks + 1
    /\ UNCHANGED <<row, result, elapsed, until, missing, unknown, doneAt>>

(* get_backup_status fails after its retries.                              *)
QueryFails ==
    /\ pc \in {"query", "answer"}
    /\ Return("error")
    /\ UNCHANGED <<server, shown, elapsed, missing, unknown>>

PollMissing ==
    /\ pc = "answer" /\ shown = "none"
    /\ missing' = missing + 1
    /\ IF AtLimit(missing', MaxMissingPolls) THEN Return("lost") ELSE Sleep
    /\ UNCHANGED <<server, shown, elapsed, unknown>>

(* missing_polls = 0: a row was found.                                     *)
MissingKept ==  \* faulty variant: the count is not reset
    UNCHANGED missing

ResetMissing == missing' = 0

ResetUnknown == unknown' = 0

PollInProgress ==
    /\ pc = "answer" /\ shown = "creating"
    /\ ResetMissing /\ ResetUnknown
    /\ Sleep
    /\ UNCHANGED <<server, shown, elapsed>>

PollEnded ==
    /\ pc = "answer" /\ shown \in {"created", "failed"}
    /\ Return(IF shown = "created" THEN "completed" ELSE "failed")
    /\ ResetMissing
    /\ UNCHANGED <<server, shown, elapsed, unknown>>

PollUnknown ==
    /\ pc = "answer" /\ shown = "strange"
    /\ ResetMissing
    /\ unknown' = unknown + 1
    /\ IF AtLimit(unknown', MaxUnknownPolls) THEN Return("unrecognised") ELSE Sleep
    /\ UNCHANGED <<server, shown, elapsed>>

(* Time passes while the loop waits for an answer or sleeps; the time its  *)
(* own steps take is left out.                                             *)
TimePasses ==
    /\ pc \in {"query", "answer", "sleep"} /\ elapsed < until
    /\ elapsed' = elapsed + 1
    /\ UNCHANGED <<server, loop>>

ClockRestarted ==  \* faulty variant: start is read again in every iteration
    /\ pc = "sleep" /\ elapsed = until
    /\ pc' = "check" /\ elapsed' = 0
    /\ UNCHANGED <<server, result, shown, until, missing, unknown>>

WakeUp ==
    /\ pc = "sleep" /\ elapsed = until
    /\ pc' = "check"
    /\ UNCHANGED <<server, result, shown, elapsed, until, missing, unknown>>

(* The server, at any time: an unfinished backup ends or shows another     *)
(* status, and any row vanishes with a restart.                            *)
ServerMoves ==
    /\ row # "gone"
    /\ row' \in IF row \in {"creating", "strange"}
                  THEN (Statuses \cup {"gone"}) \ {row}
                  ELSE {"gone"}
    /\ doneAt' = IF row' = "created" THEN elapsed ELSE doneAt
    /\ UNCHANGED <<loop, elapsed, blinks>>

Poll ==
    \/ CheckTimeout \/ Answer \/ QueryFails
    \/ PollMissing \/ PollInProgress \/ PollEnded \/ PollUnknown
    \/ TimePasses \/ WakeUp

Next == Poll \/ ServerMoves

Spec == Init /\ [][Next]_vars

(* The loop runs; nothing is assumed of the server, not even that the      *)
(* backup ends.                                                            *)
FairSpec == Spec /\ WF_vars(Poll)

(***************************************************************************)
(* Properties                                                              *)
(***************************************************************************)
(* A lost backup is really gone from the server, so that rolling its data  *)
(* back cannot race a running BACKUP: the missing polls tolerate a row     *)
(* that is not shown MaxBlinks times, however often that happens.          *)
LostMeansGone == result = "lost" => row = "gone"

(* The loop overruns its timeout by at most one sleep and one query.       *)
OverrunIsBounded == elapsed <= Timeout + QueryTime + PollInterval

(* Reporting TIMEOUT for a backup that has completed throws it away: its   *)
(* data never gets a sidecar.  It happens to one that completes after the  *)
(* last answer, for the loop looks at its timeout before it queries again  *)
(* (progress.rs:132); but only if it completes less than one round, a      *)
(* query and a sleep, before the timeout, and one round more for each      *)
(* answer in a row that leaves its row out.                                *)
TimeoutMeansLate ==
    result = "timeout" /\ row = "created" =>
        doneAt + (MaxBlinks + 1) * (PollInterval + QueryTime) > Timeout

(* poll_until_complete returns, whatever the server does.                  *)
Returns == <>(pc = "returned")
=============================================================================
