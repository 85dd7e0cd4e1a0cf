# A TLA+ verification of clickvault

`clickvault` takes full and incremental ClickHouse backups into an S3 bucket, keeps a metadata sidecar beside
each, and deletes old backup chains. It has no daemon and no lock: every command is a short-lived process,
usually started by cron, and all that processes share is the bucket and `system.backups` on the ClickHouse
server. What can go wrong is therefore in the overlap of processes, in requests that fail halfway, and in
decisions taken from a view of the bucket that has become old. This directory models that, checks it with TLC
and proves the most important part of it with TLAPS.

Paths below are relative to the repository (`src/...` is the crate).

## 1. The system

| Component | State | Operations | Correct when |
| --- | --- | --- | --- |
| backup run (`src/backup/executor.rs`) | the run's locals; nothing shared but its objects | guard, discover, decide, submit, poll, write sidecar, roll back | a run that reports success has left a restorable backup; a run that fails leaves nothing visible |
| poll loop (`src/backup/progress.rs`) | `start`, `missing_polls`, `unknown_polls` | `poll_until_complete` | it ends, in bounded time, and calls a backup lost only when it is |
| discovery (`src/backup/discovery.rs`) | none; a view collected over many requests | `discover_chains`, `discover_chains_strict`, `group_chains` | a backup that is visible all the time is seen, and attached to the chain it belongs to |
| cleanup (`src/cleanup.rs`) | `CleanupReport`, `chain_failures` | `select_chains_for_deletion`, `cleanup` | the newest `keep_full_backups` chains and the young ones stay; what is selected is deleted or stays visible; the report tells the truth |
| S3 helpers (`src/s3.rs`) | the bucket: objects and sidecars | `write_metadata`, `read_metadata`, `list_prefixes`, `delete_prefix`, `delete_keys` | the sidecar goes last; a complete deletion leaves nothing; every key is counted |
| health check (`src/check.rs`, `parse_max_age` of `src/cli.rs`) | none | `evaluate` | it reports the most recent backup; OK means young enough, and a young enough backup is OK |
| dispatch (`src/main.rs`) | the outcome of the subcommand | backup (with auto cleanup), cleanup, list, status, check | failures show in the exit status, those of an auto cleanup and of notifications do not |
| retry (`src/retry.rs`) | attempt number | `with_retry`, `backoff_cap`, `jittered` | bounded attempts and sleeps, only for transient errors |
| notifications (`src/notify/`) | none | `dispatch`, `should_send`, `send_with_retry` | everyone is told, the truth only; a failing provider changes nothing else |
| configuration (`src/config.rs`) | the configuration | defaults, `validate` | what is accepted satisfies what the rest of the program relies on |
| command line, errors (`src/cli.rs`, `src/error.rs`) | none | parsing, messages | - |
| ClickHouse server (external) | `system.backups`, in memory | `BACKUP ... ASYNC` | - |

How they interact. `main` calls `run_backup`; that asks the server (guard), lists and reads the bucket
(discovery), submits `BACKUP`, polls the server, and writes the sidecar. From then on the backup is visible to
the discovery of every other process. With `auto_cleanup` the same process continues with `cleanup`, which
discovers again, strictly, and calls `delete_prefix` for each backup of each selected chain. A failed sidecar
write, and a backup whose row vanished, end in `delete_prefix` on the run's own path. Nothing locks the bucket.

The hard behaviours: two runs between guard and sidecar; a cleanup next to a backup that extends the chain
being deleted; two cleanups of one chain; a process that dies or a request that fails between two deletions; a
PUT applied after its client gave up on it; a server restart that forgets running backups; a poll loop that
sees a row, no row, and unknown statuses in any order. `PROJECT.json` lists each as a hazard, at its line.

## 2. The modules

| Module | Models | Is used by |
| --- | --- | --- |
| `BackupChains` | the pure functions: `group_chains`, `BackupChain::latest`, `should_do_full_backup`, `decide_kind`, `select_chains_for_deletion`, the choice of `check::evaluate` | `Vault`, `Discovery`, `BackupChainsProofs` |
| `BackupChainsProofs` | what `group_chains` computes, for any set of backups | `VaultCleanupProofs`, `DiscoveryProofs` |
| `Vault` | the whole system: any number of `backup` and `cleanup` invocations, the bucket, the server | `MCVault`, `VaultProofs` |
| `MCVault` | the symmetry of the invocations, for TLC | the `vault_*` runs |
| `VaultProofs` | theorems about `Vault`: types, ages, retention of full backups | `VaultCleanupProofs` |
| `VaultCleanupProofs` | theorems about `Vault`: what deletions leave, retention of whole chains | `VaultSequentialProofs` |
| `VaultSequentialProofs` | theorems about `Vault` when invocations do not overlap | - |
| `PrefixDelete` | `delete_prefix` and `delete_keys`, key by key and request by request, any number of them on one prefix | `PrefixDeleteProofs` |
| `DeleteContract` | what `delete_prefix` promises its callers | `PrefixDelete` (refinement) |
| `PrefixDeleteProofs` | theorems about `PrefixDelete`, the refinement among them | - |
| `PollLoop` | `poll_until_complete` against the row it polls | `PollLoopProofs` |
| `PollLoopProofs` | theorems about `PollLoop` | - |
| `Discovery` | one discovery, request by request, for `check` and for cleanup, in a bucket that other invocations change | `MCDiscovery`, `DiscoveryProofs` |
| `MCDiscovery` | the symmetry of the paths and the values of `--max-age`, for TLC | the run `discovery` |
| `DiscoveryProofs` | theorems about `Discovery` | - |
| `Retry` | `with_retry` and its backoff | `Command` |
| `Config` | the defaults and `validate`, as operators on a configuration record | `Command` |
| `Command` | `main` from the configuration file to the exit status, with the notifications | `MCCommand`, `CommandProofs` |
| `MCCommand` | the configuration files, for TLC | the run `command` |
| `CommandProofs` | theorems about `Retry`, about `Command`, and that `Command` implements `Retry` | - |

`PrefixDelete` and `PollLoop` are the magnified parts of `Vault`. `Vault` deletes a prefix in three steps
(list; delete the data, all at once or first some of it; delete the sidecar) plus a failure that leaves things
behind. `PrefixDelete` justifies this: it refines `DeleteContract`, which says what `Vault` uses, that data
goes before the sidecar and that a complete answer means an empty prefix. `Vault` polls in one step:
`PollCompleted`, `PollFailed`, `PollLost`, `PollGivesUp` are the ways `poll_until_complete` returns.
`PollLoop` shows that it does return, and (`LostMeansGone`) that `PollLost` may be guarded by a row that is
really gone.

`Discovery` magnifies the other part: in `Vault` a listing and the reads of its sidecars are one step, in
`Discovery` each sidecar is a request of its own, and the attach loop of `group_chains` runs one incremental at
a time. In exchange the invocations around the reader are simpler there: backups run one after another, and so
do cleanups, which is what the in-progress guard and cron are for. `Command` is what surrounds all of it in one
process: `Vault` takes a valid configuration for granted and stops at an outcome, `Command` checks the one
(`AcceptedIsUsable` names the assumptions of the other modules) and starts from the other.

Definitions that begin with a comment "faulty variant" are not part of any specification. Each changes the
definition after it the way a plausible mistake in the code would, and `PROJECT.json` names the property that
notices.

### Vault: state and actions

| Variable | Code |
| --- | --- |
| `pc[p]`, `job[p]` | where the process is; whether it executes `backup` or `cleanup` (a backup with auto cleanup goes from one to the other) |
| `view[p]` | the backups its discovery has read: the `fulls` and `incrementals` vectors of `discover_chains_with` |
| `meta[p]` | the `BackupMetadata` of the backup the process takes: kind, `timestamp`, `base_backup_path` |
| `todo[p]` | what `cleanup` (or the rollback) has still to delete; a unit is a chain: its incrementals `before`, then its full backup `last` |
| `bad[p]`, `dirty[p]` | `chain_failures > 0`; `CleanupReport::has_failures` |
| `held[p]` | `sidecar_keys` of the running `delete_prefix` is not empty |
| `row[p]` | the status of the backup in `system.backups` |
| `data[p]`, `sidecar`, `late` | the bucket: data objects none, some or all; the paths with a sidecar; PUTs still in flight |
| `picked[p]`, `faults` | history, and the number of faults so far |

One process takes at most one backup, so a process also names its backup, path, row and objects. Each action
is one request of the program, or a stretch of local computation with at most one request in it; between two
actions anything else may happen. The actions follow the code in order: `Guard`, `ListFulls`,
`ListIncrementals`, `Decide`, `Submit`, `Poll...`, `WriteMetadata`; then `ListFulls`, `ListIncrementals`,
`Select`, and `DeleteList`, `DeleteSome`, `DeleteData`, `DeleteMeta` for each victim. `Advance` is the rest of
the iteration after a `delete_prefix`: it accounts failures, keeps the full backup when an incremental failed,
goes to the next chain, and ends the invocation. `SubmitFails`, `PollGivesUp`, `PollLost`,
`WriteMetadataFails`, `ReadFails`, `DeleteFails` are the error paths, `Crash` is a kill, `LatePut` is the
object store applying a PUT whose client has given up, and `Server...` is ClickHouse.

Faults have classes (`FaultClasses`); a run states which classes may happen and how many faults in all.

### Discovery: state and actions

| Variable | Code |
| --- | --- |
| `pc`, `command`, `request` | where the reader is; whether `check` or cleanup discovers; the parsed `--max-age` |
| `listed`, `view` | the directories whose sidecar is still to be read; the backups read: `list_backups` |
| `chainOf`, `todo` | the map and the rest of the incrementals in `group_chains` |
| `verdict`, `selected` | what `check::evaluate` and `select_chains_for_deletion` return |
| `dirs`, `sidecar`, `meta`, `pending`, `doomed` | the bucket, the backup that runs, the chain another cleanup is deleting |
| `steady`, `skipped`, `root`, `once`, `endedAt` | history: visible ever since the reader began; sidecars it could not read; the full backup each depends on; visible at some time; when it decided |

`ListFulls`, `ReadMetadata`, `ListIncrementals`, `ReadMetadata`, `GroupChainsOf`, `AttachOldest`, then
`Evaluate` or `Select`, are the reader's steps in the order of the code. `ReadMetadata` has the three results of
`read_metadata`: the sidecar, `Missing` (a 404: the directory has none, or no longer), or an error, which
strict discovery does not survive. Between any two of them the others act, and time passes:
- a backup is submitted on what `check` would report, finished (`WriteMetadata`) or fails;
- another cleanup selects a chain of the bucket as it is (`CleanupSelects`, with `select_chains_for_deletion` as in
  `BackupChains`), deletes its newest backup (`CleanupDeletes`), fails to delete it and goes on with the older
  incrementals but keeps the full backup (`CleanupFails`, `cleanup.rs:97-120`), or is killed (`CleanupStops`).
  After a failure an incremental may stay visible while its base is deleted; `group_chains` drops it.

The clock of the reader may be behind.

### PollLoop: state and actions

| Variable | Code |
| --- | --- |
| `pc`, `result` | where the loop is: at its timeout, in a query, with an answer, asleep, returned; what it returned |
| `elapsed`, `until` | `start.elapsed()`; when the query is answered at the latest, or the sleep ends |
| `shown` | the status in the answer, which may no longer be the row's |
| `missing`, `unknown` | `missing_polls`, `unknown_polls` |
| `row` | the row of `system.backups` |
| `blinks`, `doneAt` | history: how many answers in a row left an existing row out; when the backup completed |

`CheckTimeout`, `Answer` (or `QueryFails`), then `PollMissing`, `PollInProgress`, `PollUnknown` or `PollEnded` on
what was `shown`, then a sleep that `WakeUp` ends, are an iteration of the loop. `TimePasses` is one tick, while the
loop waits for an answer or sleeps, and `ServerMoves` is possible at every instant: the row may have changed between
the query and its answer, between the answer and the decision, and during the sleep.

### Command: state and actions

| Variable | Code |
| --- | --- |
| `pc`, `status` | where `main` is; the exit status |
| `config`, `policy` | the `Config` after `load`; the `RetryPolicy` made of it |
| `command`, `backup`, `cleanup` | the subcommand and `--full`; how its work ended |
| `event`, `next` | the `BackupEvent` in `dispatch`, the notifier it is at |
| `call`, `attempt`, `slept` | the state of `with_retry` (from `Retry`) |
| `received`, `refused`, `answer` | history: what each endpoint received, what its notifier gave up on, the last answer |

`Load`, `BuildBucket`, `RunBackup`, `AutoCleanup`, `RunCleanup`, `Read` are the stretches of `main`;
`StartSend`, `Send`, `SleepBeforeRetry` and `EndDispatch` are `dispatch`. A send whose answer is an error, a
timeout included, may have been handled by the endpoint all the same; only a failed connection tells that it
was not.

### Abstractions

- Timestamps are ticks of one clock that never goes back, and `Decide` advances it, so that two runs never
  share a millisecond. `group_chains` needs the first ("a backup's base is always older") and the path format
  the second; both are listed as hazards without a property.
- In `Vault` one listing of a directory together with the reads of its sidecars is one step. The two
  directories are two steps, as in the code.
- Sorting by timestamp is expressed by "no other is newer"; `GroupChains` is the attach loop as a fold, oldest
  incremental first.
- Whether the server notices a base with missing objects when it opens it is left open (`ServerAnswers`).
- `--dry-run`, `list` and `status` change no state: in `Command` they are one step that succeeds or fails. Texts,
  quoting and logging are left out.
- In `Discovery` the pages of a listing are one step: a path that only an early page shows is gone at the
  last one, and its sidecar then reads as `Missing`.
- In `Config` a string is what `validate` tells apart: an endpoint is "ok", "schemeless" or with a "trailing
  slash", a name is "set" or "empty". A key a file may omit, and does, is `Absent`.
- Durations in `Retry` are in units of 100 ms, which divides the defaults; the jitter is any multiple up to the cap.
- `Vault` counts failures as a Boolean; `PrefixDelete` counts keys.

## 3. What is checked

Passing runs (TLC explores the whole bounded state space):

| Run | Instance | Shows |
| --- | --- | --- |
| `vault_sequential` | 5 invocations, one at a time, one fault of seven classes, `keep` 1, `keep_days` 3, full interval 3, clock to 7 | `SuccessIsRestorable`, `NoneStranded`, `NewestIsReported`, `NextCleanupFinishes`, `YoungChainsKept`: without overlap and without failed deletions the program does all it says |
| `vault_overlap` | 4 invocations, two at a time, forced or not, one fault of four classes | `FullsRetained`, `RetentionKept`, `VisibleIsIntact`, `FullGoesLast`, `BaseOlder`: what survives every interleaving |
| `vault_late_put` | 3 invocations, two at a time, two faults of eight classes with crashes and late PUTs | `NoInvisibleLeftovers`, `CleanupIsHonest`: what is left behind is visible and reported, also when a rolled-back backup becomes visible |
| `delete` | 2 deleters, 3 data keys and the sidecar, 3 attempts | the counts, the order, termination, and the refinement of `DeleteContract` |
| `poll` | timeout 12, interval 2, queries up to 1, the limits 3 and 5 of the code, 2 answers in a row without the row | `LostMeansGone`, `OverrunIsBounded`, `TimeoutMeansLate`, termination |
| `discovery` | 4 backups, `keep` 1, `keep_days` 3, a word of 8 values, the reader 2 behind, one unreadable sidecar or listing, clock to 6 | `CompleteView`, `GroupingComplete`: a reader that takes many requests still sees what was there all the time, and groups what can be restored from it; `OkMeansFresh`, `FreshMeansOk`, `SelectedHaveExpired`, `SelectedAreOld`: what is decided on the view also holds of the bucket |
| `command` | 18 configuration files, every subcommand, 2 providers, up to 4 attempts, a shift 2 bits wide | `EveryoneIsTold`, `EventsAreTrue`, `FailuresShow`, `AcceptedIsUsable`, `RetryBudget`, `BackoffGrows`, termination |

Runs that end in a violation, each a sentence of the repository that the code does not keep (details under
`findings` in `PROJECT.json`):

| Run | What happens |
| --- | --- |
| `vault_stranded` | An incremental fails to delete; the loop of `cleanup.rs:97` deletes its older bases all the same; the incremental can no longer be attached to a chain and no cleanup ever selects it again. |
| `vault_fork` | A run chooses its base; an overlapping full backup's auto cleanup deletes that chain; the run still reports success. |
| `vault_skip` | Lenient discovery skips the newest full backup once; the next incremental extends an older chain, and `check` looks at the wrong chain. |
| `vault_late_retention` | A PUT applied after the rollback makes a phantom full backup, which pushes the only real one out of the retention window. |
| `vault_keepdays_stale` | A chain is extended after `cleanup` selected it, and deleted while its newest backup is young. |

### Bounds

- Four invocations and `keep` 1 are the smallest instance in which a chain expires while it has an incremental
  and another invocation works next to the cleanup (full, incremental, full, cleanup); the full interval of 3
  also gives chains with an incremental based on an incremental. Such a chain only expires with a fifth
  invocation, which `vault_sequential` has.
- `MaxActive` 2: every race named in section 1 is between two processes. The theorems have no such bound.
- `MaxFaults` 1 (2 in `vault_late_put`): one fault, then recovery. Two independent faults are what
  `CleanupIsHonest` needs for a failure followed by a clean chain.
- `MaxTime` leaves each backup a timestamp of its own, and time for a chain to reach the interval and
  `keep_days`.
- `delete` uses 3 data keys, so that a batch can have deleted, errored and unsubmitted keys together;
  3 attempts are the default of `RetryPolicy`.
- `discovery`: four backups are a chain of three and a newer full backup, or two chains of two: enough for
  a reader to see half of a chain, and for a cleanup to select one while another deletes it. With `keep` 1 both
  sides of the retention window are met. The second `--max-age` (3 times 3) wraps at 8 to 1; the clock of the
  reader, 2 behind, makes ages negative.
- `command`: one file passes every check, one leaves out what may be left out, one asks for failures only and has
  a method that does not parse, and one for each check of `validate` fails this check only. Four attempts
  with a width of 2 take the shift past its width, as the 33rd retry does in the code.
- `poll` uses the limits of the code; the timeout is long enough for missing and unknown polls, mixed, to reach
  them before it. An interval of 2 ticks lets a backup complete in the middle of a sleep, and a query may end in
  the tick it began or one later. The bound of `TimeoutMeansLate` is tight: TLC refutes it with one tick less.

Deadlock is not checked: every invocation, and with it the reader and `main`, ends, and the system then has
nothing left to do. The symmetry of `MCVault` and `MCDiscovery` is sound because invocations and paths differ
only in what has happened to them, and no liveness is checked with it.

### Fairness

`Vault` states safety only: a backup run may wait for cron for ever. `PrefixDelete` assumes weak fairness of
each invocation's step: every S3 request ends, because `build_bucket` sets `S3_REQUEST_TIMEOUT`.
`PollLoop` assumes weak fairness of the loop: every query ends within `QUERY_TIMEOUT` and its retries, and a
sleep ends. Nothing is assumed of the server, not even that a backup ever finishes. `Command` assumes weak
fairness of `main`'s next step: every request has a timeout (30 s for a notification), and no answer of an
endpoint is assumed. `Discovery` states safety only.

## 4. What is proved

All proofs are checked by TLAPS to the last leaf, for every value of the constants. The assumptions are those
of the modules: what `Config::validate` guarantees (`keep` and `attempts` at least 1, the timeout at least the
poll interval), a finite set of invocations, of backups and of keys, and the sidecar's key being none of the data
keys. `Command` proves the first of these of the code (`ConfigUsable`).

`VaultProofs`
- `TypeCorrect`: `Spec => []TypeOK`.
- `BasesOlder`: `Spec => []BaseOlder`. The inductive invariant `OrderInv` adds that a prepared backup's
  timestamp lies before the clock and that discovery, and hence every view, only shows prepared backups.
- `RetentionSafe`: `Spec => []FullsRetained`, if no PUT is applied late. The property alone is not inductive,
  because a cleanup carries out a plan that may be old. `RetainInv` says what every plan contains: rollbacks
  of the run's own unreported backup, incrementals, and full backups that have expired. The key lemmas are
  that a full backup selected in a view has expired among the reported ones (`SelectedExpired`: every backup
  in a view has been reported, which is where late PUTs come in) and that what has expired stays expired
  (`ExpiredStays`: the reported backups only become more).

`BackupChainsProofs`
- `ChainsResolved`: for any set of backups whose bases are older, `GroupChains` maps every full backup to itself and
  an incremental to the full backup of its base, or to none when its base has none. `GroupChains` is a fold over a
  set; no induction theorem of the library can be used, so the induction is done by hand: among the subsets for
  which the fold does not exist, or attaches wrongly, one has the least size (`LeastNat`), and taking its newest
  incremental away gives a smaller one. The lemmas used elsewhere are `ClosedInChains` (a set that holds its own
  bases is all in chains) and `ChainsAgree` (a backup attached in one set has the same full backup in any larger
  one, so what a cleanup once read stays right). `RootOlder`, that a full backup is older than the incrementals of
  its chain, takes the oldest incremental for which it would not hold.

`VaultCleanupProofs` has three inductive invariants, each on top of the last:
- `SettleInv`: a backup that some discovery may show, or some plan names, is `Settled`: its run no longer writes
  and the server is done with it. Hence its objects, once deleted, never come back (`BucketEffects`). Every
  cleanup plans each backup once, so the victim of a deletion is one backup (`VictimUnique`).
- `CleanupInv`: an invocation that deletes a sidecar has found no data left (`OnlyMissingData`), and what a cleanup
  selected is gone, still planned, or a failure is noted (`Accounted`). With no assumption about faults it gives
  `NothingLeftInvisible` (`NoInvisibleLeftovers`) and `CleanupHonest` (`CleanupIsHonest`).
- `ChainInv`, if no PUT is applied late: every reported backup belongs to a chain of reported backups, and by
  `ChainsAgree` the chain in which a cleanup saw it is the one it belongs to ever after (`RootsStay`, `ViewRoots`). So
  a plan consists of chains (`PlanRoots`), a full backup waits for the visible incrementals selected with it
  unless a failure is noted, in which case it is not its unit's last victim (`FullsLast`), only chains whose full
  backup has expired are deleted (`VictimExpired`), and every other reported backup keeps sidecar and objects
  (`ChainKept`). It gives `VisibleIntact`, `ChainsRetained` (`RetentionKept`) and `FullsGoLast`. The assumption
  is needed: `vault_late_retention` shows what a late PUT does to retention.

`VaultSequentialProofs` assumes `Sequential`: one invocation at a time, and no PUT applied late, no deletion that
fails, nothing skipped by discovery. Everything else may happen, any number of times: kills, lost answers, failing
submits, polls and sidecar writes, server failures and restarts. It is the setting of `vault_sequential`, and each part
of it is needed: `vault_fork` and `vault_keepdays_stale` show what an overlap does, `vault_stranded` a failed deletion,
`vault_skip` a skipped sidecar, `vault_late_retention` a late PUT. There are two inductive invariants on top of `ChainInv`,
both checked by TLC on the instance of `vault_sequential` before they were proved:
- `SeqInv`: one invocation runs (`Alone`) and its view is the bucket (`ViewsCurrent`); the base of every visible
  backup is visible (`BasesVisible`), because the plan of a cleanup holds all that is visible of the chain it deletes
  (`PlanWhole`) and the newest goes first (`VictimLast`); a run extends the newest chain reported (`RunNewest`), which is
  never deleted (`NewestListed`), so that an incremental belongs to the newest chain of its time (`RootsNewest`). It
  gives `AllInChains` (`NoneStranded`), `NewestReported` (`NewestIsReported`) and `SuccessRestorable`
  (`SuccessIsRestorable`).
- `AgainInv`: what a cleanup selected stays a matter of the next one. Its chains stay older than `keep_days`
  (`PickedOld`: runs extend the newest chain, which is not among them), a selected full backup that is visible stays
  behind `Keep` newer visible ones (`PickedBehind`: the one that is deleted has `Keep` newer ones itself, and they
  stay), and a selection contains all that earlier ones left (`PickedAgain`). It gives
  `NextFinishes` (`NextCleanupFinishes`) and `YoungKept` (`YoungChainsKept`).

`PrefixDeleteProofs`
- `TypeCorrect`, and `CompleteSafe`: a deletion without failures leaves nothing under the prefix, whoever else
  deletes there. The inductive invariant `CoverInv` says that an invocation's pending keys and its sidecar
  cover what is left; it is stable under the steps of others because objects only become fewer.
- `SidecarLast`: the action property, from the same invariant.
- `AllCounted`: every listed key is counted exactly once. `CountInv` says that, while `delete_keys` runs, what was
  deleted, what is pending and the sidecar still to come add up to what was listed.
- `ReportsTruthful`: `NeverOverReports`. By `CountInv` and `CoverInv`, what was deleted and what may still be in the
  bucket (the rest of the batch, and the sidecar to come) together are no more than what was listed; two sets
  that cover the same objects bound one count by the other (`MissingAtLeast`).
- `Implements`: `Spec => MeetsContract`, the refinement. Each step of an invocation is a step of
  `DeleteContract` or leaves objects and outcomes alone.

`PollLoopProofs`
- `TypeCorrect`, `LostIsGone` (by: while the row exists, missing polls are all counted among the answers that
  failed to show it), `OverrunBounded` (by: a query starts within the timeout).
- `TimeoutIsLate`: a completed backup is thrown away by a timeout only if it completed less than `MaxBlinks + 1`
  rounds of a query and a sleep before the timeout. One round is unavoidable in this code: a backup that completes
  during the last sleep, before the timeout, meets the check of `progress.rs:132` first. `Late` says at each
  place of the loop how much time may have passed since the backup completed: up to the end of the wait in progress
  for an answer that was given before, and a round for each answer since that did not show the row.

`DiscoveryProofs`: all seven properties of the run, for any number of backups, any retention and any clock
skew. `WorldInv` is about the bucket: a base is older than what is based on it, though it may be gone before it; the
running backup extends the newest chain (`RunInv`); chains do not overlap in time (`ChainsInv`); and only backups of
spent chains are deleted or about to be (`RetainInv`; a chain is `Spent` when it has `keep` newer visible full
backups and nothing in it is younger than `keep_days`, and it stays so: of the full backups that are deleted the
newest has `keep` newer ones itself). That a chain some of which is stranded or deleted was selected by its latest
backup *as grouped* is no gap: what is missing was spent when it went (`SelectedSpent`). `SidecarRoots`, that the
full backup `group_chains` finds is the one a backup depends on, rests on `ChainsResolved` of `BackupChainsProofs`.
`ReaderInv` is about the reader: what was visible all the time is still to be read or has been, what is attached is
attached rightly, and what can be restored from what was visible all the time (`Restorable`: the union of the
sets that hold their own bases) is attached as soon as the loop is past it. The base of such a backup is such a
backup too and older, so when the oldest incremental is taken from the list its base is attached: this is why one
look-up suffices, with no induction over the list. `DecideInv` carries the decisions over to the bucket.
- `ViewComplete`, `GroupingIsComplete`, `OkIsFresh`, `FreshIsOk`, `SelectedOld`, `TypeCorrect`, and
- `SelectedExpired`: a selection remains right while another cleanup deletes. It needs `RetainInv`: every full
  backup the reader counted and that is gone by now has itself `keep` newer ones.

`CommandProofs`
- `KeepsBudget`: `RetrySpec => []RetryBudget`, for every policy and every answer.
- `BackoffNeverShrinks`: `RetrySpec => []BackoffGrows`, for every width of the shift. The provers know nothing of
  powers of two: `BitsAssumption` states the two facts used of them (they are positive, each is twice the one
  before), which TLC evaluates for the width of the run.
- `SendsRetry`: `Spec => RetrySpec`, the refinement: nothing `main` or `dispatch` does disturbs a call of
  `with_retry`; hence `SendsKeepBudget`.
- `ConfigUsable`: for every file, what `validate` accepts satisfies the assumptions of the other modules.
- `TypeCorrect`, `EventsTrue`, `FailuresShown` from `RunInv`, which says for each place of `main` what has
  happened so far and which event is being sent.
- `EveryoneTold`: `ToldInv` says that each event that is due has been received or refused by every endpoint
  up to the notifier `dispatch` is at, for any number of providers.

Only model-checked: the liveness properties `Returns` and `Exits`, which are outside the prover's reach, and the
violations, which are behaviours of an instance.

## 5. What is not modelled

- Texts, SQL quoting, headers, formats and secret redaction; TOML and clap; the output of `list` and `status`; the
  types of `src/error.rs`. They have no state, and what they decide is an outcome of a modelled action.
- The overrides from the environment: they only set credentials, which the program passes on.
- How long requests take, except in `PollLoop`; and how often an endpoint received the same event.
- Clocks that disagree between two writers, or go back, and two runs that start in the same millisecond.
  `group_chains` needs the first not to happen ("a backup's base is always older") and the path format the second;
  both are hazards without a property. `Discovery` has a reader whose clock is behind.
- A `check` that lists the full backups before a new one is written, and reads the old ones after their cleanup,
  sees neither and reports `MISSING`. No backup was visible all the time, so `FreshMeansOk` says nothing of it.

Three observations are not stated as properties. `parse_max_age` (`cli.rs:88`) multiplies without a check, so in a
release build a huge `--max-age` wraps to a short one and `check` reports `STALE`, and exits non-zero, for a backup
that is younger than what was asked, although `src/README.md:233` says it exits `0`. `FreshMeansOk` measures by what
was asked and leaves such a product out with an explicit `~Wraps(request)`; `OkMeansFresh` holds with it, so
the error is only ever a false alarm. It needs no interleaving, and TLC refutes `FreshMeansOk` at once without
that condition. The in-progress guard (`executor.rs:310`) sees only rows that
are being created, so a run may pass it after another one's `BACKUP` has finished and before its sidecar is
written; what this leads to is part of `vault_overlap`. And `unknown_polls` is not reset by a poll without a
row (`progress.rs:143`), so the unrecognised polls counted up to `MAX_UNKNOWN_POLLS` need not be consecutive;
the loop then only gives up earlier and leaves the data alone.

What could follow: a clock per host; an abstract specification of the vault (reported backups, kept or expired) with
`Vault` shown to refine it.
