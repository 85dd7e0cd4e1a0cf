--------------------------- MODULE PollLoopProofs ---------------------------
(***************************************************************************)
(* Theorems about PollLoop, for every timeout, poll interval and limit:    *)
(* type correctness, that a lost backup is really gone, the bound on the   *)
(* time a poll loop takes, and how late a backup that is given up on       *)
(* completed.                                                              *)
(***************************************************************************)
EXTENDS PollLoop, TLAPS

(* While the loop runs no limit has been reached.                          *)
Below ==
    pc # "returned" => missing < MaxMissingPolls /\ unknown < MaxUnknownPolls

TypeInv == TypeOK /\ Below

LEMMA TypeInit == Init => TypeInv
  BY LimitsAssumption DEF Init, TypeInv, TypeOK, Below, Results, Statuses

LEMMA TypeStep == TypeInv /\ [Next]_vars => TypeInv'
<1> SUFFICES ASSUME TypeInv, [Next]_vars PROVE TypeInv'
  OBVIOUS
<1> USE TimesAssumption, LimitsAssumption DEF TypeInv, TypeOK, Below, Results, Statuses
<1>1. CASE UNCHANGED vars \/ ServerMoves
  BY <1>1 DEF vars, loop, server, ServerMoves
<1>2. CASE CheckTimeout \/ QueryFails
  BY <1>2 DEF CheckTimeout, QueryFails, Return, server
<1>3. CASE Answer
  BY <1>3 DEF Answer
<1>4. CASE PollMissing
  BY <1>4 DEF PollMissing, Return, Sleep, AtLimit, server
<1>5. CASE PollInProgress
  BY <1>5 DEF PollInProgress, Sleep, ResetMissing, ResetUnknown, server
<1>6. CASE PollEnded
  BY <1>6 DEF PollEnded, Return, ResetMissing, server
<1>7. CASE PollUnknown
  BY <1>7 DEF PollUnknown, Return, Sleep, AtLimit, ResetMissing, server
<1>8. CASE TimePasses \/ WakeUp
  BY <1>8 DEF TimePasses, WakeUp, server, loop
<1>9. QED
  BY <1>1, <1>2, <1>3, <1>4, <1>5, <1>6, <1>7, <1>8 DEF Next, Poll

(* Every variable of PollLoop keeps its type: the counts of missing and    *)
(* unknown polls never pass MAX_MISSING_POLLS and MAX_UNKNOWN_POLLS.       *)
THEOREM TypeCorrect == Spec => []TypeOK
<1>1. TypeInv => TypeOK
  BY DEF TypeInv
<1>2. QED
  BY <1>1, TypeInit, TypeStep, PTL DEF Spec

(***************************************************************************)
(* While the row exists, every missing poll counted, the one in the answer *)
(* at hand included, is one of the blinks since the row was last seen, and *)
(* those are fewer than the limit.                                         *)
(***************************************************************************)
MissingIsBlinks ==
    row # "gone" =>
        /\ pc \in {"check", "query", "sleep"} => missing <= blinks
        /\ pc = "answer" /\ shown = "none" => missing < blinks

LostInv == TypeInv /\ MissingIsBlinks /\ LostMeansGone

LEMMA LostInit == Init => LostInv
  BY TypeInit DEF Init, LostInv, MissingIsBlinks, LostMeansGone

LEMMA LostStep == LostInv /\ [Next]_vars => LostInv'
<1> SUFFICES ASSUME LostInv, [Next]_vars PROVE MissingIsBlinks' /\ LostMeansGone'
  BY TypeStep DEF LostInv
<1> USE LimitsAssumption DEF LostInv, MissingIsBlinks, LostMeansGone, TypeInv, TypeOK
<1>1. CASE UNCHANGED vars \/ ServerMoves
  BY <1>1 DEF vars, loop, server, ServerMoves
<1>2. CASE CheckTimeout \/ QueryFails
  BY <1>2 DEF CheckTimeout, QueryFails, Return, server
<1>3. CASE Answer
  BY <1>3 DEF Answer, Statuses
<1>4. CASE PollMissing
  BY <1>4 DEF PollMissing, Return, Sleep, AtLimit, server
<1>5. CASE PollInProgress
  BY <1>5 DEF PollInProgress, Sleep, ResetMissing, server
<1>6. CASE PollEnded
  BY <1>6 DEF PollEnded, Return, ResetMissing, server
<1>7. CASE PollUnknown
  BY <1>7 DEF PollUnknown, Return, Sleep, ResetMissing, server
<1>8. CASE TimePasses \/ WakeUp
  BY <1>8 DEF TimePasses, WakeUp, server, loop
<1>9. QED
  BY <1>1, <1>2, <1>3, <1>4, <1>5, <1>6, <1>7, <1>8 DEF Next, Poll

(* StateLost is only returned for a backup the server has forgotten, so    *)
(* the rollback that follows cannot race a running BACKUP, for every       *)
(* MAX_MISSING_POLLS above the number of answers in a row that omit an     *)
(* existing row.                                                           *)
THEOREM LostIsGone == Spec => []LostMeansGone
<1>1. LostInv => LostMeansGone
  BY DEF LostInv
<1>2. QED
  BY <1>1, LostInit, LostStep, PTL DEF Spec

(***************************************************************************)
(* What the loop waits for is near, and a query starts within the timeout. *)
(***************************************************************************)
Waits ==
    /\ pc \in {"query", "answer"} =>
          elapsed <= until /\ until <= elapsed + QueryTime /\ until <= Timeout + QueryTime
    /\ pc = "sleep" =>
          /\ elapsed <= until /\ until <= elapsed + PollInterval
          /\ until <= Timeout + QueryTime + PollInterval
    /\ elapsed <= Timeout + QueryTime + PollInterval

OverrunInv == TypeInv /\ Waits

LEMMA OverrunInit == Init => OverrunInv
  BY TypeInit, TimesAssumption DEF Init, OverrunInv, Waits

LEMMA OverrunStep == OverrunInv /\ [Next]_vars => OverrunInv'
<1> SUFFICES ASSUME OverrunInv, [Next]_vars PROVE Waits'
  BY TypeStep DEF OverrunInv
<1> USE TimesAssumption DEF OverrunInv, Waits, TypeInv, TypeOK
<1>1. CASE UNCHANGED vars \/ ServerMoves
  BY <1>1 DEF vars, loop, ServerMoves
<1>2. CASE CheckTimeout
  BY <1>2 DEF CheckTimeout, Return, Expired
<1>3. CASE Answer
  BY <1>3 DEF Answer
<1>4. CASE QueryFails \/ PollEnded
  BY <1>4 DEF QueryFails, PollEnded, Return
<1>5. CASE PollMissing \/ PollInProgress \/ PollUnknown
  BY <1>5 DEF PollMissing, PollInProgress, PollUnknown, Return, Sleep
<1>6. CASE TimePasses \/ WakeUp
  BY <1>6 DEF TimePasses, WakeUp, loop
<1>7. QED
  BY <1>1, <1>2, <1>3, <1>4, <1>5, <1>6 DEF Next, Poll

(* A poll loop ends at most one query and one sleep after its timeout.     *)
THEOREM OverrunBounded == Spec => []OverrunIsBounded
<1>1. OverrunInv => OverrunIsBounded
  BY DEF OverrunInv, Waits, OverrunIsBounded
<1>2. QED
  BY <1>1, OverrunInit, OverrunStep, PTL DEF Spec

(***************************************************************************)
(* From when the backup has completed, only an answer that does not show   *)
(* its row lets the loop go on: the next check is at most one round later, *)
(* and one round more for each such answer.                                *)
(***************************************************************************)
Round == PollInterval + QueryTime

Latest(completed, hidden) == completed + (hidden + 1) * Round

Late ==
    row = "created" =>
        /\ pc = "check" => elapsed <= Latest(doneAt, blinks)
        /\ pc = "query" => until <= Latest(doneAt, blinks) + QueryTime
        /\ pc = "answer" /\ shown # "created" =>
              until <= Latest(doneAt, blinks) - PollInterval
        /\ pc = "sleep" => until <= Latest(doneAt, blinks)

GivesUp ==
    /\ pc # "returned" => result = "none"
    /\ result = "timeout" => elapsed > Timeout

TimeoutInv == OverrunInv /\ GivesUp /\ Late /\ TimeoutMeansLate

LEMMA Rounds ==
  ASSUME NEW t \in Nat, NEW i \in Nat, i <= MaxBlinks
  PROVE  /\ Latest(t, i) \in Nat /\ t + Round <= Latest(t, i)
         /\ Latest(t, i + 1) = Latest(t, i) + Round
         /\ Latest(t, i) <= t + (MaxBlinks + 1) * (PollInterval + QueryTime)
<1> DEFINE w == PollInterval + QueryTime
<1>1. w \in Nat /\ MaxBlinks \in Nat
  BY TimesAssumption, LimitsAssumption
<1> HIDE DEF w
<1>2. /\ (i + 1) * w \in Nat /\ w <= (i + 1) * w
      /\ (i + 2) * w = (i + 1) * w + w
      /\ (i + 1) * w <= (MaxBlinks + 1) * w
  BY <1>1
<1>3. i + 1 + 1 = i + 2
  OBVIOUS
<1>4. Latest(t, i) = t + (i + 1) * w /\ Latest(t, i + 1) = t + (i + 2) * w /\ Round = w
  BY <1>3 DEF Latest, Round, w
<1>5. (MaxBlinks + 1) * (PollInterval + QueryTime) = (MaxBlinks + 1) * w
  BY DEF w
<1> DEFINE a == (i + 1) * w  b == (i + 2) * w  c == (MaxBlinks + 1) * w
<1>6. (MaxBlinks + 1) * w \in Nat
  BY <1>1
<1>7. /\ t + a \in Nat /\ t + w <= t + a /\ t + b = t + a + w /\ t + a <= t + c
  <2>1. a \in Nat /\ c \in Nat /\ w \in Nat /\ w <= a /\ b = a + w /\ a <= c
    BY <1>1, <1>2, <1>6
  <2> HIDE DEF a, b, c
  <2> QED  BY <2>1
<1> QED
  BY <1>4, <1>5, <1>7

LEMMA TimeoutInit == Init => TimeoutInv
  BY OverrunInit DEF Init, TimeoutInv, GivesUp, Late, TimeoutMeansLate

LEMMA GivesUpStep == ASSUME TypeInv, GivesUp, [Next]_vars PROVE GivesUp'
<1> USE DEF GivesUp
<1>1. CASE CheckTimeout
  BY <1>1 DEF CheckTimeout, Return, Expired
<1>2. CASE QueryFails \/ PollEnded
  BY <1>2 DEF QueryFails, PollEnded, Return
<1>3. CASE PollMissing \/ PollInProgress \/ PollUnknown
  BY <1>3 DEF PollMissing, PollInProgress, PollUnknown, Return, Sleep
<1>4. CASE Answer \/ TimePasses \/ WakeUp \/ ServerMoves \/ UNCHANGED vars
  BY <1>4 DEF Answer, TimePasses, WakeUp, ServerMoves, vars, loop
<1> QED
  BY <1>1, <1>2, <1>3, <1>4 DEF Next, Poll

LEMMA TimeoutStep == TimeoutInv /\ [Next]_vars => TimeoutInv'
<1> SUFFICES ASSUME TimeoutInv, [Next]_vars PROVE Late' /\ TimeoutMeansLate'
  BY GivesUpStep, OverrunStep DEF TimeoutInv, OverrunInv
<1> DEFINE latest == Latest(doneAt, blinks)
           most == (MaxBlinks + 1) * (PollInterval + QueryTime)
<1>1. /\ PollInterval \in Nat /\ QueryTime \in Nat /\ Round = PollInterval + QueryTime
      /\ Timeout \in Nat /\ blinks \in Nat /\ blinks <= MaxBlinks
      /\ elapsed \in Nat /\ doneAt \in Nat /\ until \in Nat
  BY TimesAssumption, LimitsAssumption DEF TimeoutInv, OverrunInv, TypeInv, TypeOK, Round
<1>2. /\ latest \in Nat /\ Latest(doneAt, blinks + 1) = latest + Round
      /\ latest <= doneAt + most
      /\ elapsed + Round <= Latest(elapsed, blinks) /\ Latest(elapsed, blinks) \in Nat
      /\ Latest(elapsed, blinks) <= elapsed + most /\ most \in Nat
  <2>1. most \in Nat
    BY TimesAssumption, LimitsAssumption
  <2> QED  BY <1>1, <2>1, Rounds
<1> HIDE DEF latest, most
<1>3. row = "created" =>
        /\ pc = "check" => elapsed <= latest
        /\ pc = "query" => until <= latest + QueryTime
        /\ pc = "answer" /\ shown # "created" => until <= latest - PollInterval
        /\ pc = "sleep" => until <= latest
  BY DEF TimeoutInv, Late, latest
<1>4. /\ result = "timeout" => pc = "returned" /\ elapsed > Timeout
      /\ result = "timeout" /\ row = "created" => doneAt + most > Timeout
      /\ TimeoutMeansLate' <=> (result' = "timeout" /\ row' = "created" => doneAt' + most > Timeout)
  BY DEF TimeoutInv, GivesUp, TimeoutMeansLate, most
<1>5. Waits
  BY DEF TimeoutInv, OverrunInv
<1>6. UNCHANGED <<doneAt, blinks>> => Latest(doneAt', blinks') = latest
  BY DEF latest
<1>7. CASE UNCHANGED vars
  BY <1>7, <1>3, <1>4, <1>6 DEF vars, loop, server, Late
<1>8. CASE CheckTimeout
  <2>1. /\ pc = "check" /\ row' = row /\ UNCHANGED <<doneAt, blinks>>
        /\ \/ pc' = "returned" /\ elapsed > Timeout
           \/ pc' = "query" /\ result' = result /\ until' = elapsed + QueryTime
    BY <1>8 DEF CheckTimeout, Return, Expired, server
  <2> QED  BY <2>1, <1>1, <1>2, <1>3, <1>4, <1>6 DEF Late
<1>9. CASE Answer
  <2>1. /\ pc = "query" /\ pc' = "answer" /\ row' = row /\ doneAt' = doneAt
        /\ result' = result /\ until' = until
        /\ row = "created" => shown' = "created" \/ blinks' = blinks + 1
    BY <1>9 DEF Answer
  <2>2. blinks' = blinks + 1 => Latest(doneAt', blinks') = latest + Round
    BY <2>1, <1>2
  <2> QED  BY <2>1, <2>2, <1>1, <1>2, <1>3, <1>4 DEF Late
<1>10. CASE QueryFails \/ PollEnded
  <2>1. pc' = "returned" /\ result' # "timeout"
    BY <1>10 DEF QueryFails, PollEnded, Return
  <2> QED  BY <2>1, <1>4 DEF Late
<1>11. CASE PollMissing \/ PollInProgress \/ PollUnknown
  <2>1. /\ pc = "answer" /\ shown # "created" /\ row' = row /\ UNCHANGED <<doneAt, blinks>>
        /\ result' # "timeout"
        /\ pc' = "returned" \/ (pc' = "sleep" /\ until' = elapsed + PollInterval)
    BY <1>11, <1>4 DEF PollMissing, PollInProgress, PollUnknown, Return, Sleep, server
  <2> QED  BY <2>1, <1>1, <1>2, <1>3, <1>4, <1>5, <1>6 DEF Late, Waits
<1>12. CASE TimePasses \/ WakeUp
  <2>1. /\ row' = row /\ UNCHANGED <<doneAt, blinks, result, until, shown>> /\ pc # "returned"
        /\ \/ pc' = pc /\ pc # "check"
           \/ pc = "sleep" /\ pc' = "check" /\ elapsed' = elapsed /\ elapsed = until
    BY <1>12 DEF TimePasses, WakeUp, server, loop
  <2> QED  BY <2>1, <1>3, <1>4, <1>6 DEF Late
<1>13. CASE ServerMoves
  <2>1. /\ pc' = pc /\ UNCHANGED <<result, elapsed, until, blinks, shown>>
        /\ row' = "created" => doneAt' = elapsed
    BY <1>13 DEF ServerMoves, loop
  <2>2. TimeoutMeansLate'
    BY <1>1, <1>2, <1>4, <2>1
  <2>3. row' = "created" => Latest(doneAt', blinks') = Latest(elapsed, blinks)
    BY <2>1
  <2>4. Late'
    BY <1>1, <1>2, <1>5, <2>1, <2>3 DEF Waits, Late
  <2> QED  BY <2>2, <2>4
<1> QED
  BY <1>7, <1>8, <1>9, <1>10, <1>11, <1>12, <1>13 DEF Next, Poll

(* TIMEOUT is only reported for a backup that has not completed, or whose  *)
(* completion came less than one round, a query and a sleep, before the    *)
(* timeout, and one round more for each answer that may leave out its row, *)
(* for every timeout, poll interval and query time.                        *)
THEOREM TimeoutIsLate == Spec => []TimeoutMeansLate
<1>1. TimeoutInv => TimeoutMeansLate
  BY DEF TimeoutInv
<1>2. QED
  BY <1>1, TimeoutInit, TimeoutStep, PTL DEF Spec
=============================================================================
