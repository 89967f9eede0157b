----------------------------- MODULE Scheduler -----------------------------
(***************************************************************************)
(* One row of jobs.schedules, its runs in jobs.schedule_runs, the River    *)
(* jobs that carry them, the RunWorker that executes a job statement by    *)
(* statement, the Scheduler loops that look for due occurrences, and the   *)
(* operators who edit, pause, resume and execute the schedule by hand.     *)
(*                                                                         *)
(* A scan and the four operations of the API are SERIALIZABLE: each is one *)
(* step that commits or, when it loses a conflict, does nothing.  The      *)
(* worker's statements commit one by one, and what an API request or a     *)
(* loop computed from the clock before its transaction may be old when the *)
(* transaction runs.  Times count minutes; 0 stands for NULL.              *)
(***************************************************************************)
EXTENDS Naturals, FiniteSets

CONSTANTS
  Crons,        \* cron expressions with their time zones
  NextOf,       \* NextOf[c][t]: the first occurrence of c after t
  Evaluable,    \* the crons whose time zone the worker process knows
  Inputs,       \* what an operator may enter: cron, overlap and misfire
  Keys,         \* idempotency keys of executions by hand
  Horizon,      \* bound on the clock
  Copies,       \* bound on the rows for one slot or key
  CatchUpLimit, \* occurrences one scan enqueues at most when catching up (6)
  MaxAttempts,  \* max_attempts of the River jobs
  MaxFaults,    \* bound on database failures and worker crashes
  MaxEdits      \* bound on edits by operators

Times == 0..Horizon

ASSUME BoundAssumption ==
  /\ Horizon \in Nat
  /\ CatchUpLimit \in Nat \ {0}
  /\ MaxAttempts \in Nat \ {0}
  /\ MaxFaults \in Nat
  /\ MaxEdits \in Nat
  /\ Copies \in Nat \ {0}
  /\ Keys \subseteq Nat
ASSUME InputAssumption ==
  /\ Evaluable \subseteq Crons
  /\ Inputs \subseteq [cron : Crons, overlap : {"allow", "skip", "replace"},
                       misfire : {"ignore", "fire_once", "catch_up"}]
\* cron.Schedule.Next: later than its argument, and nothing in between.
ASSUME CronAssumption ==
  /\ NextOf \in [Crons -> [Times -> Nat]]
  /\ \A c \in Crons, t \in Times :
       /\ NextOf[c][t] > t
       /\ \A u \in Times : t <= u /\ u < NextOf[c][t] => NextOf[c][u] = NextOf[c][t]

VARIABLES
  now,
  \* jobs.schedules; resuming: next runs that resume requests have computed
  status, input, nextRun, resuming,
  \* jobs.schedule_runs by what they were asked for, and river_job; asked: the
  \* jobs with cancel_attempted_at
  run, jobState, attempt, asked,
  \* the execution of a job: next statement, value Work will return; cut
  \* (history): the runs whose last attempt a fault cut short
  pc, ret, cut,
  \* history: the first run time since the schedule was last set, the runs that
  \* were cancelled in favour of another
  since, replaced,
  \* counters that bound the instance
  faults, edits

scheduleVars == <<status, input, nextRun, resuming, since>>
jobVars == <<jobState, attempt, asked>>
execVars == <<pc, ret, cut>>
vars == <<now, scheduleVars, run, jobVars, execVars, replaced, faults, edits>>

\* A row is named by its slot (scheduled_at) or its key, and a number that
\* tells several rows for the same one apart.
Runs == ({"schedule"} \X (1..Horizon) \X (1..Copies))
          \cup ({"manual"} \X Keys \X (1..Copies))

RunStatuses == {"none", "queued", "running", "succeeded", "failed", "cancelled"}
Waiting == {"available", "retryable"}
Live == Waiting \cup {"running"}
Finalized == {"completed", "cancelled", "discarded"}
JobStates == Live \cup Finalized \cup {"absent", "deleted"}

Active == {r \in Runs : run[r] \in {"queued", "running"}}

-----------------------------------------------------------------------------
(***************************************************************************)
(* River, from how the code uses it.  Cancelling a job that is not running *)
(* finishes it; a running one is marked, its context is cancelled, and it  *)
(* is neither retried nor rescued.                                         *)
(***************************************************************************)
Start(r) ==
  /\ jobState[r] \in Waiting
  /\ jobState' = [jobState EXCEPT ![r] = "running"]
  /\ attempt' = [attempt EXCEPT ![r] = @ + 1]
  /\ pc' = [pc EXCEPT ![r] = "begin"]
  /\ cut' = cut \ {r}
  /\ UNCHANGED <<now, scheduleVars, run, asked, ret, replaced, faults, edits>>

AfterError(r) ==
  IF r \in asked THEN "cancelled"
  ELSE IF attempt[r] < MaxAttempts THEN "retryable" ELSE "discarded"

\* River stores what Work returned; JobCancel finishes the job.
Return(r) ==
  /\ pc[r] = "return"
  /\ jobState' = [jobState EXCEPT ![r] = CASE ret[r] = "nil"    -> "completed"
                                           [] ret[r] = "cancel" -> "cancelled"
                                           [] ret[r] = "error"  -> AfterError(r)]
  /\ pc' = [pc EXCEPT ![r] = "idle"]
  /\ ret' = [ret EXCEPT ![r] = "nil"]
  /\ UNCHANGED <<now, scheduleVars, run, attempt, asked, cut, replaced, faults, edits>>

\* The worker process dies; Rescue repeats the attempt unless it was the last.
Crash(r) ==
  /\ pc[r] # "idle"
  /\ faults < MaxFaults
  /\ faults' = faults + 1
  /\ cut' = IF attempt[r] = MaxAttempts THEN cut \cup {r} ELSE cut
  /\ pc' = [pc EXCEPT ![r] = "idle"]
  /\ ret' = [ret EXCEPT ![r] = "nil"]
  /\ UNCHANGED <<now, scheduleVars, run, jobVars, replaced, edits>>

Rescue(r) ==
  /\ jobState[r] = "running"
  /\ pc[r] = "idle"
  /\ jobState' = [jobState EXCEPT ![r] = AfterError(r)]
  /\ UNCHANGED <<now, scheduleVars, run, attempt, asked, execVars, replaced, faults, edits>>

CleanFinalized(r) ==
  /\ jobState[r] \in Finalized
  /\ jobState' = [jobState EXCEPT ![r] = "deleted"]
  /\ UNCHANGED <<now, scheduleVars, run, attempt, asked, execVars, replaced, faults, edits>>

-----------------------------------------------------------------------------
(***************************************************************************)
(* RunWorker.Work.  A statement can fail, with or without having taken     *)
(* effect; once the job is being cancelled, the context alone is enough.   *)
(***************************************************************************)
Goto(r, label, value) ==
  /\ pc' = [pc EXCEPT ![r] = label]
  /\ ret' = [ret EXCEPT ![r] = value]

Last(r) == attempt[r] = MaxAttempts \/ ret[r] = "cancel"

Fault(r) ==
  /\ \/ r \in asked /\ UNCHANGED faults
     \/ faults < MaxFaults /\ faults' = faults + 1
  /\ cut' = IF Last(r) THEN cut \cup {r} ELSE cut

NoFault == UNCHANGED <<faults, cut>>

SetRun(r, value) == run' = [run EXCEPT ![r] = value]

\* Mutant: a run that is being executed is not begun again.
ExecutableOnce == {"queued", "failed"}

Executable == {"queued", "failed", "running"}

Begin(r) ==
  /\ pc[r] = "begin"
  /\ \/ /\ run[r] \in Executable
        /\ SetRun(r, "running")
        /\ \/ Goto(r, "handle", "nil") /\ NoFault
           \/ Goto(r, "return", "error") /\ Fault(r)
     \/ /\ run[r] \notin Executable
        /\ Goto(r, "return", "cancel")
        /\ NoFault
        /\ UNCHANGED run
     \/ /\ Goto(r, "return", "error")
        /\ Fault(r)
        /\ UNCHANGED run
  /\ UNCHANGED <<now, scheduleVars, jobVars, replaced, edits>>

\* The handler succeeds, fails or runs into its timeout, or is not compiled
\* into this worker.
Handle(r) ==
  /\ pc[r] = "handle"
  /\ \/ Goto(r, "succeed", "nil")
     \/ Goto(r, "fail", "error")
     \/ Goto(r, "fail", "cancel")
  /\ NoFault
  /\ UNCHANGED <<now, scheduleVars, run, jobVars, replaced, edits>>

\* Names the run by id alone, whatever its status has become.
Succeed(r) ==
  /\ pc[r] = "succeed"
  /\ \/ /\ SetRun(r, "succeeded")
        /\ \/ Goto(r, "return", "nil") /\ NoFault
           \/ Goto(r, "return", "error") /\ Fault(r)
     \/ /\ Goto(r, "return", "error")
        /\ Fault(r)
        /\ UNCHANGED run
  /\ UNCHANGED <<now, scheduleVars, jobVars, replaced, edits>>

\* failRun, whose error is ignored.
Fail(r) ==
  /\ pc[r] = "fail"
  /\ \/ SetRun(r, "failed") /\ NoFault
     \/ Fault(r) /\ UNCHANGED run
  /\ Goto(r, "return", ret[r])
  /\ UNCHANGED <<now, scheduleVars, jobVars, replaced, edits>>

Work(r) == Begin(r) \/ Handle(r) \/ Succeed(r) \/ Fail(r) \/ Return(r)

-----------------------------------------------------------------------------
(***************************************************************************)
(* Enqueueing: new rows with their jobs, and the active runs they replace. *)
(***************************************************************************)
Next(c, t) == NextOf[c][t]

Exists(r) == run[r] # "none"

\* Mutant: no unique index on the slot of scheduled runs.
SlotRowsAgain(slots) ==
  {<<"schedule", u, IF Exists(<<"schedule", u, 1>>) THEN Copies ELSE 1>> : u \in slots}

\* INSERT ... ON CONFLICT (schedule_id, scheduled_at) DO NOTHING.
SlotRows(slots) ==
  {<<"schedule", u, 1>> : u \in {u \in slots :
                                   \A k \in 1..Copies : ~Exists(<<"schedule", u, k>>)}}

\* Mutant: the job of a replaced run is not cancelled.
RowsOnly(new, old) ==
  /\ run' = [r \in Runs |-> IF r \in new THEN "queued"
                            ELSE IF r \in old THEN "cancelled" ELSE run[r]]
  /\ jobState' = [r \in Runs |-> IF r \in new THEN "available" ELSE jobState[r]]
  /\ replaced' = replaced \cup old
  /\ UNCHANGED <<asked, attempt>>

\* JobCancelTx fails for a job River has deleted, and the transaction with it.
Place(new, old) ==
  /\ \A r \in old : jobState[r] # "deleted"
  /\ run' = [r \in Runs |-> IF r \in new THEN "queued"
                            ELSE IF r \in old THEN "cancelled" ELSE run[r]]
  /\ jobState' = [r \in Runs |-> IF r \in new THEN "available"
                                 ELSE IF r \in old /\ jobState[r] \in Waiting
                                   THEN "cancelled" ELSE jobState[r]]
  /\ asked' = asked \cup {r \in old : jobState[r] \in Live}
  /\ replaced' = replaced \cup old
  /\ UNCHANGED attempt

ReplacedRuns == IF input.overlap = "replace" THEN Active ELSE {}
Overlaps == input.overlap = "skip" /\ Active # {}

\* Scheduler.enqueueSchedule, once the misfire policy has chosen the slots and
\* the new next_run_at.
Enqueue(slots, next) ==
  /\ Place(SlotRows(IF Overlaps THEN {} ELSE slots), ReplacedRuns)
  /\ nextRun' = next
  /\ UNCHANGED <<now, status, input, resuming, since, execVars, faults, edits>>

Occurs(c, u) == \E v \in Times : Next(c, v) = u

\* The next run and the occurrences after it, up to the clock of the scan.
Due(t) == {u \in nextRun .. t : u = nextRun \/ Occurs(input.cron, u)}

\* Mutant: an occurrence that is ignored stays the next one.
IgnoreInPlace(t) ==
  \/ t > nextRun /\ Enqueue({}, nextRun)
  \/ t <= nextRun + 1 /\ Enqueue({nextRun}, Next(input.cron, t))

\* Dropped when more than a minute late: in the next minute the seconds decide.
Ignore(t) ==
  \/ t > nextRun /\ Enqueue({}, Next(input.cron, t))
  \/ t <= nextRun + 1 /\ Enqueue({nextRun}, Next(input.cron, t))

FireOnce(t) == Enqueue({nextRun}, Next(input.cron, t))

\* The slots up to last, when the limit or the clock ends them there.
CaughtUp(t, last) ==
  LET slots == {u \in Due(t) : u <= last}
  IN  \/ Cardinality(slots) = CatchUpLimit
      \/ slots = Due(t) /\ Cardinality(slots) < CatchUpLimit

\* Mutant: goes on from the clock.
CatchUpFromClock(t) ==
  \E last \in Due(t) : /\ CaughtUp(t, last)
                       /\ Enqueue({u \in Due(t) : u <= last}, Next(input.cron, t))

CatchUp(t) ==
  \E last \in Due(t) : /\ CaughtUp(t, last)
                       /\ Enqueue({u \in Due(t) : u <= last}, Next(input.cron, last))

\* Scheduler.enqueueDue; t is the clock the loop has read, maybe long ago.
Scan(t) ==
  /\ status = "active"
  /\ nextRun <= t
  /\ input.cron \in Evaluable
  /\ \/ input.misfire = "ignore" /\ Ignore(t)
     \/ input.misfire = "fire_once" /\ FireOnce(t)
     \/ input.misfire = "catch_up" /\ CatchUp(t)

\* The cron cannot be evaluated here.
Disable(t) ==
  /\ status = "active"
  /\ nextRun <= t
  /\ input.cron \notin Evaluable
  /\ status' = "disabled"
  /\ nextRun' = 0
  /\ UNCHANGED <<now, input, resuming, since, run, jobVars, execVars, replaced, faults, edits>>

-----------------------------------------------------------------------------
(***************************************************************************)
(* The operations of the API.                                              *)
(***************************************************************************)
Set(value, first) ==
  /\ status' = value
  /\ nextRun' = first
  /\ since' = first

Edit == edits < MaxEdits /\ edits' = edits + 1

\* UpdateSchedule: the next run follows the clock of the request.
Update(i, t) ==
  /\ status # "disabled"
  /\ Edit
  /\ input' = i
  /\ Set(status, IF status = "active" THEN Next(i.cron, t) ELSE 0)
  /\ UNCHANGED <<now, resuming, run, jobVars, execVars, replaced, faults>>

Pause ==
  /\ status = "active"
  /\ Set("paused", 0)
  /\ UNCHANGED <<now, input, resuming, run, jobVars, execVars, replaced, faults, edits>>

\* Service.ChangeStatus reads the schedule and computes its next run before
\* Postgres.ChangeStatus locks the row; one request at a time.
RequestResume ==
  /\ resuming = {}
  /\ resuming' = {Next(input.cron, now)}
  /\ UNCHANGED <<now, status, input, nextRun, since, run, jobVars, execVars, replaced,
                 faults, edits>>

Resume ==
  \E first \in resuming :
    /\ status = "paused"
    /\ Set("active", first)
    /\ resuming' = {}
    /\ UNCHANGED <<now, input, run, jobVars, execVars, replaced, faults, edits>>

\* A key that is known returns its run and changes nothing.
Execute(k) ==
  /\ status # "disabled"
  /\ \A n \in 1..Copies : ~Exists(<<"manual", k, n>>)
  /\ ~Overlaps
  /\ Place({<<"manual", k, 1>>}, ReplacedRuns)
  /\ UNCHANGED <<now, scheduleVars, execVars, faults, edits>>

Clock ==
  /\ now < Horizon
  /\ now' = now + 1
  /\ UNCHANGED <<scheduleVars, run, jobVars, execVars, replaced, faults, edits>>

-----------------------------------------------------------------------------
\* A schedule that was just created.
Init ==
  /\ now = 0
  /\ input \in Inputs
  /\ status = "active"
  /\ nextRun = Next(input.cron, 0)
  /\ since = nextRun
  /\ resuming = {}
  /\ run = [r \in Runs |-> "none"]
  /\ jobState = [r \in Runs |-> "absent"]
  /\ attempt = [r \in Runs |-> 0]
  /\ asked = {}
  /\ pc = [r \in Runs |-> "idle"]
  /\ ret = [r \in Runs |-> "nil"]
  /\ cut = {}
  /\ replaced = {}
  /\ faults = 0
  /\ edits = 0

River(r) == Start(r) \/ Rescue(r) \/ CleanFinalized(r)

Operator ==
  \/ \E i \in Inputs, t \in 0..now : Update(i, t)
  \/ Pause
  \/ RequestResume
  \/ Resume
  \/ \E k \in Keys : Execute(k)

NextStep ==
  \/ \E t \in 0..now : Scan(t) \/ Disable(t)
  \/ \E r \in Runs : River(r) \/ Work(r) \/ Crash(r)
  \/ Operator
  \/ Clock

Spec == Init /\ [][NextStep]_vars

\* The loop scans every fifteen seconds with a fresh clock; nothing is assumed
\* of River, the workers and the operators.
Fairness == WF_vars(Scan(now) \/ Disable(now))

FairSpec == Spec /\ Fairness

-----------------------------------------------------------------------------
\* Types: every column, label and counter keeps to its values.
TypeOK ==
  /\ now \in Times
  /\ status \in {"active", "paused", "disabled"}
  /\ input \in Inputs
  /\ nextRun \in Nat
  /\ since \in Nat
  /\ resuming \subseteq Nat
  /\ run \in [Runs -> RunStatuses]
  /\ jobState \in [Runs -> JobStates]
  /\ attempt \in [Runs -> 0..MaxAttempts]
  /\ asked \subseteq Runs
  /\ pc \in [Runs -> {"idle", "begin", "handle", "succeed", "fail", "return"}]
  /\ ret \in [Runs -> {"nil", "error", "cancel"}]
  /\ cut \subseteq Runs
  /\ replaced \subseteq Runs
  /\ faults \in 0..MaxFaults
  /\ edits \in 0..MaxEdits

\* The scheduler looks at exactly the active schedules: an active one has a
\* next run, a paused or disabled one has none, through every order of edits,
\* pauses, resumptions and scans.
NextRunIffActive == status = "active" <=> nextRun # 0

\* An occurrence is enqueued at most once, and a key executed at most once,
\* also when an edit or a late resumption moves the next run back behind
\* occurrences that were already enqueued.
AskedOnce ==
  \A r, s \in Runs :
    r[1] = s[1] /\ r[2] = s[2] /\ Exists(r) /\ Exists(s) => r = s

\* A schedule that catches up and does not skip has a run for every occurrence
\* between the time it was last set and its next run, however many scans that
\* took and however late they were.
NoGap ==
  (/\ status = "active"
   /\ input.misfire = "catch_up"
   /\ input.overlap # "skip")
  => \A u \in since .. (nextRun - 1) :
       u = since \/ Occurs(input.cron, u) =>
         \E k \in 1..Copies : Exists(<<"schedule", u, k>>)

\* A run that counts as active has a job that will take it up: one without
\* would block a schedule that skips overlaps.  Crashes and lost statements are
\* made up for by the next attempt; only the fault that cuts the last attempt
\* short, which the code leaves as it is, ends the job before its run.
ActiveRunHasJob ==
  \A r \in Active : jobState[r] \in Live \/ r \in cut

\* A run that was cancelled in favour of another is not started again, even if
\* its worker, still running, writes failed over cancelled and lets River
\* decide about a retry.
ReplacedStaysDown ==
  [][\A r \in replaced : attempt'[r] = attempt[r]]_vars

\* Without faults, the next run of an active schedule comes to lie in the
\* future, also when the policies drop every due occurrence.
DueIsServed ==
  status = "active" /\ nextRun <= now
    ~> nextRun > now \/ status # "active" \/ faults > 0
=============================================================================
