-------------------------- MODULE SchedulerProofs --------------------------
(***************************************************************************)
(* Proofs about Scheduler for any crons, clock, attempts, faults, edits    *)
(* and keys: type correctness, when a schedule has a next run, that no     *)
(* occurrence is enqueued twice or left out, and what becomes of active    *)
(* and of replaced runs.                                                   *)
(***************************************************************************)
EXTENDS Scheduler, TLAPS

\* A run has a job from its first day, and only a job that River runs has a
\* worker.
JobShape ==
  \A r \in Runs :
    /\ run[r] = "none" <=> jobState[r] = "absent"
    /\ jobState[r] = "absent" => attempt[r] = 0
    /\ jobState[r] \in Waiting => attempt[r] < MaxAttempts
    /\ pc[r] # "idle" => jobState[r] = "running"

\* Every next run, present or requested, is a time, and since does not lie
\* behind it.
Agenda ==
  /\ NextRunIffActive
  /\ 0 \notin resuming
  /\ status = "active" => since <= nextRun

Base == TypeOK /\ JobShape /\ Agenda

FirstCopy == \A r \in Runs : Exists(r) => r[3] = 1

\* A job that was asked to stop never waits again, and a replaced run has one
\* that was asked or is over.
StaysDown ==
  \A r \in Runs :
    /\ r \in asked \cup replaced => jobState[r] \notin Waiting \cup {"absent"}
    /\ r \in replaced /\ jobState[r] = "running" => r \in asked

\* A run whose job was asked to stop is not taken up by its worker.
AskedIsCancelled ==
  \A r \in asked : /\ r \notin Active
                   /\ pc[r] = "begin" => run[r] = "cancelled"

\* A worker in its last attempt is there and closes the run before it returns,
\* unless a fault cut that attempt short; one that returns an error earlier
\* leaves the run to the next attempt.
WorkerCloses ==
  \A r \in Runs \ cut :
    /\ jobState[r] = "running" /\ pc[r] = "idle" => attempt[r] # MaxAttempts
    /\ pc[r] = "fail" => ret[r] # "nil"
    /\ pc[r] = "return" /\ r \in Active => ret[r] = "error" /\ attempt[r] # MaxAttempts

Carried == AskedIsCancelled /\ WorkerCloses /\ ActiveRunHasJob

-----------------------------------------------------------------------------
(***************************************************************************)
(* Crons: a next occurrence is a later time, and the occurrences between   *)
(* a time and its next one are none.                                       *)
(***************************************************************************)
LEMMA NextIsLater ==
  ASSUME NEW c \in Crons, NEW t \in Times
  PROVE  Next(c, t) \in Nat /\ Next(c, t) > t
BY CronAssumption DEF Next, Times

LEMMA NothingBetween ==
  ASSUME NEW c \in Crons, NEW t \in Times, NEW u \in Nat, t < u, u < Next(c, t)
  PROVE  ~Occurs(c, u)
<1> SUFFICES ASSUME NEW v \in Times, Next(c, v) = u PROVE FALSE
  BY DEF Occurs
<1>1. v \in Nat /\ t \in Nat /\ v < u
  BY NextIsLater, BoundAssumption DEF Times
<1>2. CASE t <= v
  <2>1. Next(c, v) = Next(c, t)
    BY <1>1, <1>2, CronAssumption DEF Next
  <2> QED
    BY <2>1
<1>3. CASE v < t
  <2>1. Next(c, t) = Next(c, v)
    BY <1>1, <1>3, CronAssumption DEF Next
  <2> QED
    BY <2>1
<1> QED
  BY <1>1, <1>2, <1>3

LEMMA InputType == TypeOK => input.cron \in Crons
BY InputAssumption DEF TypeOK

-----------------------------------------------------------------------------
(***************************************************************************)
(* Enqueueing.                                                             *)
(***************************************************************************)
\* Whatever the policy, a scan places the rows of some slots between the next
\* run and its clock, and moves the next run behind one of these times.
LEMMA ScanEnqueues ==
  ASSUME Base, NEW t \in 0..now, Scan(t)
  PROVE  /\ nextRun \in 1..t
         /\ \E slots \in SUBSET (nextRun..t), last \in nextRun..t :
              Enqueue(slots, Next(input.cron, last))
<1>1. /\ nextRun \in Nat /\ t \in Nat /\ nextRun <= t
      /\ nextRun # 0
  BY BoundAssumption DEF Base, TypeOK, Agenda, NextRunIffActive, Scan, Times
<1>2. nextRun \in 1..t /\ nextRun \in nextRun..t /\ t \in nextRun..t
  BY <1>1
<1>3. {nextRun} \in SUBSET (nextRun..t) /\ {} \in SUBSET (nextRun..t)
  BY <1>2
<1>4. CASE Ignore(t)
  BY <1>2, <1>3, <1>4 DEF Ignore
<1>5. CASE FireOnce(t)
  BY <1>2, <1>3, <1>5 DEF FireOnce
<1>6. CASE CatchUp(t)
  <2>1. PICK last \in Due(t) : Enqueue({u \in Due(t) : u <= last}, Next(input.cron, last))
    BY <1>6 DEF CatchUp
  <2>2. last \in nextRun..t /\ {u \in Due(t) : u <= last} \in SUBSET (nextRun..t)
    BY DEF Due
  <2> QED
    BY <1>2, <2>1, <2>2
<1> QED
  BY <1>4, <1>5, <1>6 DEF Scan

\* The new rows did not exist and are first copies.
LEMMA SlotRowsAreNew ==
  ASSUME NEW slots, NEW r \in SlotRows(slots)
  PROVE  /\ r[3] = 1
         /\ r \in Runs => ~Exists(r)
BY DEF SlotRows, Runs

\* What both ways of enqueueing, by the scan and by hand, have in common.
PlaceNew(new, old) ==
  /\ Place(new, old)
  /\ old \subseteq Active
  /\ \A r \in new : r[3] = 1 /\ (r \in Runs => ~Exists(r))
  /\ UNCHANGED <<execVars, faults, edits, now>>

LEMMA EnqueuePlaces ==
  ASSUME NEW slots, NEW next, Enqueue(slots, next)
  PROVE  PlaceNew(SlotRows(IF Overlaps THEN {} ELSE slots), ReplacedRuns)
BY SlotRowsAreNew DEF Enqueue, PlaceNew, ReplacedRuns

LEMMA ExecutePlaces ==
  ASSUME NEW k \in Keys, Execute(k)
  PROVE  PlaceNew({<<"manual", k, 1>>}, ReplacedRuns)
<1>1. ~Exists(<<"manual", k, 1>>)
  BY BoundAssumption DEF Execute
<1> QED
  BY <1>1 DEF Execute, PlaceNew, ReplacedRuns, scheduleVars

LEMMA PlaceTypes ==
  ASSUME TypeOK, JobShape, NEW new, NEW old, PlaceNew(new, old)
  PROVE  /\ run' \in [Runs -> RunStatuses]
         /\ jobState' \in [Runs -> JobStates]
         /\ attempt' = attempt
         /\ asked' \subseteq Runs
         /\ replaced' \subseteq Runs
BY DEF TypeOK, PlaceNew, Place, RunStatuses, JobStates, Live, Waiting, Finalized, Active

LEMMA PlaceShape ==
  ASSUME TypeOK, JobShape, NEW new, NEW old, PlaceNew(new, old)
  PROVE  JobShape'
BY BoundAssumption DEF TypeOK, JobShape, PlaceNew, Place, Exists, execVars, Waiting, Active

-----------------------------------------------------------------------------
(***************************************************************************)
(* Types, the shape of the jobs and the next run.                          *)
(***************************************************************************)
LEMMA BaseInit == Init => Base
<1> SUFFICES ASSUME Init PROVE Base
  OBVIOUS
<1>1. 0 \in Times /\ input.cron \in Crons
  BY BoundAssumption, InputAssumption DEF Init, Times
<1>2. nextRun \in Nat /\ nextRun # 0
  BY <1>1, NextIsLater DEF Init
<1>3. TypeOK
  BY <1>1, <1>2, BoundAssumption DEF Init, TypeOK, RunStatuses, JobStates
<1>4. JobShape
  BY DEF Init, JobShape, Waiting
<1>5. Agenda
  BY <1>2 DEF Init, Agenda, NextRunIffActive
<1> QED
  BY <1>3, <1>4, <1>5 DEF Base

LEMMA BaseRiver ==
  ASSUME Base, NEW r \in Runs, River(r) \/ Crash(r) \/ Return(r)
  PROVE  Base'
<1> USE DEF Base, TypeOK, JobShape, Waiting, Live, Finalized, JobStates
<1>1. UNCHANGED <<now, scheduleVars, run, asked, replaced, edits>>
  BY DEF River, Start, Rescue, CleanFinalized, Crash, Return, jobVars, execVars
<1>2. Agenda'
  BY <1>1 DEF Agenda, NextRunIffActive, scheduleVars
<1>3. CASE Start(r)
  BY <1>1, <1>2, <1>3, BoundAssumption DEF Start, scheduleVars
<1>4. CASE Rescue(r)
  BY <1>1, <1>2, <1>4, BoundAssumption DEF Rescue, AfterError, scheduleVars, execVars
<1>5. CASE CleanFinalized(r)
  BY <1>1, <1>2, <1>5 DEF CleanFinalized, scheduleVars, execVars
<1>6. CASE Crash(r)
  BY <1>1, <1>2, <1>6, BoundAssumption DEF Crash, scheduleVars, jobVars
<1>7. CASE Return(r)
  <2>1. jobState'[r] \in {"completed", "cancelled", "retryable", "discarded"}
    BY <1>7 DEF Return, AfterError
  <2>2. jobState'[r] = "retryable" => attempt[r] < MaxAttempts
    BY <1>7 DEF Return, AfterError
  <2>3. /\ jobState[r] = "running"
        /\ jobState' = [jobState EXCEPT ![r] = jobState'[r]]
        /\ pc' = [pc EXCEPT ![r] = "idle"]
        /\ ret' = [ret EXCEPT ![r] = "nil"]
        /\ UNCHANGED <<attempt, cut, faults>>
    BY <1>7 DEF Return
  <2> QED
    BY <1>1, <1>2, <2>1, <2>2, <2>3 DEF scheduleVars
<1> QED
  BY <1>3, <1>4, <1>5, <1>6, <1>7 DEF River

\* What a statement of the worker does to its run, its next statement and the
\* faults.
LEMMA StatementStep ==
  ASSUME Base, NEW r \in Runs, Begin(r) \/ Handle(r) \/ Succeed(r) \/ Fail(r)
  PROVE  /\ pc[r] \in {"begin", "handle", "succeed", "fail"}
         /\ \E v \in RunStatuses \ {"none", "queued", "cancelled"} :
              run' = run \/ run' = [run EXCEPT ![r] = v]
         /\ \E l \in {"handle", "succeed", "fail", "return"} : pc' = [pc EXCEPT ![r] = l]
         /\ \E v \in {"nil", "error", "cancel"} : ret' = [ret EXCEPT ![r] = v]
         /\ faults' \in 0..MaxFaults /\ faults' >= faults
         /\ cut' \in {cut, cut \cup {r}}
         /\ UNCHANGED <<now, scheduleVars, jobVars, replaced, edits>>
BY BoundAssumption
   DEF Base, TypeOK, Begin, Handle, Succeed, Fail, Goto, Fault, NoFault, SetRun, RunStatuses

LEMMA BaseStatement ==
  ASSUME Base, NEW r \in Runs, Begin(r) \/ Handle(r) \/ Succeed(r) \/ Fail(r)
  PROVE  Base'
<1>1. TypeOK'
  <2>1. run' \in [Runs -> RunStatuses]
    BY StatementStep DEF Base, TypeOK
  <2>2. pc' \in [Runs -> {"idle", "begin", "handle", "succeed", "fail", "return"}]
    BY StatementStep DEF Base, TypeOK
  <2>3. ret' \in [Runs -> {"nil", "error", "cancel"}]
    BY StatementStep DEF Base, TypeOK
  <2>4. cut' \subseteq Runs
    BY StatementStep DEF Base, TypeOK
  <2>5. faults' \in 0..MaxFaults
    BY StatementStep
  <2>6. UNCHANGED <<now, status, input, nextRun, since, resuming, jobState, attempt, asked,
                    replaced, edits>>
    BY StatementStep DEF scheduleVars, jobVars
  <2> QED
    BY <2>1, <2>2, <2>3, <2>4, <2>5, <2>6 DEF Base, TypeOK
<1>2. JobShape'
  BY StatementStep DEF Base, TypeOK, JobShape, jobVars, RunStatuses
<1>3. Agenda'
  BY StatementStep DEF Base, Agenda, NextRunIffActive, scheduleVars
<1> QED
  BY <1>1, <1>2, <1>3 DEF Base

LEMMA BaseScan ==
  ASSUME Base, NEW t \in 0..now, Scan(t)
  PROVE  Base'
<1>1. PICK slots \in SUBSET (nextRun..t), last \in nextRun..t :
        Enqueue(slots, Next(input.cron, last))
  BY ScanEnqueues
<1>2. last \in Times /\ nextRun \in Nat /\ nextRun <= last
  BY BoundAssumption DEF Base, TypeOK, Times
<1>3. Next(input.cron, last) \in Nat /\ Next(input.cron, last) > last
  BY <1>2, NextIsLater, InputType DEF Base
<1>4. PlaceNew(SlotRows(IF Overlaps THEN {} ELSE slots), ReplacedRuns)
  BY <1>1, EnqueuePlaces
<1>5. /\ nextRun' = Next(input.cron, last)
      /\ UNCHANGED <<now, status, input, resuming, since, execVars, faults, edits>>
  BY <1>1 DEF Enqueue
<1>6. TypeOK'
  BY <1>3, <1>4, <1>5, PlaceTypes DEF Base, TypeOK, execVars
<1>7. Agenda'
  BY <1>2, <1>3, <1>5 DEF Base, TypeOK, Agenda, NextRunIffActive, Scan
<1> QED
  BY <1>4, <1>6, <1>7, PlaceShape DEF Base

LEMMA BaseExecute ==
  ASSUME Base, NEW k \in Keys, Execute(k)
  PROVE  Base'
<1>1. PlaceNew({<<"manual", k, 1>>}, ReplacedRuns)
  BY ExecutePlaces
<1>2. UNCHANGED <<now, scheduleVars, execVars, faults, edits>>
  BY DEF Execute
<1>3. TypeOK'
  BY <1>1, <1>2, PlaceTypes DEF Base, TypeOK, execVars, scheduleVars
<1>4. Agenda'
  BY <1>2 DEF Base, Agenda, NextRunIffActive, scheduleVars
<1> QED
  BY <1>1, <1>3, <1>4, PlaceShape DEF Base

\* The steps that leave the runs and their jobs alone.
Settings ==
  \/ \E i \in Inputs, t \in 0..now : Update(i, t)
  \/ \E t \in 0..now : Disable(t)
  \/ Pause
  \/ RequestResume
  \/ Resume
  \/ Clock

LEMMA BaseSettings ==
  ASSUME Base, Settings
  PROVE  Base' /\ UNCHANGED <<run, jobVars, execVars, replaced, faults>>
<1>1. UNCHANGED <<run, jobVars, execVars, replaced, faults>>
  BY DEF Settings, Update, Disable, Pause, RequestResume, Resume, Clock
<1>2. JobShape'
  BY <1>1 DEF Base, JobShape, jobVars, execVars
<1>3. ASSUME /\ now' \in Times
             /\ status' \in {"active", "paused", "disabled"}
             /\ input' \in Inputs
             /\ nextRun' \in Nat
             /\ since' \in Nat
             /\ resuming' \subseteq Nat
             /\ edits' \in 0..MaxEdits
      PROVE  TypeOK'
  BY <1>1, <1>3 DEF Base, TypeOK, jobVars, execVars
<1> USE <1>2, <1>3 DEF Base, TypeOK, Agenda, NextRunIffActive
<1>4. ASSUME NEW i \in Inputs, NEW t \in 0..now, Update(i, t) PROVE Base'
  <2>1. t \in Times /\ i.cron \in Crons
    BY BoundAssumption, InputAssumption DEF Times
  <2>2. Next(i.cron, t) \in Nat /\ Next(i.cron, t) # 0
    BY <2>1, NextIsLater DEF Times
  <2>3. edits' \in 0..MaxEdits
    BY <1>4, BoundAssumption DEF Update, Edit
  <2> QED
    BY <1>4, <2>2, <2>3 DEF Update, Set
<1>5. ASSUME NEW t \in 0..now, Disable(t) PROVE Base'
  BY <1>5 DEF Disable
<1>6. CASE Pause
  BY <1>6 DEF Pause, Set
<1>7. CASE RequestResume
  <2>1. Next(input.cron, now) \in Nat /\ Next(input.cron, now) # 0
    BY NextIsLater, InputType DEF Times
  <2> QED
    BY <1>7, <2>1 DEF RequestResume
<1>8. CASE Resume
  BY <1>8 DEF Resume, Set
<1>9. CASE Clock
  BY <1>9, BoundAssumption DEF Clock, scheduleVars, Times
<1> QED
  BY <1>1, <1>4, <1>5, <1>6, <1>7, <1>8, <1>9 DEF Settings

\* The steps of the specification, as the proofs take them apart.
LEMMA StepCases ==
  ASSUME NextStep
  PROVE  \/ \E t \in 0..now : Scan(t)
         \/ \E r \in Runs : River(r) \/ Crash(r) \/ Return(r)
         \/ \E r \in Runs : Begin(r) \/ Handle(r) \/ Succeed(r) \/ Fail(r)
         \/ \E k \in Keys : Execute(k)
         \/ Settings
BY DEF NextStep, Work, Operator, Settings

LEMMA BaseStep == Base /\ [NextStep]_vars => Base'
<1> SUFFICES ASSUME Base, [NextStep]_vars PROVE Base'
  OBVIOUS
<1>1. CASE UNCHANGED vars
  BY <1>1 DEF Base, TypeOK, JobShape, Agenda, NextRunIffActive,
              vars, scheduleVars, jobVars, execVars
<1>2. CASE NextStep
  BY <1>2, StepCases, BaseScan, BaseRiver, BaseStatement, BaseExecute, BaseSettings
<1> QED
  BY <1>1, <1>2

LEMMA BaseHolds == Spec => []Base
BY BaseInit, BaseStep, PTL DEF Spec

\* Every reachable state of a schedule, its runs and its jobs is well typed.
THEOREM TypeCorrect == Spec => []TypeOK
<1>1. Base => TypeOK
  BY DEF Base
<1> QED
  BY <1>1, BaseHolds, PTL

\* A schedule has a next run exactly while it is active: every edit, pause,
\* late resumption and scan leaves it so.
THEOREM ActiveHasNextRun == Spec => []NextRunIffActive
<1>1. Base => NextRunIffActive
  BY DEF Base, Agenda
<1> QED
  BY <1>1, BaseHolds, PTL

-----------------------------------------------------------------------------
(***************************************************************************)
(* One run for an occurrence, and no occurrence without one.               *)
(***************************************************************************)
LEMMA FirstCopyStep == Base /\ FirstCopy /\ [NextStep]_vars => FirstCopy'
<1> SUFFICES ASSUME Base, FirstCopy, [NextStep]_vars PROVE FirstCopy'
  OBVIOUS
<1>1. ASSUME UNCHANGED run PROVE FirstCopy'
  BY <1>1 DEF FirstCopy, Exists
<1>2. ASSUME NEW new, NEW old, PlaceNew(new, old) PROVE FirstCopy'
  BY <1>2 DEF PlaceNew, Place, FirstCopy, Exists, Active
<1>3. ASSUME NEW r \in Runs, Begin(r) \/ Handle(r) \/ Succeed(r) \/ Fail(r) PROVE FirstCopy'
  <2>1. Exists(r)
    BY <1>3, StatementStep DEF Base, JobShape, Exists
  <2> QED
    BY <1>3, <2>1, StatementStep DEF Base, TypeOK, FirstCopy, Exists
<1>4. ASSUME NEW r \in Runs, River(r) \/ Crash(r) \/ Return(r) PROVE UNCHANGED run
  BY <1>4 DEF River, Start, Rescue, CleanFinalized, Crash, Return
<1>5. ASSUME NEW t \in 0..now, Scan(t) PROVE FirstCopy'
  BY <1>2, <1>5, ScanEnqueues, EnqueuePlaces
<1>6. ASSUME NEW k \in Keys, Execute(k) PROVE FirstCopy'
  BY <1>2, <1>6, ExecutePlaces
<1>7. CASE UNCHANGED vars
  BY <1>1, <1>7 DEF vars
<1>8. CASE NextStep
  BY <1>1, <1>3, <1>4, <1>5, <1>6, <1>8, StepCases, BaseSettings
<1> QED
  BY <1>7, <1>8

\* An occurrence is enqueued at most once and a key executed at most once:
\* whatever moves the next run back, only first copies of rows exist.
THEOREM EnqueuedOnce == Spec => []AskedOnce
<1>1. Init => FirstCopy
  BY DEF Init, FirstCopy, Exists
<1>2. FirstCopy => AskedOnce
  BY DEF FirstCopy, AskedOnce, Runs
<1> QED
  BY <1>1, <1>2, BaseHolds, FirstCopyStep, PTL DEF Spec

CatchesUp == /\ status = "active"
             /\ input.misfire = "catch_up"
             /\ input.overlap # "skip"

HasRow(u) ==
  \E k \in 1..Copies : <<"schedule", u, k>> \in Runs /\ Exists(<<"schedule", u, k>>)

\* NoGap, with rows that are rows of the table also when the next run lies
\* behind the horizon.
NoGapRows ==
  CatchesUp => \A u \in since .. (nextRun - 1) :
                 u = since \/ Occurs(input.cron, u) => HasRow(u)

\* Rows stay.
LEMMA RowsStay ==
  ASSUME Base, [NextStep]_vars, NEW u, HasRow(u)
  PROVE  HasRow(u)'
<1>1. \A r \in Runs : run[r] # "none" => run'[r] # "none"
  <2>1. CASE UNCHANGED vars
    BY <2>1 DEF vars
  <2>2. ASSUME NEW new, NEW old, PlaceNew(new, old)
        PROVE  \A r \in Runs : run[r] # "none" => run'[r] # "none"
    BY <2>2 DEF PlaceNew, Place
  <2>3. ASSUME NEW r \in Runs, Begin(r) \/ Handle(r) \/ Succeed(r) \/ Fail(r)
        PROVE  \A s \in Runs : run[s] # "none" => run'[s] # "none"
    BY <2>3, StatementStep DEF Base, TypeOK
  <2>4. ASSUME NEW r \in Runs, River(r) \/ Crash(r) \/ Return(r) PROVE UNCHANGED run
    BY <2>4 DEF River, Start, Rescue, CleanFinalized, Crash, Return
  <2>5. ASSUME NEW t \in 0..now, Scan(t) PROVE \E new, old : PlaceNew(new, old)
    BY <2>5, ScanEnqueues, EnqueuePlaces
  <2>6. ASSUME NEW k2 \in Keys, Execute(k2) PROVE \E new, old : PlaceNew(new, old)
    BY <2>6, ExecutePlaces
  <2>7. CASE NextStep
    BY <2>2, <2>3, <2>4, <2>5, <2>6, <2>7, StepCases, BaseSettings
  <2> QED
    BY <2>1, <2>7
<1> QED
  BY <1>1 DEF HasRow, Exists

\* A scan that catches up gives every occurrence before its new next run a row.
LEMMA CatchUpLeavesNoGap ==
  ASSUME Base, NoGapRows, NEW t \in 0..now, Scan(t), CatchesUp
  PROVE  \A u \in since .. (nextRun' - 1) : u = since \/ Occurs(input.cron, u) => HasRow(u)'
<1>1. PICK last \in Due(t) : Enqueue({u \in Due(t) : u <= last}, Next(input.cron, last))
  BY DEF Scan, CatchesUp, CatchUp
<1>2. /\ nextRun \in 1..t /\ since \in Nat /\ since <= nextRun
      /\ t \in Nat /\ t <= Horizon /\ last \in nextRun..t /\ last \in Times
  BY ScanEnqueues, BoundAssumption DEF Base, TypeOK, Agenda, CatchesUp, Times, Due
<1>3. /\ nextRun' = Next(input.cron, last) /\ nextRun' \in Nat /\ last < nextRun'
  BY <1>1, <1>2, NextIsLater, InputType DEF Enqueue, Base
<1> TAKE u \in since .. (nextRun' - 1)
<1> HAVE u = since \/ Occurs(input.cron, u)
<1>4. u \in Nat /\ u < nextRun'
  BY <1>2, <1>3
<1>5. CASE u < nextRun
  <2>1. HasRow(u)
    BY <1>2, <1>4, <1>5 DEF NoGapRows
  <2> QED
    BY <2>1, RowsStay DEF NextStep
<1>6. CASE nextRun <= u
  <2>1. u <= last
    <3>1. u = since => u = nextRun
      BY <1>2, <1>4, <1>6
    <3>2. ~(last < u)
      BY <1>2, <1>3, <1>4, <3>1, NothingBetween, InputType DEF Base
    <3> QED
      BY <1>2, <1>4, <3>2 DEF Times
  <2>2. u \in Due(t)
    BY <1>2, <1>4, <1>6, <2>1 DEF Due
  <2> DEFINE slots == {v \in Due(t) : v <= last}
  <2>3. u \in slots /\ u \in 1..Horizon
    <3>1. u \in slots
      BY <2>1, <2>2
    <3>2. u \in 1..Horizon
      BY <1>2, <1>4, <1>6, <2>1, BoundAssumption
    <3> QED
      BY <3>1, <3>2
  <2>4. ~Overlaps
    BY DEF Overlaps, CatchesUp
  <2>5. Place(SlotRows(slots), ReplacedRuns)
    BY <1>1, <2>4 DEF Enqueue
  <2>6. CASE HasRow(u)
    BY <2>6, RowsStay DEF NextStep
  <2>7. CASE ~HasRow(u)
    <3>1. <<"schedule", u, 1>> \in SlotRows(slots)
      BY <2>3, <2>7 DEF SlotRows, HasRow, Runs
    <3>2. <<"schedule", u, 1>> \in Runs /\ 1 \in 1..Copies
      BY <2>3, BoundAssumption DEF Runs
    <3>3. run'[<<"schedule", u, 1>>] = "queued"
      BY <2>5, <3>1, <3>2 DEF Place
    <3> QED
      BY <3>2, <3>3 DEF HasRow, Exists
  <2> QED
    BY <2>6, <2>7
<1> QED
  BY <1>2, <1>4, <1>5, <1>6

LEMMA NoGapStep == Base /\ NoGapRows /\ [NextStep]_vars => NoGapRows'
<1> SUFFICES ASSUME Base, NoGapRows, [NextStep]_vars PROVE NoGapRows'
  OBVIOUS
<1>1. ASSUME UNCHANGED <<status, input, nextRun, since>> PROVE NoGapRows'
  BY <1>1, RowsStay DEF NoGapRows, CatchesUp, Occurs, Next
<1>2. ASSUME since' = nextRun' PROVE NoGapRows'
  <2>1. nextRun' \in Nat
    BY BaseStep DEF Base, TypeOK
  <2>2. \A n \in Nat : n .. (n - 1) = {}
    OBVIOUS
  <2>3. (since .. (nextRun - 1))' = {}
    BY <1>2, <2>1, <2>2
  <2> QED
    BY <2>3 DEF NoGapRows
<1>3. ASSUME NEW t \in 0..now, Scan(t) PROVE NoGapRows'
  <2>1. UNCHANGED <<status, input, since>>
    BY <1>3, ScanEnqueues DEF Enqueue
  <2>2. CASE CatchesUp
    BY <1>3, <2>1, <2>2, CatchUpLeavesNoGap DEF NoGapRows, Occurs, Next
  <2>3. CASE ~CatchesUp
    BY <2>1, <2>3 DEF NoGapRows, CatchesUp
  <2> QED
    BY <2>2, <2>3
<1>4. CASE Settings
  <2>1. ASSUME NEW t \in 0..now, Disable(t) PROVE NoGapRows'
    BY <2>1 DEF Disable, NoGapRows, CatchesUp
  <2>2. Settings => \/ \E t \in 0..now : Disable(t)
                    \/ since' = nextRun'
                    \/ UNCHANGED <<status, input, nextRun, since>>
    BY DEF Settings, Update, Pause, RequestResume, Resume, Clock, Set, scheduleVars
  <2> QED
    BY <1>1, <1>2, <1>4, <2>1, <2>2
<1>5. ASSUME NEW r \in Runs, River(r) \/ Crash(r) \/ Return(r)
      PROVE  UNCHANGED <<status, input, nextRun, since>>
  BY <1>5 DEF River, Start, Rescue, CleanFinalized, Crash, Return, scheduleVars
<1>6. ASSUME NEW r \in Runs, Begin(r) \/ Handle(r) \/ Succeed(r) \/ Fail(r)
      PROVE  UNCHANGED <<status, input, nextRun, since>>
  BY <1>6, StatementStep DEF scheduleVars
<1>7. ASSUME NEW k \in Keys, Execute(k)
      PROVE  UNCHANGED <<status, input, nextRun, since>>
  BY <1>7 DEF Execute, scheduleVars
<1>8. CASE UNCHANGED vars
  BY <1>1, <1>8 DEF vars, scheduleVars
<1>9. CASE NextStep
  BY <1>1, <1>3, <1>4, <1>5, <1>6, <1>7, <1>9, StepCases
<1> QED
  BY <1>8, <1>9

\* A schedule that catches up and does not skip has a run for every occurrence
\* since it was last set: the scans take the due occurrences in their order and
\* go on from the last one they took.
THEOREM NoOccurrenceLost == Spec => []NoGap
<1>1. Init => NoGapRows
  <2>1. Init => since = nextRun /\ nextRun \in Nat
    BY BaseInit DEF Init, Base, TypeOK
  <2> QED
    BY <2>1 DEF NoGapRows
<1>2. NoGapRows => NoGap
  BY DEF NoGapRows, NoGap, CatchesUp, HasRow
<1> QED
  BY <1>1, <1>2, BaseHolds, NoGapStep, PTL DEF Spec

-----------------------------------------------------------------------------
(***************************************************************************)
(* Replaced and active runs.                                               *)
(***************************************************************************)
LEMMA StaysDownStep == Base /\ StaysDown /\ [NextStep]_vars => StaysDown'
<1> SUFFICES ASSUME Base, StaysDown, [NextStep]_vars PROVE StaysDown'
  OBVIOUS
<1>1. ASSUME UNCHANGED <<jobState, asked, replaced>> PROVE StaysDown'
  BY <1>1 DEF StaysDown
<1>2. ASSUME NEW new, NEW old, PlaceNew(new, old) PROVE StaysDown'
  BY <1>2 DEF PlaceNew, Place, StaysDown, Base, TypeOK, JobShape, Exists, Active,
              Waiting, Live, Finalized, JobStates
<1>3. ASSUME NEW r \in Runs, River(r) \/ Crash(r) \/ Return(r) PROVE StaysDown'
  <2>1. UNCHANGED <<asked, replaced>>
    BY <1>3 DEF River, Start, Rescue, CleanFinalized, Crash, Return, jobVars
  <2>2. jobState \in [Runs -> JobStates]
    BY DEF Base, TypeOK
  <2>3. CASE Start(r)
    BY <2>1, <2>2, <2>3 DEF StaysDown, Start
  <2>4. CASE Rescue(r)
    BY <2>1, <2>2, <2>4 DEF StaysDown, Rescue, AfterError, Waiting
  <2>5. CASE CleanFinalized(r)
    BY <2>1, <2>2, <2>5 DEF StaysDown, CleanFinalized, Waiting
  <2>6. CASE Crash(r)
    BY <1>1, <2>1, <2>6 DEF Crash, jobVars
  <2>7. CASE Return(r)
    <3>1. jobState[r] = "running"
      BY <2>7 DEF Return, Base, JobShape
    <3>2. r \in asked => jobState'[r] \notin Waiting
      BY <2>2, <2>7 DEF Return, AfterError, Waiting, Base, TypeOK
    <3>3. jobState'[r] \in {"completed", "cancelled", "retryable", "discarded"}
      BY <2>2, <2>7 DEF Return, AfterError, Base, TypeOK
    <3>4. \A s \in Runs \ {r} : jobState'[s] = jobState[s]
      BY <2>2, <2>7 DEF Return
    <3> QED
      BY <2>1, <3>1, <3>2, <3>3, <3>4 DEF StaysDown
  <2> QED
    BY <1>3, <2>3, <2>4, <2>5, <2>6, <2>7 DEF River
<1>4. ASSUME NEW t \in 0..now, Scan(t) PROVE StaysDown'
  BY <1>2, <1>4, ScanEnqueues, EnqueuePlaces
<1>5. ASSUME NEW k \in Keys, Execute(k) PROVE StaysDown'
  BY <1>2, <1>5, ExecutePlaces
<1>6. ASSUME NEW r \in Runs, Begin(r) \/ Handle(r) \/ Succeed(r) \/ Fail(r) PROVE StaysDown'
  BY <1>1, <1>6, StatementStep DEF jobVars
<1>7. CASE Settings
  BY <1>1, <1>7, BaseSettings DEF jobVars
<1>8. CASE UNCHANGED vars
  BY <1>1, <1>8 DEF vars, jobVars
<1>9. CASE NextStep
  BY <1>3, <1>4, <1>5, <1>6, <1>7, <1>9, StepCases
<1> QED
  BY <1>8, <1>9

\* A run that was cancelled in favour of another is not started again.
THEOREM ReplacedIsOver == Spec => ReplacedStaysDown
<1>1. Init => StaysDown
  BY DEF Init, StaysDown
<1>2. Base /\ StaysDown /\ [NextStep]_vars => [\A r \in replaced : attempt'[r] = attempt[r]]_vars
  <2> SUFFICES ASSUME Base, StaysDown, NextStep, NEW q \in replaced PROVE attempt'[q] = attempt[q]
    OBVIOUS
  <2>1. q \in Runs /\ jobState[q] \notin Waiting /\ attempt \in [Runs -> 0..MaxAttempts]
    BY DEF Base, TypeOK, StaysDown
  <2>2. ASSUME NEW r \in Runs, River(r) \/ Crash(r) \/ Return(r) PROVE attempt'[q] = attempt[q]
    BY <2>1, <2>2 DEF River, Start, Rescue, CleanFinalized, Crash, Return, jobVars
  <2>3. ASSUME NEW t \in 0..now, Scan(t) PROVE UNCHANGED attempt
    BY <2>3, ScanEnqueues DEF Enqueue, Place
  <2>4. ASSUME NEW k \in Keys, Execute(k) PROVE UNCHANGED attempt
    BY <2>4 DEF Execute, Place
  <2>5. ASSUME NEW r \in Runs, Begin(r) \/ Handle(r) \/ Succeed(r) \/ Fail(r)
        PROVE  UNCHANGED attempt
    BY <2>5, StatementStep DEF jobVars
  <2> QED
    BY <2>2, <2>3, <2>4, <2>5, StepCases, BaseSettings DEF jobVars
<1> QED
  BY <1>1, <1>2, BaseHolds, StaysDownStep, PTL DEF Spec, ReplacedStaysDown

LEMMA CarriedPlace ==
  ASSUME Base, StaysDown, Carried, NEW new, NEW old, PlaceNew(new, old)
  PROVE  Carried'
<1>1. /\ \A r \in Runs : r \in new => run[r] = "none" /\ jobState[r] = "absent" /\ pc[r] = "idle"
      /\ \A r \in Runs : r \in old => r \notin new
  BY DEF PlaceNew, Base, JobShape, Exists, Active
<1>2. /\ asked' = asked \cup {r \in old : jobState[r] \in Live}
      /\ run' = [r \in Runs |-> IF r \in new THEN "queued"
                                ELSE IF r \in old THEN "cancelled" ELSE run[r]]
      /\ UNCHANGED <<pc, ret, cut, attempt>>
  BY DEF PlaceNew, Place, execVars
<1>3. jobState' = [r \in Runs |-> IF r \in new THEN "available"
                                 ELSE IF r \in old /\ jobState[r] \in Waiting
                                   THEN "cancelled" ELSE jobState[r]]
  BY DEF PlaceNew, Place
<1>4. AskedIsCancelled'
  <2> SUFFICES ASSUME NEW r \in asked'
               PROVE  r \notin Active' /\ (pc[r] = "begin" => run'[r] = "cancelled")
    BY <1>2 DEF AskedIsCancelled
  <2>1. r \in Runs /\ r \notin new
    BY <1>1, <1>2 DEF PlaceNew, Base, TypeOK, StaysDown, Active
  <2> QED
    BY <1>2, <2>1 DEF Carried, AskedIsCancelled, Active
<1>5. WorkerCloses'
  BY <1>1, <1>2, <1>3 DEF Carried, WorkerCloses, Active, Waiting
<1>6. ActiveRunHasJob'
  BY <1>1, <1>2, <1>3 DEF Carried, ActiveRunHasJob, Active, Waiting, Live, PlaceNew
<1> QED
  BY <1>4, <1>5, <1>6 DEF Carried

LEMMA CarriedRiver ==
  ASSUME Base, StaysDown, Carried, NEW r \in Runs, River(r) \/ Crash(r) \/ Return(r)
  PROVE  Carried'
<1>1. UNCHANGED <<run, asked>>
  BY DEF River, Start, Rescue, CleanFinalized, Crash, Return, jobVars
<1>2. /\ jobState \in [Runs -> JobStates]
      /\ pc \in [Runs -> {"idle", "begin", "handle", "succeed", "fail", "return"}]
      /\ ret \in [Runs -> {"nil", "error", "cancel"}]
      /\ attempt \in [Runs -> 0..MaxAttempts] /\ MaxAttempts \in Nat
  BY BoundAssumption DEF Base, TypeOK
<1>3. CASE Start(r)
  BY <1>1, <1>2, <1>3
     DEF Start, Carried, AskedIsCancelled, WorkerCloses, ActiveRunHasJob, Active, Live, StaysDown
<1>4. CASE Rescue(r)
  <2>1. UNCHANGED <<pc, ret, cut, attempt>>
    BY <1>4 DEF Rescue, execVars
  <2>2. /\ \A s \in Runs \ {r} : jobState'[s] = jobState[s]
        /\ jobState'[r] \in {"cancelled", "retryable", "discarded"}
    BY <1>2, <1>4 DEF Rescue, AfterError
  <2>3. r \in cut \/ r \notin Active \/ jobState'[r] = "retryable"
    BY <1>2, <1>4 DEF Rescue, AfterError, Carried, AskedIsCancelled, WorkerCloses
  <2>4. AskedIsCancelled' /\ WorkerCloses'
    BY <1>1, <2>1, <2>2 DEF Carried, AskedIsCancelled, WorkerCloses, Active
  <2>5. ActiveRunHasJob'
    BY <1>1, <2>1, <2>2, <2>3 DEF Carried, ActiveRunHasJob, Active, Live, Waiting
  <2> QED
    BY <2>4, <2>5 DEF Carried
<1>5. CASE CleanFinalized(r)
  BY <1>1, <1>2, <1>5
     DEF CleanFinalized, execVars, Finalized, Carried, AskedIsCancelled, WorkerCloses,
         ActiveRunHasJob, Active, Live, Waiting
<1>6. CASE Crash(r)
  <2>1. /\ pc' = [pc EXCEPT ![r] = "idle"] /\ ret' = [ret EXCEPT ![r] = "nil"]
        /\ UNCHANGED <<jobState, attempt>>
        /\ cut' = IF attempt[r] = MaxAttempts THEN cut \cup {r} ELSE cut
    BY <1>6 DEF Crash, jobVars
  <2>2. AskedIsCancelled'
    BY <1>1, <1>2, <2>1 DEF Carried, AskedIsCancelled, Active
  <2>3. WorkerCloses'
    BY <1>1, <1>2, <2>1 DEF Carried, WorkerCloses, Active
  <2>4. ActiveRunHasJob'
    BY <1>1, <2>1 DEF Carried, ActiveRunHasJob, Active
  <2> QED
    BY <2>2, <2>3, <2>4 DEF Carried
<1>7. CASE Return(r)
  <2>1. pc[r] = "return" /\ pc' = [pc EXCEPT ![r] = "idle"]
        /\ ret' = [ret EXCEPT ![r] = "nil"] /\ UNCHANGED <<cut, attempt>>
    BY <1>7 DEF Return
  <2>2. \A s \in Runs \ {r} : jobState'[s] = jobState[s]
    BY <1>2, <1>7 DEF Return
  <2>3. jobState'[r] \in {"completed", "cancelled", "retryable", "discarded"}
    BY <1>2, <1>7 DEF Return, AfterError, Base, TypeOK
  <2>4. AskedIsCancelled'
    BY <1>1, <1>2, <2>1 DEF Carried, AskedIsCancelled, Active
  <2>5. WorkerCloses'
    BY <1>1, <1>2, <2>1, <2>2, <2>3 DEF Carried, WorkerCloses, Active
  <2>6. r \in cut \/ r \notin Active \/ jobState'[r] = "retryable"
    BY <1>2, <1>7 DEF Return, AfterError, Carried, AskedIsCancelled, WorkerCloses
  <2>7. ActiveRunHasJob'
    BY <1>1, <2>1, <2>2, <2>6 DEF Carried, ActiveRunHasJob, Active, Live, Waiting
  <2> QED
    BY <2>4, <2>5, <2>7 DEF Carried
<1> QED
  BY <1>3, <1>4, <1>5, <1>6, <1>7 DEF River

LEMMA CarriedStatement ==
  ASSUME Base, Carried, NEW r \in Runs, Begin(r) \/ Handle(r) \/ Succeed(r) \/ Fail(r)
  PROVE  Carried'
<1>1. /\ jobState[r] = "running"
      /\ UNCHANGED jobVars
      /\ cut' \in {cut, cut \cup {r}}
  BY StatementStep DEF Base, JobShape
<1>2. \A s \in Runs \ {r} : run'[s] = run[s] /\ pc'[s] = pc[s] /\ ret'[s] = ret[s]
  BY StatementStep DEF Base, TypeOK
<1>3. pc'[r] \notin {"idle", "begin"}
  BY StatementStep DEF Base, TypeOK
<1>4. r \in asked => run'[r] \notin {"queued", "running"}
  BY DEF Base, TypeOK, Begin, Handle, Succeed, Fail, SetRun, Carried, AskedIsCancelled,
         Active, Executable
<1>5. pc'[r] = "return" /\ r \notin cut' =>
        \/ run'[r] \notin {"queued", "running"}
        \/ ret'[r] = "error" /\ attempt[r] # MaxAttempts
  <2>1. /\ run \in [Runs -> RunStatuses]
        /\ pc \in [Runs -> {"idle", "begin", "handle", "succeed", "fail", "return"}]
        /\ ret \in [Runs -> {"nil", "error", "cancel"}]
    BY DEF Base, TypeOK
  <2>2. Fault(r) /\ r \notin cut' => attempt[r] # MaxAttempts /\ ret[r] # "cancel"
    BY DEF Fault, Last
  <2>3. CASE Begin(r)
    BY <2>1, <2>2, <2>3 DEF Begin, SetRun, Goto, Executable
  <2>4. CASE Handle(r)
    BY <2>1, <2>4 DEF Handle, Goto
  <2>5. CASE Succeed(r)
    BY <2>1, <2>2, <2>5 DEF Succeed, SetRun, Goto
  <2>6. CASE Fail(r)
    <3>1. r \notin cut' => ret[r] # "nil"
      BY <1>1, <2>6 DEF Carried, WorkerCloses, Fail
    <3> QED
      BY <2>1, <2>2, <2>6, <3>1 DEF Fail, SetRun, Goto
  <2> QED
    BY <2>3, <2>4, <2>5, <2>6
<1>6. UNCHANGED <<asked, jobState, attempt>>
  BY <1>1 DEF jobVars
<1>7. AskedIsCancelled'
  BY <1>2, <1>3, <1>4, <1>6 DEF Base, TypeOK, Carried, AskedIsCancelled, Active
<1>8. WorkerCloses'
  <2>1. pc'[r] = "fail" => ret'[r] # "nil"
    BY DEF Base, TypeOK, Begin, Handle, Succeed, Fail, Goto
  <2> QED
    BY <1>1, <1>2, <1>3, <1>5, <1>6, <2>1 DEF Carried, WorkerCloses, Active
<1>9. ActiveRunHasJob'
  BY <1>1, <1>2, <1>6 DEF Carried, ActiveRunHasJob, Active, Live
<1> QED
  BY <1>7, <1>8, <1>9 DEF Carried

LEMMA CarriedStep == Base /\ StaysDown /\ Carried /\ [NextStep]_vars => Carried'
<1> SUFFICES ASSUME Base, StaysDown, Carried, [NextStep]_vars PROVE Carried'
  OBVIOUS
<1>1. ASSUME UNCHANGED <<run, jobVars, execVars>> PROVE Carried'
  BY <1>1 DEF Carried, AskedIsCancelled, WorkerCloses, ActiveRunHasJob, Active,
              jobVars, execVars
<1>2. ASSUME NEW t \in 0..now, Scan(t) PROVE Carried'
  BY <1>2, ScanEnqueues, EnqueuePlaces, CarriedPlace
<1>3. ASSUME NEW k \in Keys, Execute(k) PROVE Carried'
  BY <1>3, ExecutePlaces, CarriedPlace
<1>4. CASE Settings
  BY <1>1, <1>4, BaseSettings
<1>5. CASE UNCHANGED vars
  BY <1>1, <1>5 DEF vars
<1>6. CASE NextStep
  BY <1>2, <1>3, <1>4, <1>6, StepCases, CarriedRiver, CarriedStatement
<1> QED
  BY <1>5, <1>6

\* A run that counts as active has a job that is waiting or running, unless a
\* fault cut its last attempt short: the worker closes the run before River
\* closes the job, or River repeats the attempt.
THEOREM ActiveIsCarried == Spec => []ActiveRunHasJob
<1>1. Init => StaysDown /\ Carried
  BY DEF Init, StaysDown, Carried, AskedIsCancelled, WorkerCloses, ActiveRunHasJob, Active
<1>2. Carried => ActiveRunHasJob
  BY DEF Carried
<1> QED
  BY <1>1, <1>2, BaseHolds, StaysDownStep, CarriedStep, PTL DEF Spec
=============================================================================
