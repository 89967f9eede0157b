--------------------------- MODULE DeliveryProofs ---------------------------
(***************************************************************************)
(* Proofs about Delivery for any deliveries, jobs, attempts, faults and    *)
(* retries: type correctness, the ownership of a claimed delivery, the     *)
(* record of what a provider may have delivered, and the refinement of     *)
(* AtMostOnce.                                                             *)
(***************************************************************************)
EXTENDS Delivery, TLAPS

\* River's uniqueness keeps the jobs of a delivery apart.
OneLiveJob ==
  \A j, k \in Jobs :
    j # k /\ JobFor[j] = JobFor[k] => ~(jobState[j] \in Live /\ jobState[k] \in Live)

BusyIsRunning == \A j \in Jobs : pc[j] # "idle" => jobState[j] = "running"

\* A snooze gives back an attempt that was counted.
RunningIsCounted == \A j \in Jobs : jobState[j] = "running" => jobAttempt[j] # 0

ClaimedIsProcessing == \A j \in Jobs : pc[j] \in Claimed => status[JobFor[j]] = "processing"

UnwrittenBeforeCall ==
  \A j \in Jobs : pc[j] \in {"check", "send"} => exposure[JobFor[j]] # "written"

\* What send returned tells whether the provider may have delivered.
OutcomeTells ==
  \A j \in Jobs : pc[j] = "record" =>
    /\ exposure[JobFor[j]] = "written" => out[j] \in MayHaveDelivered(Channel[JobFor[j]])
    /\ out[j] = "accepted" => exposure[JobFor[j]] = "written"

Ownership ==
  /\ OneLiveJob
  /\ BusyIsRunning
  /\ RunningIsCounted
  /\ ClaimedIsProcessing
  /\ ExposureOnRecord
  /\ UnwrittenBeforeCall
  /\ OutcomeTells

Inv == TypeOK /\ Ownership

-----------------------------------------------------------------------------
\* A step of the worker, of River, or of anybody else keeps every variable in
\* its type.
LEMMA TypeInit == Init => TypeOK
<1> SUFFICES ASSUME Init PROVE TypeOK
  OBVIOUS
<1>1. /\ retryable \in [Deliveries -> BOOLEAN]
      /\ correlated \in [Jobs -> BOOLEAN]
      /\ expired \in BOOLEAN
      /\ fanout \in BOOLEAN
  BY Zenon DEF Init
<1>2. /\ attempts \in [Deliveries -> 0..MaxAttempts]
      /\ jobAttempt \in [Jobs -> Nat]
      /\ faults \in 0..MaxFaults
      /\ retries \in 0..MaxRetries
  BY BoundAssumption DEF Init
<1>3. /\ status \in [Deliveries -> Statuses]
      /\ risk \in [Deliveries -> Risks]
      /\ result \in [Deliveries -> Outcomes \cup {"none"}]
      /\ device \in [Deliveries -> {"active", "invalid"}]
      /\ exposure \in [Deliveries -> {"none", "written", "reopened", "duplicated"}]
  BY DEF Init, Statuses, Risks, Outcomes
<1>4. /\ jobState \in [Jobs -> JobStates]
      /\ task \in [Jobs -> Tasks]
      /\ pc \in [Jobs -> Labels]
      /\ out \in [Jobs -> Outcomes \cup {"none", "cancelled"}]
      /\ ret \in [Jobs -> {"nil", "snooze", "error"}]
      /\ snap \in [Jobs -> Runs]
  BY DEF Init, JobStates, Tasks, Labels, Runs
<1>5. message \in {"published", "cancelled"} /\ config \in {"ready", "faulted"} /\ run \in Runs
  BY DEF Init, Runs
<1> QED
  BY <1>1, <1>2, <1>3, <1>4, <1>5 DEF TypeOK

LEMMA TypeProceed ==
  ASSUME TypeOK, NEW j \in Jobs, NEW label \in Labels, NEW value \in {"nil", "snooze", "error"},
         Proceed(j, label, value)
  PROVE  /\ pc' \in [Jobs -> Labels]
         /\ ret' \in [Jobs -> {"nil", "snooze", "error"}]
         /\ faults' \in 0..MaxFaults
BY BoundAssumption DEF TypeOK, Proceed, ReturnError, Goto, Labels

LEMMA TypeWork ==
  ASSUME TypeOK, NEW j \in Jobs, jobState[j] = "running" => jobAttempt[j] # 0,
         pc[j] # "idle" => jobState[j] = "running", Work(j)
  PROVE  TypeOK'
<1> USE BoundAssumption, JobAssumption, ChannelAssumption DEF TypeOK, Statuses, Risks, Runs, Outcomes, JobStates, UniqueStates, Live, Waiting, Tasks, OpenTasks, Labels, Claimed,
          deliveryVars, messageVars, runVars, jobVars, taskVars, execVars
<1>1. CASE StartAttempt(j)
  BY <1>1 DEF StartAttempt, ReturnError, Goto
<1>2. CASE FailInterrupted(j)
  <2>1. /\ status' \in [Deliveries -> Statuses]
        /\ retryable' \in [Deliveries -> BOOLEAN]
        /\ risk' \in [Deliveries -> Risks]
    <3>1. CASE status[JobFor[j]] = "processing"
      <4>1. /\ status' = [status EXCEPT ![JobFor[j]] = "failed"]
            /\ retryable' = [retryable EXCEPT ![JobFor[j]] = FALSE]
            /\ risk' = [risk EXCEPT ![JobFor[j]] = IF Channel[JobFor[j]] = "sms"
                                                     THEN "duplicate_possible"
                                                     ELSE "manual_review"]
        BY <1>2, <3>1 DEF FailInterrupted
      <4> QED
        BY <4>1
    <3>2. CASE status[JobFor[j]] # "processing"
      BY <1>2, <3>2 DEF FailInterrupted
    <3> QED
      BY <3>1, <3>2
  <2>2. /\ pc' \in [Jobs -> Labels]
        /\ ret' \in [Jobs -> {"nil", "snooze", "error"}]
        /\ faults' \in 0..MaxFaults
    BY <1>2 DEF FailInterrupted, Proceed, ReturnError, Goto
  <2> QED
    BY <1>2, <2>1, <2>2 DEF FailInterrupted
<1>3. CASE CancelUndeliverable(j)
  <2>1. /\ status' \in [Deliveries -> Statuses]
        /\ retryable' \in [Deliveries -> BOOLEAN]
    <3> DEFINE d == JobFor[j]
    <3>1. CASE InRun(d) /\ status[d] \in {"pending", "failed"} /\ risk[d] = "none" /\ ~Deliverable
      <4>1. /\ status' = [status EXCEPT ![d] = "cancelled"]
            /\ retryable' = [retryable EXCEPT ![d] = FALSE]
        BY <1>3, <3>1 DEF CancelUndeliverable
      <4> QED
        BY <4>1
    <3>2. CASE ~(InRun(d) /\ status[d] \in {"pending", "failed"} /\ risk[d] = "none" /\ ~Deliverable)
      BY <1>3, <3>2 DEF CancelUndeliverable
    <3> QED
      BY <3>1, <3>2
  <2>2. /\ pc' \in [Jobs -> Labels]
        /\ ret' \in [Jobs -> {"nil", "snooze", "error"}]
        /\ faults' \in 0..MaxFaults
    BY <1>3 DEF CancelUndeliverable, Proceed, ReturnError, Goto
  <2> QED
    BY <1>3, <2>1, <2>2 DEF CancelUndeliverable
<1>4. CASE Claim(j)
  <2>1. /\ status' \in [Deliveries -> Statuses]
        /\ attempts' \in [Deliveries -> 0..MaxAttempts]
    BY <1>4 DEF Claim, AttemptsLeft
  <2>2. /\ pc' \in [Jobs -> Labels]
        /\ ret' \in [Jobs -> {"nil", "snooze", "error"}]
        /\ faults' \in 0..MaxFaults
    BY <1>4 DEF Claim, Proceed, ReturnError, Goto
  <2> QED
    BY <1>4, <2>1, <2>2 DEF Claim
<1>5. CASE CheckSend(j)
  BY <1>5 DEF CheckSend, Goto
<1>6. CASE ProviderCall(j)
  BY <1>6 DEF ProviderCall, ProviderOutcomes, Goto
<1>7. CASE RecordCancelled(j)
  BY <1>7 DEF RecordCancelled, AfterRecord, Proceed, ReturnError, Goto
<1>8. CASE RecordAccepted(j)
  BY <1>8 DEF RecordAccepted, AfterRecord, Proceed, ReturnError, Goto
<1>9. CASE RecordFailed(j)
  <2> DEFINE shouldRetry == out[j] = "transient" /\ AttemptsLeft(JobFor[j])
  <2>1. /\ status' \in [Deliveries -> Statuses]
        /\ risk' \in [Deliveries -> Risks]
    BY <1>9 DEF RecordFailed, RiskOf
  <2>2. result' \in [Deliveries -> Outcomes \cup {"none"}]
    BY <1>9 DEF RecordFailed, ClassOf
  <2>3. retryable' \in [Deliveries -> BOOLEAN]
    <3>1. retryable' = [retryable EXCEPT ![JobFor[j]] = shouldRetry] /\ shouldRetry \in BOOLEAN
      BY <1>9 DEF RecordFailed, AttemptsLeft
    <3> HIDE DEF shouldRetry
    <3> QED
      BY <3>1
  <2>4. /\ pc' \in [Jobs -> Labels]
        /\ ret' \in [Jobs -> {"nil", "snooze", "error"}]
        /\ faults' \in 0..MaxFaults
    <3> DEFINE label == IF InRun(JobFor[j]) THEN "effects" ELSE "finish"
               value == IF shouldRetry THEN "snooze" ELSE "nil"
    <3>1. label \in Labels /\ value \in {"nil", "snooze", "error"}
      OBVIOUS
    <3>2. Proceed(j, label, value)
      BY <1>9 DEF RecordFailed
    <3> HIDE DEF label, value
    <3> QED
      BY <3>1, <3>2, TypeProceed
  <2> QED
    BY <1>9, <2>1, <2>2, <2>3, <2>4 DEF RecordFailed
<1>10. CASE StatementFails(j)
  BY <1>10 DEF StatementFails, ReturnError, Goto
<1>11. CASE ProviderEffects(j)
  BY <1>11 DEF ProviderEffects, Goto
<1>12. CASE RefreshRead(j)
  BY <1>12 DEF RefreshRead, RunStatus, Goto
<1>13. CASE RefreshWrite(j)
  BY <1>13 DEF RefreshWrite, Goto
<1>14. CASE FinishAttempt(j)
  <2>1. Completion(j) \in Tasks
    BY DEF Completion
  <2> QED
    BY <1>14, <2>1 DEF FinishAttempt, Goto
<1>15. CASE Return(j)
  <2>1. jobState' \in [Jobs -> JobStates]
    BY <1>15 DEF Return, AfterError
  <2>2. jobAttempt' \in [Jobs -> Nat]
    <3> DEFINE n == IF ret[j] = "snooze" THEN jobAttempt[j] - 1 ELSE jobAttempt[j]
    <3>1. jobAttempt[j] \in Nat \ {0}
      BY <1>15 DEF Return
    <3>2. n \in Nat
      BY <3>1
    <3>3. jobAttempt' = [jobAttempt EXCEPT ![j] = n]
      BY <1>15 DEF Return
    <3> HIDE DEF n
    <3> QED
      BY <3>2, <3>3
  <2> QED
    BY <1>15, <2>1, <2>2 DEF Return
<1> QED
  BY <1>1, <1>2, <1>3, <1>4, <1>5, <1>6, <1>7, <1>8, <1>9, <1>10, <1>11, <1>12, <1>13, <1>14, <1>15, Work(j) DEF Work

LEMMA TypeRiver ==
  ASSUME TypeOK, NEW j \in Jobs, River(j) \/ Crash(j)
  PROVE  TypeOK'
<1> USE BoundAssumption, JobAssumption, ChannelAssumption
    DEF TypeOK, JobStates, UniqueStates, Live, Waiting, Labels, Claimed,
        deliveryVars, messageVars, runVars, jobVars, taskVars, execVars
<1>1. CASE Start(j)
  BY <1>1 DEF Start
<1>2. CASE Rescue(j)
  BY <1>2 DEF Rescue, AfterError
<1>3. CASE CleanCompleted(j)
  BY <1>3 DEF CleanCompleted
<1>4. CASE Crash(j)
  BY <1>4 DEF Crash
<1> QED
  BY <1>1, <1>2, <1>3, <1>4, River(j) \/ Crash(j) DEF River

\* An enqueue keeps the types of the job tables.
LEMMA TypeEnqueue ==
  ASSUME TypeOK, NEW d \in Deliveries, NEW c \in BOOLEAN, Enqueue(d, c)
  PROVE  /\ jobState' \in [Jobs -> JobStates]
         /\ jobAttempt' \in [Jobs -> Nat]
         /\ task' \in [Jobs -> Tasks]
         /\ correlated' \in [Jobs -> BOOLEAN]
<1> USE DEF TypeOK, jobVars, taskVars
<1>1. CASE HasJobIn(d, UniqueStates)
  BY <1>1 DEF Enqueue
<1>2. CASE ~HasJobIn(d, UniqueStates)
  <2>1. PICK j \in Jobs : /\ jobState' = [jobState EXCEPT ![j] = "available"]
                          /\ task' = [task EXCEPT ![j] = "queued"]
                          /\ correlated' = [correlated EXCEPT ![j] = c]
                          /\ UNCHANGED jobAttempt
    BY <1>2 DEF Enqueue
  <2>2. correlated' \in [Jobs -> BOOLEAN]
    BY <2>1
  <2> QED
    BY <2>1, <2>2 DEF JobStates, UniqueStates, Live, Waiting, Tasks, OpenTasks
<1> QED
  BY <1>1, <1>2

\* The steps of everybody but River and the workers.
Create(d) == Notify(d) \/ FanoutCommit(d)
Api == \/ Operator
       \/ Expire \/ SyncTasks \/ FanoutRead \/ FanoutAbort
       \/ \E d \in Deliveries : Create(d)

LEMMA TypeApi ==
  ASSUME TypeOK, Api
  PROVE  TypeOK'
<1> USE BoundAssumption, JobAssumption, ChannelAssumption
    DEF TypeOK, deliveryVars, messageVars, runVars, jobVars, taskVars, execVars
<1>1. ASSUME NEW d \in Deliveries, NEW ack \in BOOLEAN, Reopen(d, ack)
      PROVE  /\ status' \in [Deliveries -> Statuses]
             /\ retryable' \in [Deliveries -> BOOLEAN]
             /\ risk' \in [Deliveries -> Risks]
             /\ exposure' \in [Deliveries -> {"none", "written", "reopened", "duplicated"}]
             /\ retries' \in 0..MaxRetries
  BY <1>1 DEF Reopen, Reopened, Statuses, Risks
<1>2. ASSUME NEW d \in Deliveries, NEW ack \in BOOLEAN, RetryDelivery(d, ack) PROVE TypeOK'
  BY <1>1, <1>2, TypeEnqueue DEF RetryDelivery
<1>3. ASSUME NEW j \in Jobs, NEW ack \in BOOLEAN, RetryTask(j, ack) PROVE TypeOK'
  <2>1. JobFor[j] \in Deliveries /\ correlated[j] \in BOOLEAN
    OBVIOUS
  <2>2. attempts' \in [Deliveries -> 0..MaxAttempts] /\ run' \in Runs
    BY <1>3, <2>1 DEF RetryTask, Runs
  <2> QED
    BY <1>1, <1>3, <2>1, <2>2, TypeEnqueue DEF RetryTask
<1>4. CASE CancelMessage
  <2>1. retryable' \in [Deliveries -> BOOLEAN]
    BY <1>4 DEF CancelMessage
  <2> QED
    BY <1>4, <2>1 DEF CancelMessage, Statuses
<1>5. CASE RepairConfig
  BY <1>5 DEF RepairConfig
<1>6. CASE Expire
  BY <1>6 DEF Expire
<1>7. CASE SyncTasks
  <2>1. \A j \in Jobs : TaskOf(j) \in Tasks
    BY DEF TaskOf, Tasks, OpenTasks
  <2> QED
    BY <1>7, <2>1 DEF SyncTasks
<1>8. CASE FanoutRead
  BY <1>8 DEF FanoutRead
<1>9. CASE FanoutAbort
  <2>1. faults' \in 0..MaxFaults
    BY <1>9 DEF FanoutAbort
  <2> QED
    BY <1>9, <2>1 DEF FanoutAbort
<1>10. ASSUME NEW d \in Deliveries, Create(d) PROVE TypeOK'
  <2>1. InRun(d) \in BOOLEAN
    BY DEF InRun
  <2>2. /\ jobState' \in [Jobs -> JobStates]
        /\ jobAttempt' \in [Jobs -> Nat]
        /\ task' \in [Jobs -> Tasks]
        /\ correlated' \in [Jobs -> BOOLEAN]
    BY <1>10, <2>1, TypeEnqueue DEF Create, Notify, FanoutCommit, Insert
  <2>3. CASE Notify(d)
    BY <2>2, <2>3 DEF Notify, Insert, Statuses
  <2>4. CASE FanoutCommit(d)
    BY <2>2, <2>4 DEF FanoutCommit, Insert, Statuses, Runs
  <2> QED
    BY <1>10, <2>3, <2>4 DEF Create
<1> QED
  BY <1>2, <1>3, <1>4, <1>5, <1>6, <1>7, <1>8, <1>9, <1>10,
     Api DEF Api, Operator

LEMMA TypeStep ==
  ASSUME TypeOK, RunningIsCounted, BusyIsRunning, [Next]_vars
  PROVE  TypeOK'
<1>1. CASE UNCHANGED vars
  BY <1>1 DEF TypeOK, vars, deliveryVars, messageVars, runVars, jobVars, taskVars, execVars
<1>2. ASSUME NEW j \in Jobs, River(j) \/ Work(j) \/ Crash(j) PROVE TypeOK'
  BY <1>2, TypeRiver, TypeWork DEF RunningIsCounted, BusyIsRunning
<1> QED
  BY <1>1, <1>2, TypeApi DEF Next, Api, Create

-----------------------------------------------------------------------------
\* A busy worker is the only one of its delivery.
LEMMA Alone ==
  ASSUME Inv, NEW j \in Jobs, pc[j] # "idle",
         NEW k \in Jobs, k # j, JobFor[k] = JobFor[j]
  PROVE  pc[k] = "idle"
BY DEF Inv, Ownership, OneLiveJob, BusyIsRunning, Live

\* The steps of Work: only the delivery of the job itself changes, and Alone
\* keeps every other worker away from it.
LEMMA OwnershipWork ==
  ASSUME Inv, NEW j \in Jobs, Work(j)
  PROVE  Ownership'
<1> USE JobAssumption, Alone
    DEF deliveryVars, messageVars, runVars, jobVars, taskVars, execVars, Goto, ReturnError, Proceed,
        Inv, Ownership, TypeOK, OneLiveJob, BusyIsRunning, RunningIsCounted,
        ClaimedIsProcessing, ExposureOnRecord, UnwrittenBeforeCall, OutcomeTells, Claimed
<1>1. CASE StartAttempt(j)
  BY <1>1 DEF StartAttempt
<1>2. CASE FailInterrupted(j)
  <2>1. ClaimedIsProcessing' /\ OneLiveJob' /\ BusyIsRunning' /\ RunningIsCounted'
    BY <1>2 DEF FailInterrupted
  <2>2. ExposureOnRecord'
    BY <1>2 DEF FailInterrupted
  <2>3. UnwrittenBeforeCall' /\ OutcomeTells'
    BY <1>2 DEF FailInterrupted
  <2> QED
    BY <2>1, <2>2, <2>3
<1>3. CASE CancelUndeliverable(j)
  BY <1>3 DEF CancelUndeliverable
<1>4. CASE Claim(j)
  BY <1>4 DEF Claim
<1>5. CASE CheckSend(j)
  BY <1>5 DEF CheckSend
<1>6. CASE ProviderCall(j)
  BY <1>6 DEF ProviderCall, MayHaveDelivered
<1>7. CASE RecordCancelled(j)
  BY <1>7 DEF RecordCancelled, AfterRecord, MayHaveDelivered
<1>8. CASE RecordAccepted(j)
  BY <1>8 DEF RecordAccepted, AfterRecord
<1>9. CASE RecordFailed(j)
  <2>1. out[j] \in MayHaveDelivered(Channel[JobFor[j]]) => RiskOf(out[j]) # "none"
    BY <1>9 DEF RecordFailed, RiskOf, MayHaveDelivered
  <2>2. ClaimedIsProcessing' /\ OneLiveJob' /\ BusyIsRunning' /\ RunningIsCounted'
    BY <1>9 DEF RecordFailed
  <2>3. exposure[JobFor[j]] = "written" => RiskOf(out[j]) # "none"
    BY <1>9, <2>1 DEF RecordFailed
  <2>4. ExposureOnRecord'
    BY <1>9, <2>3 DEF RecordFailed
  <2>5. UnwrittenBeforeCall' /\ OutcomeTells'
    BY <1>9 DEF RecordFailed
  <2> QED
    BY <2>2, <2>4, <2>5
<1>10. CASE StatementFails(j)
  BY <1>10 DEF StatementFails
<1>11. CASE ProviderEffects(j)
  BY <1>11 DEF ProviderEffects
<1>12. CASE RefreshRead(j)
  BY <1>12 DEF RefreshRead
<1>13. CASE RefreshWrite(j)
  BY <1>13 DEF RefreshWrite
<1>14. CASE FinishAttempt(j)
  BY <1>14 DEF FinishAttempt
<1>15. CASE Return(j)
  BY <1>15 DEF Return, AfterError, Live, Waiting
<1> QED
  BY <1>1, <1>2, <1>3, <1>4, <1>5, <1>6, <1>7, <1>8, <1>9, <1>10, <1>11, <1>12, <1>13,
     <1>14, <1>15, Work(j) DEF Work

\* River starts, rescues and forgets jobs, and a worker may die with its job.
LEMMA OwnershipRiver ==
  ASSUME Inv, NEW j \in Jobs, River(j) \/ Crash(j)
  PROVE  Ownership'
<1> USE JobAssumption
    DEF deliveryVars, messageVars, runVars, jobVars, taskVars, execVars,
        Inv, Ownership, TypeOK, OneLiveJob, BusyIsRunning, RunningIsCounted,
        ClaimedIsProcessing, ExposureOnRecord, UnwrittenBeforeCall, OutcomeTells,
        Claimed, Live, Waiting
<1>1. CASE Start(j)
  BY <1>1 DEF Start
<1>2. CASE Rescue(j)
  BY <1>2 DEF Rescue, AfterError
<1>3. CASE CleanCompleted(j)
  BY <1>3 DEF CleanCompleted
<1>4. CASE Crash(j)
  BY <1>4 DEF Crash
<1> QED
  BY <1>1, <1>2, <1>3, <1>4, River(j) \/ Crash(j) DEF River

\* An enqueue adds a live job only to a delivery without one.
LEMMA OneLiveJobEnqueue ==
  ASSUME Inv, NEW d \in Deliveries, NEW c \in BOOLEAN, Enqueue(d, c)
  PROVE  OneLiveJob' /\ RunningIsCounted' /\ (pc' = pc => BusyIsRunning')
<1> USE DEF Inv, Ownership, TypeOK, OneLiveJob, BusyIsRunning, RunningIsCounted, Live, Waiting,
            jobVars, taskVars
<1>1. CASE HasJobIn(d, UniqueStates)
  BY <1>1 DEF Enqueue
<1>2. CASE ~HasJobIn(d, UniqueStates)
  <2>1. PICK j \in Jobs : /\ JobFor[j] = d
                          /\ jobState[j] = "absent"
                          /\ jobState' = [jobState EXCEPT ![j] = "available"]
                          /\ UNCHANGED jobAttempt
    BY <1>2 DEF Enqueue
  <2>2. \A k \in Jobs : JobFor[k] = d => jobState[k] \notin Live
    BY <1>2 DEF HasJobIn, UniqueStates
  <2> QED
    BY <2>1, <2>2
<1> QED
  BY <1>1, <1>2

\* The transactions of the API touch only deliveries no worker has claimed.
LEMMA OwnershipApi ==
  ASSUME Inv, Api
  PROVE  Ownership'
<1> USE JobAssumption
    DEF deliveryVars, messageVars, runVars, jobVars, taskVars, execVars,
        Ownership, TypeOK, ClaimedIsProcessing, ExposureOnRecord, UnwrittenBeforeCall,
        OutcomeTells, Claimed
<1> DEFINE JobParts == OneLiveJob /\ BusyIsRunning /\ RunningIsCounted
           OtherParts == /\ ClaimedIsProcessing
                         /\ ExposureOnRecord
                         /\ UnwrittenBeforeCall
                         /\ OutcomeTells
<1>1. ASSUME UNCHANGED <<jobState, jobAttempt, pc>> PROVE JobParts'
  BY <1>1 DEF Inv, OneLiveJob, BusyIsRunning, RunningIsCounted
<1>2. ASSUME NEW d \in Deliveries, NEW ack \in BOOLEAN, status[d] = "failed",
             Reopen(d, ack), UNCHANGED <<pc, out>>
      PROVE  OtherParts'
  <2>1. exposure' = [exposure EXCEPT ![d] = exposure'[d]] /\ exposure'[d] # "written"
    BY <1>2 DEF Reopen, Reopened, Inv
  <2> QED
    BY <1>2, <2>1 DEF Reopen, Inv
<1>3. ASSUME NEW d \in Deliveries, NEW ack \in BOOLEAN, RetryDelivery(d, ack) PROVE Ownership'
  BY <1>2, <1>3, OneLiveJobEnqueue DEF RetryDelivery
<1>4. ASSUME NEW j \in Jobs, NEW ack \in BOOLEAN, RetryTask(j, ack) PROVE Ownership'
  <2>1. JobFor[j] \in Deliveries /\ correlated[j] \in BOOLEAN
    BY DEF Inv
  <2> QED
    BY <1>2, <1>4, <2>1, OneLiveJobEnqueue DEF RetryTask
<1>5. CASE CancelMessage
  BY <1>1, <1>5 DEF CancelMessage, Inv
<1>6. CASE RepairConfig \/ Expire \/ SyncTasks \/ FanoutRead \/ FanoutAbort
  BY <1>1, <1>6 DEF RepairConfig, Expire, SyncTasks, FanoutRead, FanoutAbort, Inv
<1>7. ASSUME NEW d \in Deliveries, Create(d) PROVE Ownership'
  <2>1. InRun(d) \in BOOLEAN
    BY DEF InRun
  <2> QED
    BY <1>7, <2>1, OneLiveJobEnqueue DEF Create, Notify, FanoutCommit, Insert, Inv
<1> QED
  BY <1>3, <1>4, <1>5, <1>6, <1>7,
     Api DEF Api, Operator

LEMMA InvInit == Init => Inv
<1> SUFFICES ASSUME Init PROVE Ownership
  BY TypeInit DEF Inv
<1> QED
  BY JobAssumption DEF Init, Ownership, OneLiveJob, BusyIsRunning, RunningIsCounted,
     ClaimedIsProcessing, ExposureOnRecord, UnwrittenBeforeCall, OutcomeTells, Live, Waiting,
     Claimed

LEMMA InvStep == Inv /\ [Next]_vars => Inv'
<1> SUFFICES ASSUME Inv, [Next]_vars PROVE Ownership'
  BY TypeStep DEF Inv, Ownership
<1>1. CASE UNCHANGED vars
  BY <1>1 DEF vars, deliveryVars, runVars, jobVars, execVars, Inv, Ownership, OneLiveJob, BusyIsRunning,
     RunningIsCounted, ClaimedIsProcessing, ExposureOnRecord, UnwrittenBeforeCall, OutcomeTells
<1> QED
  BY <1>1, OwnershipWork, OwnershipRiver, OwnershipApi DEF Next, Api, Create

\* The inductive invariant holds throughout.
THEOREM Invariance == Spec => []Inv
  BY InvInit, InvStep, PTL DEF Spec

-----------------------------------------------------------------------------
\* Every variable keeps its type.
THEOREM TypeCorrect == Spec => []TypeOK
<1>1. Inv => TypeOK
  BY DEF Inv
<1> QED
  BY <1>1, Invariance, PTL

\* A worker that claimed a delivery is alone with it until it recorded the
\* outcome, whatever operators, other workers and River do meanwhile.
THEOREM ClaimIsExclusive == Spec => []ClaimOwnsDelivery
<1>1. Inv => ClaimOwnsDelivery
  BY DEF Inv, Ownership, OneLiveJob, BusyIsRunning, ClaimedIsProcessing, ClaimOwnsDelivery,
     Claimed, Live
<1> QED
  BY <1>1, Invariance, PTL

\* The provider is never called again for a delivery it may have made, unless
\* an operator retried it, for any number of crashes and database failures.
THEOREM NoResend == Spec => []NoAutomaticResend
<1>1. Inv => NoAutomaticResend
  BY DEF Inv, Ownership, UnwrittenBeforeCall, NoAutomaticResend
<1> QED
  BY <1>1, Invariance, PTL

\* A possible delivery stays visible as sent, in progress or failed with risk.
THEOREM ExposureKept == Spec => []ExposureOnRecord
<1>1. Inv => ExposureOnRecord
  BY DEF Inv, Ownership
<1> QED
  BY <1>1, Invariance, PTL

-----------------------------------------------------------------------------
\* A step of Delivery is a step of AtMostOnce or does not show in it.
Sent == {d \in Deliveries : status[d] = "sent"}
Quiet == UNCHANGED <<exposure, Sent>>

LEMMA PromiseWork ==
  ASSUME Inv, NEW j \in Jobs, Work(j)
  PROVE  Promise!Next \/ Quiet
<1> DEFINE d == JobFor[j]
<1>1. d \in Deliveries
  BY JobAssumption
<1> USE <1>1 DEF Inv, TypeOK, deliveryVars, Sent, Quiet
<1>2. CASE ProviderCall(j)
  <2>1. exposure[d] # "written" /\ status[d] = "processing" /\ status' = status
    BY <1>2 DEF ProviderCall, Ownership, UnwrittenBeforeCall, ClaimedIsProcessing, Claimed
  <2>2. exposure' = exposure \/ exposure' = [exposure EXCEPT ![d] = "written"]
    BY <1>2, <2>1 DEF ProviderCall
  <2>3. exposure' = [exposure EXCEPT ![d] = "written"] => Promise!Write(d)
    BY <2>1 DEF Promise!Write
  <2> QED
    BY <2>1, <2>2, <2>3 DEF Promise!Next
<1>3. CASE RecordAccepted(j)
  <2>1. exposure[d] = "written" /\ exposure' = exposure
    BY <1>3 DEF RecordAccepted, Ownership, OutcomeTells
  <2>2. Sent' = Sent \cup {d}
    BY <1>3 DEF RecordAccepted
  <2> QED
    BY <2>1, <2>2 DEF Promise!Next, Promise!Confirm
<1>4. CASE FailInterrupted(j) \/ CancelUndeliverable(j) \/ Claim(j)
  BY <1>4 DEF FailInterrupted, CancelUndeliverable, Claim
<1>5. CASE RecordCancelled(j) \/ RecordFailed(j)
  <2>1. status[d] = "processing"
    BY <1>5 DEF RecordCancelled, RecordFailed, Ownership, ClaimedIsProcessing, Claimed
  <2> QED
    BY <1>5, <2>1 DEF RecordCancelled, RecordFailed
<1>6. CASE StartAttempt(j) \/ CheckSend(j) \/ StatementFails(j) \/ ProviderEffects(j)
  BY <1>6 DEF StartAttempt, CheckSend, StatementFails, ProviderEffects
<1>7. CASE RefreshRead(j) \/ RefreshWrite(j) \/ FinishAttempt(j) \/ Return(j)
  BY <1>7 DEF RefreshRead, RefreshWrite, FinishAttempt, Return
<1> QED
  BY <1>2, <1>3, <1>4, <1>5, <1>6, <1>7, Work(j) DEF Work

LEMMA PromiseApi ==
  ASSUME Inv, Api
  PROVE  Promise!Next \/ Quiet
<1> USE JobAssumption DEF Inv, TypeOK, deliveryVars, Sent, Quiet
<1>1. ASSUME NEW d \in Deliveries, NEW ack \in BOOLEAN, status[d] = "failed", Reopen(d, ack)
      PROVE  Promise!Next \/ Quiet
  <2>1. Sent' = Sent /\ d \notin Sent
    BY <1>1 DEF Reopen
  <2>2. \/ exposure' = exposure
        \/ \E e \in {"none", "reopened"} : exposure' = [exposure EXCEPT ![d] = e]
    <3>1. CASE ack
      BY <1>1, <3>1 DEF Reopen, Reopened
    <3>2. CASE ~ack
      BY <1>1, <3>2 DEF Reopen, Reopened
    <3> QED
      BY <3>1, <3>2
  <2> QED
    BY <2>1, <2>2 DEF Promise!Next, Promise!Reopen
<1>2. ASSUME NEW d \in Deliveries, NEW ack \in BOOLEAN, RetryDelivery(d, ack)
      PROVE  Promise!Next \/ Quiet
  BY <1>1, <1>2 DEF RetryDelivery
<1>3. ASSUME NEW j \in Jobs, NEW ack \in BOOLEAN, RetryTask(j, ack)
      PROVE  Promise!Next \/ Quiet
  BY <1>1, <1>3 DEF RetryTask
<1>4. CASE CancelMessage
  BY <1>4 DEF CancelMessage
<1>5. CASE RepairConfig \/ Expire \/ SyncTasks \/ FanoutRead \/ FanoutAbort
  BY <1>5 DEF RepairConfig, Expire, SyncTasks, FanoutRead, FanoutAbort
<1>6. ASSUME NEW d \in Deliveries, Create(d) PROVE Quiet
  BY <1>6 DEF Create, Notify, FanoutCommit, Insert
<1> QED
  BY <1>2, <1>3, <1>4, <1>5, <1>6,
     Api DEF Api, Operator

LEMMA PromiseStep == Inv /\ [Next]_vars => [Promise!Next]_<<exposure, Sent>>
<1> SUFFICES ASSUME Inv, [Next]_vars PROVE Promise!Next \/ Quiet
  BY DEF Quiet
<1>1. CASE UNCHANGED vars
  BY <1>1 DEF vars, deliveryVars, Quiet, Sent
<1>2. ASSUME NEW j \in Jobs, River(j) \/ Crash(j) PROVE Quiet
  BY <1>2 DEF River, Start, Rescue, CleanCompleted, Crash, deliveryVars, Quiet, Sent
<1> QED
  BY <1>1, <1>2, PromiseWork, PromiseApi DEF Next, Api, Create

\* The pipeline implements AtMostOnce: each request of a person lets the
\* provider have a notification at most once, and sent is final.
THEOREM PromiseKept == Spec => KeepsPromise
<1>1. Init => Promise!Init
  BY DEF Init, Promise!Init
<1>2. Inv /\ [Next]_vars => [Promise!Next]_<<exposure, {d \in Deliveries : status[d] = "sent"}>>
  BY PromiseStep DEF Sent
<1> QED
  BY <1>1, <1>2, Invariance, PTL DEF Spec, KeepsPromise, Promise!Spec

\* No cancellation, retry, recovery or late worker takes back a sent delivery.
THEOREM SentStays == Spec => SentIsFinal
<1>1. Inv /\ [Next]_vars => [\A d \in Deliveries : status[d] = "sent" => status'[d] = "sent"]_vars
  <2> SUFFICES ASSUME Inv, [Next]_vars, NEW d \in Deliveries, status[d] = "sent"
               PROVE  status'[d] = "sent"
    OBVIOUS
  <2>1. d \in Sent
    BY DEF Sent
  <2>2. d \in Sent'
    <3>1. CASE Quiet
      BY <2>1, <3>1 DEF Quiet
    <3>2. CASE Promise!Next
      BY <2>1, <3>2 DEF Promise!Next, Promise!Write, Promise!Confirm, Promise!Reopen, Sent
    <3> QED
      BY <3>1, <3>2, PromiseStep DEF Quiet
  <2> QED
    BY <2>2 DEF Sent
<1> QED
  BY <1>1, Invariance, PTL DEF Spec, SentIsFinal

-----------------------------------------------------------------------------
(***************************************************************************)
(* No delivery is orphaned.  The link between an unfinished delivery and a *)
(* live job breaks only when River stores a completed job, so what has to  *)
(* be known is that Work returns nil for settled deliveries only.          *)
(***************************************************************************)
Recorded == {"effects", "refresh", "refreshed", "finish", "return"}

\* After FailInterrupted, and again after the outcome is recorded, nothing is
\* processing; an error may leave it so.
NotProcessing ==
  \A j \in Jobs :
    pc[j] \in {"undeliverable", "claim"} \/ (pc[j] \in Recorded /\ ret[j] # "error")
      => status[JobFor[j]] # "processing"

SettledWhenNil ==
  \A j \in Jobs :
    retries = 0 /\ pc[j] \in Recorded /\ ret[j] = "nil" => ~Unfinished(JobFor[j])

\* Until an operator retries, claim takes every delivery that is still to be
\* tried.
Claimable ==
  \A d \in Deliveries :
    /\ retries = 0 /\ status[d] = "pending" => attempts[d] = 0 /\ risk[d] = "none"
    /\ status[d] = "absent" => attempts[d] = 0 /\ risk[d] = "none"
    /\ status[d] = "failed" /\ retryable[d] => AttemptsLeft(d) /\ risk[d] = "none"

NoJobYet ==
  \A j \in Jobs : status[JobFor[j]] = "absent" => jobState[j] = "absent"

Link == NotProcessing /\ SettledWhenNil /\ Claimable /\ NoJobYet /\ NotOrphaned

LEMMA LinkWork ==
  ASSUME Inv, Link, NEW j \in Jobs, Work(j)
  PROVE  Link'
<1> USE JobAssumption, BoundAssumption, Alone
    DEF deliveryVars, messageVars, runVars, jobVars, taskVars, execVars, Goto, ReturnError, Proceed,
        Inv, Ownership, TypeOK, BusyIsRunning, ClaimedIsProcessing, Claimed, Recorded,
        Link, NotProcessing, SettledWhenNil, Claimable, NoJobYet, NotOrphaned, HasJobIn,
        Unfinished, AttemptsLeft, Live
<1>1. CASE StartAttempt(j)
  BY <1>1 DEF StartAttempt
<1>2. CASE FailInterrupted(j)
  BY <1>2 DEF FailInterrupted
<1>3. CASE CancelUndeliverable(j)
  BY <1>3 DEF CancelUndeliverable
<1>4. CASE Claim(j)
  BY <1>4 DEF Claim
<1>5. CASE CheckSend(j)
  BY <1>5 DEF CheckSend
<1>6. CASE ProviderCall(j)
  BY <1>6 DEF ProviderCall
<1>7. CASE RecordCancelled(j)
  BY <1>7 DEF RecordCancelled, AfterRecord
<1>8. CASE RecordAccepted(j)
  BY <1>8 DEF RecordAccepted, AfterRecord
<1>9. CASE RecordFailed(j)
  <2> DEFINE shouldRetry == out[j] = "transient" /\ AttemptsLeft(JobFor[j])
  <2>1. /\ status' = [status EXCEPT ![JobFor[j]] = "failed"]
        /\ retryable' = [retryable EXCEPT ![JobFor[j]] = shouldRetry]
        /\ risk' = [risk EXCEPT ![JobFor[j]] = RiskOf(out[j])]
        /\ ret' = [ret EXCEPT ![j] = ret'[j]]
        /\ pc' = [pc EXCEPT ![j] = pc'[j]] /\ pc'[j] \in {"effects", "finish"}
        /\ ret'[j] = "error" \/ (ret'[j] = "nil" /\ ~shouldRetry) \/ (ret'[j] = "snooze" /\ shouldRetry)
        /\ UNCHANGED <<attempts, jobState, retries>>
    BY <1>9 DEF RecordFailed
  <2>2. shouldRetry => RiskOf(out[j]) = "none"
    BY DEF RiskOf
  <2>3. pc[j] = "record" /\ status[JobFor[j]] = "processing" /\ jobState[j] = "running"
    BY <1>9 DEF RecordFailed
  <2> HIDE DEF shouldRetry
  <2>4. NotProcessing'
    BY <2>1, <2>3
  <2>5. SettledWhenNil'
    BY <2>1, <2>3
  <2>6. Claimable'
    <3>1. retryable'[JobFor[j]] => shouldRetry
      BY <2>1
    <3>2. \A d \in Deliveries \ {JobFor[j]} : /\ status'[d] = status[d]
                                              /\ risk'[d] = risk[d]
                                              /\ retryable'[d] = retryable[d]
      BY <2>1
    <3>3. /\ status'[JobFor[j]] = "failed" /\ risk'[JobFor[j]] = RiskOf(out[j])
          /\ attempts' = attempts /\ retries' = retries
      BY <2>1
    <3> QED
      BY <2>2, <3>1, <3>2, <3>3 DEF shouldRetry
  <2>7. NoJobYet' /\ NotOrphaned'
    BY <2>1, <2>3
  <2> QED
    BY <2>4, <2>5, <2>6, <2>7
<1>10. CASE StatementFails(j)
  BY <1>10 DEF StatementFails
<1>11. CASE ProviderEffects(j)
  BY <1>11 DEF ProviderEffects
<1>12. CASE RefreshRead(j)
  BY <1>12 DEF RefreshRead
<1>13. CASE RefreshWrite(j)
  BY <1>13 DEF RefreshWrite
<1>14. CASE FinishAttempt(j)
  BY <1>14 DEF FinishAttempt
<1>15. CASE Return(j)
  BY <1>15 DEF Return, AfterError, Waiting
<1> QED
  BY <1>1, <1>2, <1>3, <1>4, <1>5, <1>6, <1>7, <1>8, <1>9, <1>10, <1>11, <1>12, <1>13,
     <1>14, <1>15, Work(j) DEF Work

LEMMA LinkRiver ==
  ASSUME Inv, Link, NEW j \in Jobs, River(j) \/ Crash(j)
  PROVE  Link'
<1> USE JobAssumption
    DEF deliveryVars, messageVars, runVars, jobVars, taskVars, execVars,
        Inv, Ownership, TypeOK, BusyIsRunning, ClaimedIsProcessing, Recorded,
        Link, NotProcessing, SettledWhenNil, Claimable, NoJobYet, NotOrphaned, HasJobIn,
        Unfinished, AttemptsLeft, Live, Waiting
<1>1. CASE Start(j)
  BY <1>1 DEF Start
<1>2. CASE Rescue(j)
  BY <1>2 DEF Rescue, AfterError
<1>3. CASE CleanCompleted(j)
  BY <1>3 DEF CleanCompleted
<1>4. CASE Crash(j)
  BY <1>4 DEF Crash
<1> QED
  BY <1>1, <1>2, <1>3, <1>4, River(j) \/ Crash(j) DEF River

LEMMA LinkApi ==
  ASSUME Inv, Link, Api
  PROVE  Link'
<1> USE JobAssumption, BoundAssumption
    DEF deliveryVars, messageVars, runVars, jobVars, taskVars, execVars,
        Inv, Ownership, TypeOK, Recorded, Link, NotProcessing, SettledWhenNil, Claimable,
        NoJobYet, NotOrphaned, Unfinished, AttemptsLeft
<1>1. ASSUME NEW d \in Deliveries, NEW c \in BOOLEAN, Enqueue(d, c)
      PROVE  /\ \A e \in Deliveries : HasJobIn(e, Live \cup {"discarded"})
                                      => HasJobIn(e, Live \cup {"discarded"})'
             /\ \A k \in Jobs : JobFor[k] # d => jobState'[k] = jobState[k]
             /\ (\A k \in Jobs : JobFor[k] = d => jobState[k] = "absent")
                  => HasJobIn(d, Live)'
  <2>1. CASE HasJobIn(d, UniqueStates)
    BY <1>1, <2>1 DEF Enqueue, HasJobIn, UniqueStates, Live, Waiting
  <2>2. CASE ~HasJobIn(d, UniqueStates)
    <3>1. PICK j \in Jobs : /\ JobFor[j] = d
                            /\ jobState[j] = "absent"
                            /\ jobState' = [jobState EXCEPT ![j] = "available"]
      BY <1>1, <2>2 DEF Enqueue
    <3> QED
      BY <3>1 DEF HasJobIn, Live, Waiting
  <2> QED
    BY <2>1, <2>2
<1>2. ASSUME NEW d \in Deliveries, NEW ack \in BOOLEAN, NEW c \in BOOLEAN, status[d] = "failed",
             Reopen(d, ack), Enqueue(d, c), UNCHANGED <<pc, ret>>,
             \A e \in Deliveries \ {d} : attempts'[e] = attempts[e]
      PROVE  Link'
  <2>1. retries' # 0
    BY <1>2 DEF Reopen
  <2>2. /\ status' = [status EXCEPT ![d] = "pending"]
        /\ retryable' = [retryable EXCEPT ![d] = FALSE]
        /\ risk' = [risk EXCEPT ![d] = "none"]
    BY <1>2 DEF Reopen
  <2>3. \A e \in Deliveries \ {d} : /\ status'[e] = status[e]
                                   /\ risk'[e] = risk[e]
                                   /\ retryable'[e] = retryable[e]
                                   /\ attempts'[e] = attempts[e]
    BY <1>2, <2>2
  <2>4. status'[d] = "pending"
    BY <2>2
  <2> USE <2>1, <2>3, <2>4
  <2>5. NotProcessing' /\ SettledWhenNil'
    BY <1>2
  <2>6. Claimable'
    BY <1>2
  <2>7. NoJobYet'
    BY <1>1, <1>2
  <2>8. NotOrphaned'
    <3> SUFFICES ASSUME NEW e \in Deliveries, status'[e] = "processing"
                 PROVE  HasJobIn(e, Live \cup {"discarded"})'
      BY DEF NotOrphaned
    <3>1. HasJobIn(e, Live \cup {"discarded"})
      BY DEF NotOrphaned
    <3>2. Enqueue(d, c)
      BY <1>2
    <3> HIDE DEF Inv, Link, TypeOK, Ownership, NotProcessing, SettledWhenNil, Claimable, NoJobYet,
                 NotOrphaned
    <3> QED
      BY <1>1, <3>1, <3>2
  <2> QED
    BY <2>5, <2>6, <2>7, <2>8
<1>3. ASSUME NEW d \in Deliveries, NEW ack \in BOOLEAN, RetryDelivery(d, ack) PROVE Link'
  BY <1>2, <1>3 DEF RetryDelivery
<1>4. ASSUME NEW j \in Jobs, NEW ack \in BOOLEAN, RetryTask(j, ack) PROVE Link'
  <2>1. JobFor[j] \in Deliveries /\ correlated[j] \in BOOLEAN
    OBVIOUS
  <2>2. /\ status[JobFor[j]] = "failed" /\ Reopen(JobFor[j], ack)
        /\ Enqueue(JobFor[j], correlated[j]) /\ UNCHANGED <<pc, ret>>
        /\ \A e \in Deliveries \ {JobFor[j]} : attempts'[e] = attempts[e]
    BY <1>4, <2>1 DEF RetryTask
  <2> HIDE DEF Link
  <2> QED
    BY <1>2, <2>1, <2>2
<1>5. CASE CancelMessage
  BY <1>5 DEF CancelMessage, HasJobIn
<1>6. CASE RepairConfig \/ Expire \/ SyncTasks \/ FanoutRead \/ FanoutAbort
  BY <1>6 DEF RepairConfig, Expire, SyncTasks, FanoutRead, FanoutAbort, HasJobIn
<1>7. ASSUME NEW d \in Deliveries, Create(d) PROVE Link'
  <2>1. InRun(d) \in BOOLEAN
    BY DEF InRun
  <2>2. /\ status[d] = "absent" /\ status' = [status EXCEPT ![d] = "pending"]
        /\ UNCHANGED <<attempts, retryable, risk, pc, ret, retries>>
        /\ Enqueue(d, InRun(d))
    BY <1>7 DEF Create, Notify, FanoutCommit, Insert
  <2>3. \A k \in Jobs : JobFor[k] = d => jobState[k] = "absent" /\ pc[k] = "idle"
    BY <2>2 DEF BusyIsRunning
  <2>4. \A e \in Deliveries : HasJobIn(e, Live)' => HasJobIn(e, Live \cup {"discarded"})'
    BY DEF HasJobIn
  <2>5. HasJobIn(d, Live \cup {"discarded"})'
    BY <1>1, <2>1, <2>2, <2>3, <2>4
  <2>6. NotProcessing' /\ SettledWhenNil' /\ Claimable'
    BY <2>2, <2>3
  <2>7. NoJobYet'
    BY <1>1, <2>1, <2>2
  <2>8. NotOrphaned'
    <3> SUFFICES ASSUME NEW e \in Deliveries \ {d},
                        status'[e] = "processing" \/ (Unfinished(e)' /\ retries' = 0)
                 PROVE  HasJobIn(e, Live \cup {"discarded"})'
      BY <2>5 DEF NotOrphaned
    <3>1. HasJobIn(e, Live \cup {"discarded"})
      BY <2>2 DEF NotOrphaned, Unfinished
    <3> QED
      BY <1>1, <2>1, <2>2, <3>1
  <2> QED
    BY <2>6, <2>7, <2>8
<1> HIDE DEF Link
<1> QED
  BY <1>3, <1>4, <1>5, <1>6, <1>7,
     Api DEF Api, Operator

LEMMA LinkStep == Inv /\ Link /\ [Next]_vars => Link'
<1> SUFFICES ASSUME Inv, Link, [Next]_vars PROVE Link'
  OBVIOUS
<1>1. CASE UNCHANGED vars
  BY <1>1 DEF vars, deliveryVars, runVars, jobVars, execVars, Link, NotProcessing, SettledWhenNil,
     Claimable, NoJobYet, NotOrphaned, HasJobIn, Unfinished, AttemptsLeft
<1> QED
  BY <1>1, LinkWork, LinkRiver, LinkApi DEF Next, Api, Create

LEMMA LinkInit == Init => Link
BY JobAssumption, BoundAssumption
   DEF Init, Link, NotProcessing, SettledWhenNil, Claimable, NoJobYet, NotOrphaned, Unfinished,
       Recorded

\* A delivery that is processing, or still to be tried and never retried by
\* hand, has a live job or one River discarded.
THEOREM NoneOrphaned == Spec => []NotOrphaned
<1>1. Spec => []Link
  BY LinkInit, LinkStep, Invariance, PTL DEF Spec
<1>2. Link => NotOrphaned
  BY DEF Link
<1> QED
  BY <1>1, <1>2, PTL

-----------------------------------------------------------------------------
(***************************************************************************)
(* The run of one delivery follows it.  Without faults every recording is  *)
(* followed by a refresh of the same worker, and nobody else records in    *)
(* between, so what the refresh read is not stale when it is written.      *)
(***************************************************************************)
Refreshing == {"effects", "refresh", "refreshed"}
Finished == {"completed", "completed_with_failures"}

\* Only deliveries of the run have workers that refresh it, or tasks whose
\* retry reopens it.
OfTheRun ==
  \A j \in Jobs : pc[j] \in Refreshing \/ correlated[j] => InRun(JobFor[j])

\* Without faults nothing is interrupted: what is processing has its worker.
Attended ==
  \A d \in Deliveries : faults = 0 /\ status[d] = "processing" =>
    \E j \in Jobs : JobFor[j] = d /\ pc[j] \in Claimed

\* Nothing but the delivery e decides the run, and nothing went wrong.
Decides(e) ==
  faults = 0 /\ Deliverable /\ \A d \in Deliveries : InRun(d) <=> d = e

RefreshDue ==
  \A e \in Deliveries : Decides(e) /\ Settled(e) =>
    run \in Finished \/ \E j \in Jobs : JobFor[j] = e /\ pc[j] \in Refreshing

SnapshotFresh ==
  \A j \in Jobs : Decides(JobFor[j]) /\ Settled(JobFor[j]) /\ pc[j] = "refreshed" =>
    snap[j] \in Finished

Follows == OfTheRun /\ Attended /\ RefreshDue /\ SnapshotFresh

\* A worker that is not at one of these statements leaves the run, the status
\* of its delivery and the refreshes of all workers as they are.
LEMMA FollowsWork ==
  ASSUME Inv, Follows, NEW j \in Jobs, Work(j)
  PROVE  Follows'
<1> DEFINE d == JobFor[j]
<1>1. d \in Deliveries
  BY JobAssumption
<1>2. \A k \in Jobs \ {j} : JobFor[k] = d => pc[k] = "idle"
  BY Alone DEF Work, StartAttempt, FailInterrupted, CancelUndeliverable, Claim, CheckSend,
               ProviderCall, RecordCancelled, RecordAccepted, RecordFailed, StatementFails,
               ProviderEffects, RefreshRead, RefreshWrite, FinishAttempt, Return
<1>3. faults' = 0 => faults = 0
  BY DEF Work, StartAttempt, FailInterrupted, CancelUndeliverable, Claim, CheckSend,
         ProviderCall, RecordCancelled, RecordAccepted, RecordFailed, StatementFails,
         ProviderEffects, RefreshRead, RefreshWrite, FinishAttempt, Return,
         Proceed, ReturnError, Inv, TypeOK
<1> USE <1>1, <1>2, <1>3
    DEF deliveryVars, messageVars, runVars, jobVars, taskVars, execVars, Goto, ReturnError,
        Proceed, Inv, TypeOK, Claimed, Refreshing, Finished, Deliverable, Settled, Unfinished,
        Follows, OfTheRun, Attended, Decides, RefreshDue, SnapshotFresh, InRun
<1>4. CASE StartAttempt(j)
  BY <1>4 DEF StartAttempt
<1>5. CASE FailInterrupted(j)
  <2>1. status[d] = "processing" => faults # 0
    BY <1>5 DEF FailInterrupted
  <2> QED BY <1>5, <2>1 DEF FailInterrupted
<1>6. CASE CancelUndeliverable(j)
  BY <1>6 DEF CancelUndeliverable
<1>7. CASE Claim(j)
  <2>1. CASE UNCHANGED status
    BY <1>7, <2>1 DEF Claim
  <2>2. CASE status' = [status EXCEPT ![d] = "processing"]
    <3>1. /\ status'[d] = "processing" /\ \A e \in Deliveries \ {d} : status'[e] = status[e]
          /\ pc' = [pc EXCEPT ![j] = pc'[j]] /\ pc'[j] \in {"check", "finish"}
          /\ faults' = 0 => pc'[j] = "check"
          /\ pc[j] = "claim" /\ UNCHANGED <<retryable, message, expired, run, snap, correlated>>
      BY <1>7, <2>2 DEF Claim
    <3>2. OfTheRun'
      BY <3>1
    <3>3. SnapshotFresh'
      <4> SUFFICES ASSUME NEW k \in Jobs, Decides(JobFor[k])', Settled(JobFor[k])',
                          pc'[k] = "refreshed"
                   PROVE  snap'[k] \in Finished
        BY DEF SnapshotFresh
      <4>1. k # j /\ pc[k] = "refreshed"
        BY <3>1
      <4>2. JobFor[k] \in Deliveries \ {d}
        BY <4>1, JobAssumption
      <4> QED BY <3>1, <4>1, <4>2
    <3>4. Attended'
      <4> SUFFICES ASSUME NEW e \in Deliveries, faults' = 0, status'[e] = "processing"
                   PROVE  \E k \in Jobs : JobFor[k] = e /\ pc'[k] \in Claimed
        BY DEF Attended
      <4>1. CASE e = d
        BY <3>1, <4>1
      <4>2. CASE e # d
        <5>1. PICK k \in Jobs : JobFor[k] = e /\ pc[k] \in Claimed
          BY <3>1, <4>2
        <5>2. k # j
          BY <4>2, <5>1
        <5> QED BY <3>1, <5>1, <5>2
      <4> QED BY <4>1, <4>2
    <3>5. RefreshDue'
      BY <3>1
    <3> QED BY <3>2, <3>3, <3>4, <3>5
  <2> QED BY <1>7, <2>1, <2>2 DEF Claim
<1>8. CASE CheckSend(j)
  BY <1>8 DEF CheckSend
<1>9. CASE ProviderCall(j)
  BY <1>9 DEF ProviderCall
<1>10. CASE RecordCancelled(j)
  BY <1>10 DEF RecordCancelled, AfterRecord
<1>11. CASE RecordAccepted(j)
  BY <1>11 DEF RecordAccepted, AfterRecord
<1>12. CASE RecordFailed(j)
  BY <1>12 DEF RecordFailed
<1>13. CASE StatementFails(j)
  BY <1>13 DEF StatementFails
<1>14. CASE ProviderEffects(j)
  BY <1>14 DEF ProviderEffects
<1>15. CASE RefreshRead(j)
  <2>1. Decides(d) /\ Settled(d) => RunStatus \in Finished
    BY DEF RunStatus
  <2> QED BY <1>15, <2>1 DEF RefreshRead
<1>16. CASE RefreshWrite(j)
  BY <1>16 DEF RefreshWrite
<1>17. CASE FinishAttempt(j)
  BY <1>17 DEF FinishAttempt
<1>18. CASE Return(j)
  BY <1>18 DEF Return
<1> QED
  BY <1>4, <1>5, <1>6, <1>7, <1>8, <1>9, <1>10, <1>11, <1>12, <1>13, <1>14, <1>15, <1>16,
     <1>17, <1>18, Work(j) DEF Work

LEMMA FollowsRiver ==
  ASSUME Inv, Follows, NEW j \in Jobs, River(j) \/ Crash(j)
  PROVE  Follows'
<1> USE JobAssumption
    DEF deliveryVars, messageVars, runVars, jobVars, taskVars, execVars,
        Inv, Ownership, TypeOK, BusyIsRunning, Claimed, Refreshing, Finished, Deliverable,
        Settled, Unfinished, Follows, OfTheRun, Attended, Decides, RefreshDue, SnapshotFresh,
        InRun
<1>1. CASE Start(j)
  <2>1. pc[j] = "idle"
    BY <1>1 DEF Start, Waiting
  <2> QED BY <1>1, <2>1 DEF Start
<1>2. CASE Rescue(j) \/ CleanCompleted(j)
  BY <1>2 DEF Rescue, CleanCompleted
<1>3. CASE Crash(j)
  <2>1. faults' # 0
    BY <1>3 DEF Crash
  <2> QED BY <1>3, <2>1 DEF Crash
<1> QED
  BY <1>1, <1>2, <1>3, River(j) \/ Crash(j) DEF River

\* A retry puts the delivery that decides the run back, a cancellation makes it
\* undeliverable, and the fan-out creates it.
LEMMA FollowsApi ==
  ASSUME Inv, Follows, Api
  PROVE  Follows'
<1> USE JobAssumption
    DEF deliveryVars, messageVars, runVars, jobVars, taskVars, execVars,
        Inv, TypeOK, Claimed, Refreshing, Finished, Deliverable, Settled, Unfinished,
        Follows, OfTheRun, Attended, Decides, RefreshDue, SnapshotFresh, InRun
<1>1. ASSUME NEW d \in Deliveries, NEW c \in BOOLEAN, Enqueue(d, c), c => InRun(d)
      PROVE  \A k \in Jobs : correlated'[k] => InRun(JobFor[k])
  BY <1>1 DEF Enqueue
<1>2. ASSUME NEW d \in Deliveries, status[d] # "processing",
             status' = [status EXCEPT ![d] = "pending"],
             \A e \in Deliveries \ {d} : retryable'[e] = retryable[e],
             UNCHANGED <<pc, snap, message, expired, faults>>,
             run' = run \/ InRun(d),
             \A k \in Jobs : correlated'[k] => InRun(JobFor[k])
      PROVE  Follows'
  BY <1>2
<1>3. ASSUME NEW d \in Deliveries, NEW ack \in BOOLEAN, RetryDelivery(d, ack)
      PROVE  Follows'
  BY <1>1, <1>2, <1>3 DEF RetryDelivery, Reopen
<1>4. ASSUME NEW j \in Jobs, NEW ack \in BOOLEAN, RetryTask(j, ack)
      PROVE  Follows'
  BY <1>1, <1>2, <1>4 DEF RetryTask, Reopen
<1>5. CASE CancelMessage
  BY <1>5 DEF CancelMessage
<1>6. CASE RepairConfig \/ Expire \/ SyncTasks \/ FanoutRead \/ FanoutAbort
  BY <1>6 DEF RepairConfig, Expire, SyncTasks, FanoutRead, FanoutAbort
<1>7. ASSUME NEW d \in Deliveries, Create(d)
      PROVE  Follows'
  BY <1>1, <1>2, <1>7 DEF Create, Notify, FanoutCommit, Insert
<1> QED
  BY <1>3, <1>4, <1>5, <1>6, <1>7, Api DEF Api, Operator

LEMMA FollowsStep == Inv /\ Follows /\ [Next]_vars => Follows'
<1> SUFFICES ASSUME Inv, Follows, [Next]_vars PROVE Follows'
  OBVIOUS
<1>1. CASE UNCHANGED vars
  BY <1>1 DEF vars, deliveryVars, messageVars, runVars, taskVars, execVars, Deliverable,
     Settled, Unfinished, Follows, OfTheRun, Attended, Decides, RefreshDue, SnapshotFresh, InRun
<1> QED
  BY <1>1, FollowsWork, FollowsRiver, FollowsApi DEF Next, Api, Create

LEMMA FollowsInit == Init => Follows
BY JobAssumption
   DEF Init, Follows, OfTheRun, Attended, Decides, RefreshDue, SnapshotFresh, Settled, Refreshing,
       Claimed

\* Without faults, cancellation and expiry the run of a single delivery is
\* finished when its delivery is settled and no job of it is left, whatever
\* operators retried: each recording is followed by its own refresh, and what
\* that refresh read is still true when it is written.
THEOREM RunIsRefreshed == Spec => []RunFollows
<1>1. Inv /\ Follows => RunFollows
  <2> SUFFICES ASSUME Inv, Follows, NEW e \in Deliveries,
                      {d \in Deliveries : InRun(d)} = {e}, faults = 0, Deliverable,
                      Settled(e), ~HasJobIn(e, Live)
               PROVE  run \in Finished
    BY DEF RunFollows, Finished
  <2>1. Decides(e)
    BY DEF Decides
  <2>2. ASSUME NEW j \in Jobs, JobFor[j] = e, pc[j] \in Refreshing
        PROVE  FALSE
    BY <2>2 DEF Inv, Ownership, BusyIsRunning, Refreshing, HasJobIn, Live
  <2> QED BY <2>1, <2>2 DEF Follows, RefreshDue
<1> QED
  BY <1>1, FollowsInit, FollowsStep, Invariance, PTL DEF Spec
=============================================================================
