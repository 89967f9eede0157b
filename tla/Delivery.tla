------------------------------ MODULE Delivery ------------------------------
(***************************************************************************)
(* The notification delivery pipeline of one published message: the rows   *)
(* of notify.deliveries, the River jobs that carry them, the task_runs     *)
(* projection of those jobs, the DeliveryWorker that executes a job        *)
(* statement by statement, and the operators who retry and cancel.         *)
(*                                                                         *)
(* DeliveryWorker.Work is not one transaction: StartAttempt, the three     *)
(* statements of claim, the provider call, the recording UPDATE and        *)
(* refreshMessageRun each commit on their own.  Every one of them is a     *)
(* step here, so another worker, an operator, a database failure or a      *)
(* crash of the process can come in between.                               *)
(***************************************************************************)
EXTENDS Naturals, FiniteSets

CONSTANTS
  Deliveries,    \* rows of notify.deliveries
  Channel,       \* Channel[d]: "push", "sms" or "email"
  Jobs,          \* ids of the river_job rows that may be inserted
  JobFor,        \* JobFor[j]: the delivery in the arguments of job j
  MaxRows,       \* bound on the deliveries that are inserted
  MaxAttempts,   \* max_attempts of a delivery and of its River job (5)
  MessageEvents, \* which of "cancel", "expire" may happen to the message
  MaxFaults,     \* bound on database failures and worker crashes
  MaxRetries     \* bound on operator retries

ASSUME ChannelAssumption == Channel \in [Deliveries -> {"push", "sms", "email"}]
ASSUME JobAssumption == JobFor \in [Jobs -> Deliveries]
ASSUME BoundAssumption == /\ MaxAttempts \in Nat \ {0}
                          /\ MaxRows \in Nat
                          /\ MaxFaults \in Nat
                          /\ MaxRetries \in Nat
                          /\ MessageEvents \subseteq {"cancel", "expire"}

VARIABLES
  \* notify.deliveries; result is provider_result ("none" for NULL)
  status, attempts, retryable, risk, result,
  \* notify.messages, the provider configuration, the push device of each
  \* delivery, notify.message_runs, and whether a fan-out transaction that read
  \* the message as deliverable is still open
  message, expired, config, device, run, fanout,
  \* river_job and jobs.task_runs; correlated: the task has a correlation_id
  jobState, jobAttempt, task, correlated,
  \* the execution of a job: next statement, outcome of send, value Work will
  \* return, run status read by refreshMessageRun and not yet written
  pc, out, ret, snap,
  \* history: may the provider already have delivered, has an operator asked
  \* for another send since, and was one made that nobody asked for
  exposure,
  \* counters that bound the instance
  faults, retries

deliveryVars == <<status, attempts, retryable, risk, result>>
messageVars == <<message, expired, config, device>>
runVars == <<run, fanout>>
jobVars == <<jobState, jobAttempt>>
taskVars == <<task, correlated>>
execVars == <<pc, out, ret, snap>>
vars == <<deliveryVars, messageVars, runVars, jobVars, taskVars, execVars,
          exposure, faults, retries>>

Statuses == {"absent", "pending", "processing", "sent", "failed", "cancelled"}
Risks == {"none", "duplicate_possible", "manual_review"}
Runs == {"queued", "running", "completed", "completed_with_failures"}
Outcomes == {"accepted", "transient", "unknown_after_write", "invalid_token",
             "auth_config_error", "permanent", "uncertain", "rejected"}
Waiting == {"available", "scheduled", "retryable"}
Live == Waiting \cup {"running"}
\* The job states in which River's default ByArgs uniqueness refuses an insert.
UniqueStates == Live \cup {"completed"}
JobStates == UniqueStates \cup {"absent", "discarded", "deleted"}
OpenTasks == {"queued", "scheduled", "running", "retry_wait"}
Tasks == OpenTasks \cup {"none", "succeeded", "failed", "cancelled"}
Claimed == {"check", "send", "record"}
Labels == Claimed \cup {"idle", "start", "interrupted", "undeliverable", "claim",
                        "effects", "refresh", "refreshed", "finish", "return"}

-----------------------------------------------------------------------------
\* Deliveries created by the fan-out carry the message and its run.
InRun(d) == Channel[d] = "push"

\* claim's and sendPush's test on notify.messages.
Deliverable == message = "published" /\ ~expired

\* Mutant: one attempt too many.
AttemptsLeftOrLast(d) == attempts[d] <= MaxAttempts

AttemptsLeft(d) == attempts[d] < MaxAttempts

\* What a provider may answer, by channel: the Tencent and Alibaba clients map
\* every transport error to uncertain; push adapters classify; throttled
\* behaves as transient.
ProviderOutcomes(c) ==
  CASE c = "push"  -> {"accepted", "transient", "unknown_after_write",
                       "invalid_token", "auth_config_error", "permanent"}
    [] c = "sms"   -> {"accepted", "transient", "uncertain", "rejected"}
    [] c = "email" -> {"accepted", "transient", "rejected"}

\* Outcomes after which the recipient may have been notified.  An e-mail counts
\* as rejected also when the answer to its data, or to QUIT, was lost.
MayHaveDelivered(c) == {"accepted", "unknown_after_write", "uncertain"}
                         \cup (IF c = "email" THEN {"rejected"} ELSE {})

\* Mutants: a lost answer is no risk.
RiskOfRejections(o) == IF o = "rejected" THEN "manual_review" ELSE "none"

RiskOf(o) == CASE o \in {"unknown_after_write", "rejected"} -> "manual_review"
               [] o = "uncertain" -> "duplicate_possible"
               [] OTHER -> "none"

\* deliveryResult.class: only push outcomes have one; permanent() has none.
ClassOf(d, o) == IF Channel[d] = "push" /\ o # "rejected" THEN o ELSE "none"

Unfinished(d) == \/ status[d] \in {"pending", "processing"}
                 \/ status[d] = "failed" /\ retryable[d]

\* The CASE of refreshMessageRun over the deliveries of the run.
RunStatus ==
  LET ofRun == {d \in Deliveries : InRun(d)}
  IN  IF \E d \in ofRun : Unfinished(d) THEN "running"
      ELSE IF \E d \in ofRun : status[d] = "failed" THEN "completed_with_failures"
      ELSE "completed"

-----------------------------------------------------------------------------
(***************************************************************************)
(* River, from how the code uses it: unique insertion by arguments, at     *)
(* most one execution of a job at a time, snooze giving the attempt back,  *)
(* rescue of jobs whose worker died, deletion of completed jobs.           *)
(***************************************************************************)
HasJobIn(d, states) == \E j \in Jobs : JobFor[j] = d /\ jobState[j] \in states

\* Mutant: UniqueByArgs left out.
EnqueueAgain(d, correlate) ==
  \E j \in Jobs :
    /\ JobFor[j] = d
    /\ jobState[j] = "absent"
    /\ jobState' = [jobState EXCEPT ![j] = "available"]
    /\ task' = [task EXCEPT ![j] = "queued"]
    /\ correlated' = [correlated EXCEPT ![j] = correlate]
    /\ UNCHANGED jobAttempt

\* RiverAdapter.EnqueueTx with UniqueByArgs: a duplicate returns the old job,
\* and the INSERT of its task run is a no-op on the old row.
Enqueue(d, correlate) ==
  \/ /\ HasJobIn(d, UniqueStates)
     /\ UNCHANGED <<jobVars, taskVars>>
  \/ /\ ~HasJobIn(d, UniqueStates)
     /\ \E j \in Jobs :
          /\ JobFor[j] = d
          /\ jobState[j] = "absent"
          /\ jobState' = [jobState EXCEPT ![j] = "available"]
          /\ task' = [task EXCEPT ![j] = "queued"]
          /\ correlated' = [correlated EXCEPT ![j] = correlate]
          /\ UNCHANGED jobAttempt

Start(j) ==
  /\ jobState[j] \in Waiting
  /\ jobState' = [jobState EXCEPT ![j] = "running"]
  /\ jobAttempt' = [jobAttempt EXCEPT ![j] = @ + 1]
  /\ pc' = [pc EXCEPT ![j] = "start"]
  /\ UNCHANGED <<deliveryVars, messageVars, runVars, taskVars, out, ret, snap,
                 exposure, faults, retries>>

AfterError(j) == IF jobAttempt[j] < MaxAttempts THEN "retryable" ELSE "discarded"

\* River stores what Work returned.
Return(j) ==
  /\ pc[j] = "return"
  /\ jobState' = [jobState EXCEPT ![j] =
                    CASE ret[j] = "nil"    -> "completed"
                      [] ret[j] = "snooze" -> "scheduled"
                      [] ret[j] = "error"  -> AfterError(j)]
  /\ jobAttempt' = [jobAttempt EXCEPT ![j] = IF ret[j] = "snooze" THEN @ - 1 ELSE @]
  /\ pc' = [pc EXCEPT ![j] = "idle"]
  /\ out' = [out EXCEPT ![j] = "none"]
  /\ ret' = [ret EXCEPT ![j] = "nil"]
  /\ UNCHANGED <<deliveryVars, messageVars, runVars, taskVars, snap, exposure,
                 faults, retries>>

\* The worker process dies; its connection's open statement is lost with it.
Crash(j) ==
  /\ pc[j] # "idle"
  /\ faults < MaxFaults
  /\ faults' = faults + 1
  /\ pc' = [pc EXCEPT ![j] = "idle"]
  /\ out' = [out EXCEPT ![j] = "none"]
  /\ ret' = [ret EXCEPT ![j] = "nil"]
  /\ UNCHANGED <<deliveryVars, messageVars, runVars, jobVars, taskVars, snap,
                 exposure, retries>>

Rescue(j) ==
  /\ jobState[j] = "running"
  /\ pc[j] = "idle"
  /\ jobState' = [jobState EXCEPT ![j] = AfterError(j)]
  /\ UNCHANGED <<deliveryVars, messageVars, run, fanout, jobAttempt, taskVars, execVars,
                 exposure, faults, retries>>

CleanCompleted(j) ==
  /\ jobState[j] = "completed"
  /\ jobState' = [jobState EXCEPT ![j] = "deleted"]
  /\ UNCHANGED <<deliveryVars, messageVars, run, fanout, jobAttempt, taskVars, execVars,
                 exposure, faults, retries>>

-----------------------------------------------------------------------------
(***************************************************************************)
(* DeliveryWorker.Work.  A statement either commits and the handler goes   *)
(* on (Proceed), or its error is seen although it committed, or it does    *)
(* not take effect at all (StatementFails); both errors finish the attempt *)
(* and are returned to River.                                              *)
(***************************************************************************)
Goto(j, label) == pc' = [pc EXCEPT ![j] = label]

\* Mutant: the error is logged and nil returned.
SwallowError(j, label) ==
  /\ faults < MaxFaults
  /\ faults' = faults + 1
  /\ ret' = [ret EXCEPT ![j] = "nil"]
  /\ Goto(j, label)

ReturnError(j, label) ==
  /\ faults < MaxFaults
  /\ faults' = faults + 1
  /\ ret' = [ret EXCEPT ![j] = "error"]
  /\ Goto(j, label)

Proceed(j, label, value) ==
  \/ /\ Goto(j, label)
     /\ ret' = [ret EXCEPT ![j] = value]
     /\ UNCHANGED faults
  \/ ReturnError(j, "finish")

\* jobqueue.StartAttempt; its error leaves Work before anything else is done.
StartAttempt(j) ==
  /\ pc[j] = "start"
  /\ \/ /\ task' = [task EXCEPT ![j] = "running"]
        /\ Goto(j, "interrupted")
        /\ UNCHANGED <<ret, faults>>
     \/ /\ ReturnError(j, "return")
        /\ UNCHANGED task
  /\ UNCHANGED <<deliveryVars, messageVars, runVars, jobVars, correlated, out, snap,
                 exposure, retries>>

\* Mutants of FailInterrupted: an interrupted delivery is put back, or the
\* UPDATE does not ask for processing.
RequeueInterrupted(j) ==
  LET d == JobFor[j] IN
  /\ pc[j] = "interrupted"
  /\ status' = [status EXCEPT ![d] = IF @ = "processing" THEN "pending" ELSE @]
  /\ Proceed(j, "undeliverable", "nil")
  /\ UNCHANGED <<attempts, retryable, risk, result, messageVars, runVars, jobVars,
                 taskVars, out, snap, exposure, retries>>

\* claim, first statement: a delivery found processing was interrupted.
FailInterrupted(j) ==
  LET d == JobFor[j] IN
  /\ pc[j] = "interrupted"
  /\ IF status[d] = "processing"
       THEN /\ status' = [status EXCEPT ![d] = "failed"]
            /\ retryable' = [retryable EXCEPT ![d] = FALSE]
            /\ risk' = [risk EXCEPT ![d] = IF Channel[d] = "sms"
                                             THEN "duplicate_possible"
                                             ELSE "manual_review"]
       ELSE UNCHANGED <<status, retryable, risk>>
  /\ Proceed(j, "undeliverable", "nil")
  /\ UNCHANGED <<attempts, result, messageVars, runVars, jobVars, taskVars, out, snap,
                 exposure, retries>>

\* claim, second statement: a push of a cancelled or expired message.
CancelUndeliverable(j) ==
  LET d == JobFor[j] IN
  /\ pc[j] = "undeliverable"
  /\ IF InRun(d) /\ status[d] \in {"pending", "failed"} /\ risk[d] = "none" /\ ~Deliverable
       THEN /\ status' = [status EXCEPT ![d] = "cancelled"]
            /\ retryable' = [retryable EXCEPT ![d] = FALSE]
       ELSE UNCHANGED <<status, retryable>>
  /\ Proceed(j, "claim", "nil")
  /\ UNCHANGED <<attempts, risk, result, messageVars, runVars, jobVars, taskVars, out,
                 snap, exposure, retries>>

\* Mutants of Claim: the attempt is not counted, or the risk not looked at.
ClaimUncounted(j) ==
  LET d == JobFor[j] IN
  /\ pc[j] = "claim"
  /\ IF status[d] \in {"pending", "failed"} /\ risk[d] = "none" /\ AttemptsLeft(d)
       THEN status' = [status EXCEPT ![d] = "processing"] /\ Proceed(j, "check", "nil")
       ELSE UNCHANGED status /\ Proceed(j, "finish", "nil")
  /\ UNCHANGED <<attempts, retryable, risk, result, messageVars, runVars, jobVars,
                 taskVars, out, snap, exposure, retries>>

ClaimAtRisk(j) ==
  LET d == JobFor[j] IN
  /\ pc[j] = "claim"
  /\ IF status[d] \in {"pending", "failed"} /\ AttemptsLeft(d)
       THEN /\ status' = [status EXCEPT ![d] = "processing"]
            /\ attempts' = [attempts EXCEPT ![d] = @ + 1]
            /\ Proceed(j, "check", "nil")
       ELSE UNCHANGED <<status, attempts>> /\ Proceed(j, "finish", "nil")
  /\ UNCHANGED <<retryable, risk, result, messageVars, runVars, jobVars, taskVars, out,
                 snap, exposure, retries>>

\* claim, third statement: no row means there is nothing to do and Work
\* finishes the attempt as succeeded.
Claim(j) ==
  LET d == JobFor[j] IN
  /\ pc[j] = "claim"
  /\ IF status[d] \in {"pending", "failed"} /\ risk[d] = "none" /\ AttemptsLeft(d)
       THEN /\ status' = [status EXCEPT ![d] = "processing"]
            /\ attempts' = [attempts EXCEPT ![d] = @ + 1]
            /\ Proceed(j, "check", "nil")
       ELSE /\ UNCHANGED <<status, attempts>>
            /\ Proceed(j, "finish", "nil")
  /\ UNCHANGED <<retryable, risk, result, messageVars, runVars, jobVars, taskVars, out,
                 snap, exposure, retries>>

\* send up to the provider call: a push looks at its message once more; a
\* failing look is transient; kill switch, secrets, template, binding and
\* channel configuration are refused with permanent().
CheckSend(j) ==
  LET d == JobFor[j] IN
  /\ pc[j] = "check"
  /\ \/ /\ InRun(d) => Deliverable
        /\ Goto(j, "send")
        /\ UNCHANGED <<out, faults>>
     \/ /\ InRun(d) /\ ~Deliverable
        /\ out' = [out EXCEPT ![j] = "cancelled"]
        /\ Goto(j, "record")
        /\ UNCHANGED faults
     \/ /\ InRun(d)
        /\ faults < MaxFaults
        /\ faults' = faults + 1
        /\ out' = [out EXCEPT ![j] = "transient"]
        /\ Goto(j, "record")
     \/ /\ out' = [out EXCEPT ![j] = "rejected"]
        /\ Goto(j, "record")
        /\ UNCHANGED faults
  /\ UNCHANGED <<deliveryVars, messageVars, runVars, jobVars, taskVars, ret, snap,
                 exposure, retries>>

\* The provider call.
ProviderCall(j) ==
  LET d == JobFor[j] IN
  /\ pc[j] = "send"
  /\ \E o \in ProviderOutcomes(Channel[d]) :
       /\ out' = [out EXCEPT ![j] = o]
       /\ exposure' = IF o \in MayHaveDelivered(Channel[d])
                        THEN [exposure EXCEPT ![d] = IF @ = "written" THEN "duplicated"
                                                                     ELSE "written"]
                        ELSE exposure
  /\ Goto(j, "record")
  /\ UNCHANGED <<deliveryVars, messageVars, runVars, jobVars, taskVars, ret, snap,
                 faults, retries>>

\* Mutant: the run is not refreshed.
AfterRecordFinish(d) == "finish"

AfterRecord(d) == IF InRun(d) THEN "refresh" ELSE "finish"

RecordCancelled(j) ==
  LET d == JobFor[j] IN
  /\ pc[j] = "record"
  /\ out[j] = "cancelled"
  /\ status' = [status EXCEPT ![d] = "cancelled"]
  /\ retryable' = [retryable EXCEPT ![d] = FALSE]
  /\ risk' = [risk EXCEPT ![d] = "none"]
  /\ Proceed(j, AfterRecord(d), "nil")
  /\ UNCHANGED <<attempts, result, messageVars, runVars, jobVars, taskVars, out, snap,
                 exposure, retries>>

RecordAccepted(j) ==
  LET d == JobFor[j] IN
  /\ pc[j] = "record"
  /\ out[j] = "accepted"
  /\ status' = [status EXCEPT ![d] = "sent"]
  /\ retryable' = [retryable EXCEPT ![d] = FALSE]
  /\ risk' = [risk EXCEPT ![d] = "none"]
  /\ result' = [result EXCEPT ![d] = IF Channel[d] = "push" THEN "accepted" ELSE @]
  /\ Proceed(j, AfterRecord(d), "nil")
  /\ UNCHANGED <<attempts, messageVars, runVars, jobVars, taskVars, out, snap,
                 exposure, retries>>

RecordFailed(j) ==
  LET d == JobFor[j]
      shouldRetry == out[j] = "transient" /\ AttemptsLeft(d)
  IN
  /\ pc[j] = "record"
  /\ out[j] \in Outcomes \ {"accepted"}
  /\ status' = [status EXCEPT ![d] = "failed"]
  /\ retryable' = [retryable EXCEPT ![d] = shouldRetry]
  /\ risk' = [risk EXCEPT ![d] = RiskOf(out[j])]
  /\ result' = [result EXCEPT ![d] = ClassOf(d, out[j])]
  /\ Proceed(j, IF InRun(d) THEN "effects" ELSE "finish",
             IF shouldRetry THEN "snooze" ELSE "nil")
  /\ UNCHANGED <<attempts, messageVars, runVars, jobVars, taskVars, out, snap,
                 exposure, retries>>

\* The statements whose error Work returns may also fail without effect.
StatementFails(j) ==
  /\ pc[j] \in {"interrupted", "undeliverable", "claim", "record"}
  /\ ReturnError(j, "finish")
  /\ UNCHANGED <<deliveryVars, messageVars, runVars, jobVars, taskVars, out, snap,
                 exposure, retries>>

\* An invalid token disables the device, a refused credential the provider
\* configuration; a failure of these statements is ignored.
ProviderEffects(j) ==
  /\ pc[j] = "effects"
  /\ \/ /\ device' = [device EXCEPT ![JobFor[j]] =
                        IF out[j] = "invalid_token" THEN "invalid" ELSE @]
        /\ config' = IF out[j] = "auth_config_error" THEN "faulted" ELSE config
        /\ UNCHANGED faults
     \/ /\ out[j] \in {"invalid_token", "auth_config_error"}
        /\ faults < MaxFaults
        /\ faults' = faults + 1
        /\ UNCHANGED <<device, config>>
  /\ Goto(j, "refresh")
  /\ UNCHANGED <<deliveryVars, message, expired, runVars, jobVars, taskVars, out, ret,
                 snap, exposure, retries>>

\* refreshMessageRun is one UPDATE, but under READ COMMITTED its subqueries
\* keep the snapshot of the statement's start while the row itself is taken
\* in its latest version: reading and writing are two steps.
RefreshRead(j) ==
  /\ pc[j] = "refresh"
  /\ snap' = [snap EXCEPT ![j] = RunStatus]
  /\ Goto(j, "refreshed")
  /\ UNCHANGED <<deliveryVars, messageVars, runVars, jobVars, taskVars, out, ret,
                 exposure, faults, retries>>

\* Its error is ignored.
RefreshWrite(j) ==
  /\ pc[j] = "refreshed"
  /\ ~fanout
  /\ \/ run' = snap[j] /\ UNCHANGED faults
     \/ /\ faults < MaxFaults
        /\ faults' = faults + 1
        /\ UNCHANGED run
  /\ snap' = [snap EXCEPT ![j] = "queued"]
  /\ Goto(j, "finish")
  /\ UNCHANGED <<deliveryVars, messageVars, fanout, jobVars, taskVars, out, ret,
                 exposure, retries>>

\* The status given to FinishAttempt.
Completion(j) ==
  CASE ret[j] = "snooze" -> "retry_wait"
    [] ret[j] = "error"  -> IF jobAttempt[j] < MaxAttempts THEN "retry_wait" ELSE "failed"
    [] ret[j] = "nil"    -> CASE out[j] \in {"none", "accepted"} -> "succeeded"
                              [] out[j] = "cancelled" -> "cancelled"
                              [] OTHER -> "failed"

\* jobqueue.FinishAttempt; its error is ignored.
FinishAttempt(j) ==
  /\ pc[j] = "finish"
  /\ \/ /\ task' = [task EXCEPT ![j] = Completion(j)]
        /\ UNCHANGED faults
     \/ /\ faults < MaxFaults
        /\ faults' = faults + 1
        /\ UNCHANGED task
  /\ Goto(j, "return")
  /\ UNCHANGED <<deliveryVars, messageVars, runVars, jobVars, correlated, out, ret,
                 snap, exposure, retries>>

Work(j) ==
  \/ StartAttempt(j)
  \/ FailInterrupted(j)
  \/ CancelUndeliverable(j)
  \/ Claim(j)
  \/ CheckSend(j)
  \/ ProviderCall(j)
  \/ RecordCancelled(j)
  \/ RecordAccepted(j)
  \/ RecordFailed(j)
  \/ StatementFails(j)
  \/ ProviderEffects(j)
  \/ RefreshRead(j)
  \/ RefreshWrite(j)
  \/ FinishAttempt(j)
  \/ Return(j)

-----------------------------------------------------------------------------
(***************************************************************************)
(* The transactions of the API and of maintenance.                         *)
(***************************************************************************)

\* A delivery is inserted together with its job.
Insert(d) ==
  /\ status[d] = "absent"
  /\ Cardinality({e \in Deliveries : status[e] # "absent"}) < MaxRows
  /\ status' = [status EXCEPT ![d] = "pending"]
  /\ Enqueue(d, InRun(d))

\* The e-mail and SMS notifiers.
Notify(d) ==
  /\ ~InRun(d)
  /\ Insert(d)
  /\ UNCHANGED <<attempts, retryable, risk, result, messageVars, runVars, execVars,
                 exposure, faults, retries>>

\* A fan-out page, READ COMMITTED: the message is read without a lock, so it
\* may be cancelled before the page commits; the row of the run is locked from
\* the start.  A page here has one device.
FanoutRead ==
  /\ ~fanout
  /\ Deliverable
  /\ \E d \in Deliveries : InRun(d) /\ status[d] = "absent"
  /\ fanout' = TRUE
  /\ UNCHANGED <<deliveryVars, messageVars, run, jobVars, taskVars, execVars, exposure,
                 faults, retries>>

FanoutCommit(d) ==
  /\ fanout
  /\ InRun(d)
  /\ Insert(d)
  /\ fanout' = FALSE
  /\ run' = "running"
  /\ UNCHANGED <<attempts, retryable, risk, result, messageVars, execVars, exposure,
                 faults, retries>>

FanoutAbort ==
  /\ fanout
  /\ faults < MaxFaults
  /\ faults' = faults + 1
  /\ fanout' = FALSE
  /\ UNCHANGED <<deliveryVars, messageVars, run, jobVars, taskVars, execVars, exposure,
                 retries>>

CancelMessage ==
  LET hit == {d \in Deliveries : /\ InRun(d)
                                 /\ status[d] \in {"pending", "failed"}
                                 /\ risk[d] = "none"}
  IN
  /\ "cancel" \in MessageEvents
  /\ message = "published"
  /\ message' = "cancelled"
  /\ status' = [d \in Deliveries |-> IF d \in hit THEN "cancelled" ELSE status[d]]
  /\ retryable' = [d \in Deliveries |-> IF d \in hit THEN FALSE ELSE retryable[d]]
  /\ UNCHANGED <<attempts, risk, result, expired, config, device, runVars, jobVars,
                 taskVars, execVars, exposure, faults, retries>>

Expire ==
  /\ "expire" \in MessageEvents
  /\ ~expired
  /\ expired' = TRUE
  /\ UNCHANGED <<deliveryVars, message, config, device, runVars, jobVars, taskVars,
                 execVars, exposure, faults, retries>>

RepairConfig ==
  /\ config = "faulted"
  /\ config' = "ready"
  /\ UNCHANGED <<deliveryVars, message, expired, device, runVars, jobVars, taskVars,
                 execVars, exposure, faults, retries>>

\* What an operator's retry does to the record of possible deliveries: an
\* acknowledged risk starts afresh.
Reopened(d, acknowledged) ==
  [exposure EXCEPT ![d] = CASE acknowledged -> "none"
                            [] ~acknowledged /\ @ = "written" -> "reopened"
                            [] OTHER -> @]

Reopen(d, acknowledged) ==
  /\ retries < MaxRetries
  /\ retries' = retries + 1
  /\ status' = [status EXCEPT ![d] = "pending"]
  /\ retryable' = [retryable EXCEPT ![d] = FALSE]
  /\ risk' = [risk EXCEPT ![d] = "none"]
  /\ exposure' = Reopened(d, acknowledged)

RetryDelivery(d, acknowledged) ==
  /\ status[d] = "failed"
  /\ AttemptsLeft(d)
  /\ retryable[d] \/ acknowledged
  /\ risk[d] = "none" \/ acknowledged
  /\ Reopen(d, acknowledged)
  /\ Enqueue(d, FALSE)
  /\ UNCHANGED <<attempts, result, messageVars, runVars, execVars, faults>>

\* deliveryManualRetryRejection for a request of one item.
ManualRetryAllowed(d, acknowledged) ==
  LET unknownAfterWrite == result[d] = "unknown_after_write" \/ risk[d] = "duplicate_possible"
      manualRetryable == retryable[d] \/ result[d] \in {"transient", "auth_config_error"}
  IN  IF unknownAfterWrite THEN acknowledged ELSE manualRetryable

RetryTask(j, acknowledged) ==
  LET d == JobFor[j] IN
  /\ task[j] = "failed"
  /\ status[d] = "failed"
  /\ ManualRetryAllowed(d, acknowledged)
  /\ result[d] = "auth_config_error" => config = "ready"
  /\ Reopen(d, acknowledged)
  /\ attempts' = [attempts EXCEPT ![d] = 0]
  /\ Enqueue(d, correlated[j])
  /\ correlated[j] => ~fanout
  /\ run' = IF correlated[j] THEN "running" ELSE run
  /\ UNCHANGED <<result, messageVars, fanout, execVars, faults>>

\* OperationsMaintenance.RunOnce: the projection follows river_job.
TaskOf(j) ==
  CASE jobState[j] = "scheduled" -> "scheduled"
    [] jobState[j] = "available" -> "queued"
    [] jobState[j] = "running"   -> "running"
    [] jobState[j] = "retryable" -> "retry_wait"
    [] jobState[j] = "completed" -> "succeeded"
    [] jobState[j] = "discarded" -> "failed"
    [] OTHER -> task[j]

SyncTasks ==
  /\ task' = [j \in Jobs |-> IF task[j] \in OpenTasks THEN TaskOf(j) ELSE task[j]]
  /\ task' # task
  /\ UNCHANGED <<deliveryVars, messageVars, runVars, jobVars, correlated, execVars,
                 exposure, faults, retries>>

-----------------------------------------------------------------------------
Init ==
  /\ status = [d \in Deliveries |-> "absent"]
  /\ attempts = [d \in Deliveries |-> 0]
  /\ retryable = [d \in Deliveries |-> FALSE]
  /\ risk = [d \in Deliveries |-> "none"]
  /\ result = [d \in Deliveries |-> "none"]
  /\ message = "published"
  /\ expired = FALSE
  /\ config = "ready"
  /\ device = [d \in Deliveries |-> "active"]
  /\ run = "queued"
  /\ fanout = FALSE
  /\ jobState = [j \in Jobs |-> "absent"]
  /\ jobAttempt = [j \in Jobs |-> 0]
  /\ task = [j \in Jobs |-> "none"]
  /\ correlated = [j \in Jobs |-> FALSE]
  /\ pc = [j \in Jobs |-> "idle"]
  /\ out = [j \in Jobs |-> "none"]
  /\ ret = [j \in Jobs |-> "nil"]
  /\ snap = [j \in Jobs |-> "queued"]
  /\ exposure = [d \in Deliveries |-> "none"]
  /\ faults = 0
  /\ retries = 0

River(j) == Start(j) \/ Rescue(j) \/ CleanCompleted(j)

Operator ==
  \/ \E d \in Deliveries, ack \in BOOLEAN : RetryDelivery(d, ack)
  \/ \E j \in Jobs, ack \in BOOLEAN : RetryTask(j, ack)
  \/ CancelMessage
  \/ RepairConfig

Next ==
  \/ \E d \in Deliveries : Notify(d) \/ FanoutCommit(d)
  \/ FanoutRead
  \/ FanoutAbort
  \/ \E j \in Jobs : River(j) \/ Work(j) \/ Crash(j)
  \/ Operator
  \/ Expire
  \/ SyncTasks

Spec == Init /\ [][Next]_vars

\* River keeps fetching and rescuing while a worker runs, a worker that has a
\* job goes on to the end of Work and an open transaction ends; operators,
\* faults and expiry owe nothing.
Fairness == /\ \A j \in Jobs : /\ WF_vars(Start(j))
                               /\ WF_vars(Rescue(j))
                               /\ WF_vars(Work(j))
            /\ WF_vars(\E d \in Deliveries : FanoutCommit(d))

FairSpec == Spec /\ Fairness

-----------------------------------------------------------------------------
\* Types: every column, label and counter keeps to its values.
TypeOK ==
  /\ status \in [Deliveries -> Statuses]
  /\ attempts \in [Deliveries -> 0..MaxAttempts]
  /\ retryable \in [Deliveries -> BOOLEAN]
  /\ risk \in [Deliveries -> Risks]
  /\ result \in [Deliveries -> Outcomes \cup {"none"}]
  /\ message \in {"published", "cancelled"}
  /\ expired \in BOOLEAN
  /\ config \in {"ready", "faulted"}
  /\ device \in [Deliveries -> {"active", "invalid"}]
  /\ run \in Runs
  /\ fanout \in BOOLEAN
  /\ jobState \in [Jobs -> JobStates]
  /\ jobAttempt \in [Jobs -> Nat]
  /\ task \in [Jobs -> Tasks]
  /\ correlated \in [Jobs -> BOOLEAN]
  /\ pc \in [Jobs -> Labels]
  /\ out \in [Jobs -> Outcomes \cup {"none", "cancelled"}]
  /\ ret \in [Jobs -> {"nil", "snooze", "error"}]
  /\ snap \in [Jobs -> Runs]
  /\ exposure \in [Deliveries -> {"none", "written", "reopened", "duplicated"}]
  /\ faults \in 0..MaxFaults
  /\ retries \in 0..MaxRetries

\* A worker past its claim owns the delivery: the recording UPDATEs name the
\* row by id alone, so a second worker, an operator's retry or a cancellation
\* between claim and record would be overwritten.
ClaimOwnsDelivery ==
  \A j \in Jobs : pc[j] \in Claimed =>
    /\ jobState[j] = "running"
    /\ status[JobFor[j]] = "processing"
    /\ \A k \in Jobs \ {j} : JobFor[k] = JobFor[j] => jobState[k] \notin Live

\* Whatever fails or crashes in between, a delivery the provider may have
\* accepted is never offered to it again unless an operator retried it.
NoAutomaticResend ==
  \A j \in Jobs : pc[j] = "send" => exposure[JobFor[j]] # "written"

\* A possible delivery never disappears from the record: it reads sent, is
\* still owned by a worker, or is failed with a retry risk.  It is never
\* pending, cancelled or failed without risk.
ExposureOnRecord ==
  \A d \in Deliveries : exposure[d] = "written" =>
    \/ status[d] \in {"sent", "processing"}
    \/ status[d] = "failed" /\ risk[d] # "none"

\* A delivery in the middle of its processing, or still to be tried and not
\* put back by an operator, has a job that will come to it or one River gave
\* up: an enqueue, a snooze and every error path keep that link.
NotOrphaned ==
  \A d \in Deliveries :
    status[d] = "processing" \/ (Unfinished(d) /\ retries = 0)
      => HasJobIn(d, Live \cup {"discarded"})

\* A run of one delivery, without faults, cancellation or expiry, is finished
\* as soon as the delivery is settled and its job done: the refresh comes after
\* every recording, also when operators retried in between.
Settled(d) == status[d] \in {"sent", "failed", "cancelled"} /\ ~Unfinished(d)
RunFollows ==
  \A e \in Deliveries :
    /\ {d \in Deliveries : InRun(d)} = {e}
    /\ faults = 0
    /\ Deliverable
    /\ Settled(e)
    /\ ~HasJobIn(e, Live)
    => run \in {"completed", "completed_with_failures"}

\* What the provider accepted and the worker recorded is never taken back, by
\* a cancellation, a retry, a recovery or a late worker.
SentIsFinal ==
  [][\A d \in Deliveries : status[d] = "sent" => status'[d] = "sent"]_vars

\* Every delivery the fan-out or a notifier creates is eventually settled, or
\* its job discarded, as long as nobody retries it by hand.
Settles ==
  \A d \in Deliveries :
    status[d] = "pending" ~> \/ ~Unfinished(d)
                            \/ HasJobIn(d, {"discarded"})
                            \/ retries > 0

\* The pipeline keeps the promise of AtMostOnce: a provider call that may
\* deliver is a Write, recording it as sent a Confirm, a retry by hand a
\* Reopen, and nothing else shows.
Promise == INSTANCE AtMostOnce WITH
             confirmed <- {d \in Deliveries : status[d] = "sent"}
KeepsPromise == Promise!Spec
=============================================================================
