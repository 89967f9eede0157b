---------------------------- MODULE Publication ----------------------------
(***************************************************************************)
(* The life of one message before its deliveries: it is drafted or         *)
(* submitted, scheduled, published by an operator or by the publish job at *)
(* its time, fanned out to the devices of its recipients page by page, or  *)
(* cancelled.  The worker transactions stand between StartAttempt and      *)
(* FinishAttempt, which commit on their own; the fan-out reads the message *)
(* without a lock (READ COMMITTED) and keeps the row of the run locked     *)
(* until it commits.  Deliveries are reduced to what the run sees of them; *)
(* their own steps are in Delivery.                                        *)
(***************************************************************************)
EXTENDS Naturals, FiniteSets

CONSTANTS
  DeviceCount, \* active devices of the recipients, in the order of their ids
  PageSize,    \* devices read by one fan-out job (500)
  JobCount,    \* bound on the river_job rows of the message
  MaxAttempts, \* of a publish or fan-out job (5)
  MaxTime,     \* bound on the clock; an expiry at MaxTime + 1 is none
  Pushes,      \* the settings of push delivery the instance starts from
  MaxEdits,    \* bound on UpdateMessage
  MaxRetries,  \* bound on operator retries
  MaxFaults    \* bound on failing transactions and crashes

ASSUME SizeAssumption == /\ DeviceCount \in Nat
                         /\ PageSize \in Nat \ {0}
                         /\ JobCount \in Nat \ {0}
                         /\ MaxAttempts \in Nat \ {0}
ASSUME BoundAssumption == {MaxTime, MaxEdits, MaxRetries, MaxFaults} \subseteq Nat
ASSUME PushAssumption == Pushes \subseteq {"on", "off", "unwanted"}

VARIABLES
  message,    \* notify.messages.status
  scheduled,  \* scheduled_at, 0 for NULL
  expires,    \* expires_at
  recipients, \* notify.recipients.delivery_status, "none" without rows
  run,        \* notify.message_runs.status
  push,       \* kill switch ("off") and push_enabled of the message
  deliv,      \* notify.deliveries of each device
  snap,       \* the refresh of the run by the worker of each delivery
  job,        \* river_job, jobs.task_runs and the execution of each job
  clock, edits, retries, faults

messageVars == <<message, scheduled, expires, recipients>>
deliveryVars == <<deliv, snap>>
bounds == <<edits, retries, faults>>
vars == <<messageVars, run, push, deliveryVars, job, clock, bounds>>

Devices == 1..DeviceCount
Jobs == 1..JobCount
Waiting == {"available", "scheduled", "retryable"}
Live == Waiting \cup {"running"}
UniqueStates == Live \cup {"completed"}
OpenTasks == {"queued", "scheduled", "running", "retry_wait"}

NoJob == [kind |-> "none", after |-> 0, at |-> 0, state |-> "absent", attempt |-> 0,
          task |-> "none", pc |-> "idle", ret |-> "nil"]

-----------------------------------------------------------------------------
(***************************************************************************)
(* EnqueueTx and River.                                                    *)
(***************************************************************************)
Free(js) == {j \in Jobs : js[j].kind = "none"}

Row(kind, after, at) ==
  [kind |-> kind, after |-> after, at |-> at, attempt |-> 0, pc |-> "idle", ret |-> "nil",
   state |-> IF at > clock THEN "scheduled" ELSE "available",
   task |-> IF at > clock THEN "scheduled" ELSE "queued"]

Queued(js, kind, after, at) ==
  LET j == CHOOSE k \in Free(js) : TRUE IN [js EXCEPT ![j] = Row(kind, after, at)]

\* UniqueByArgs: a job with these arguments that River still keeps is enough.
QueuedOnce(js, kind, after, at) ==
  IF \E j \in Jobs : js[j].kind = kind /\ js[j].after = after /\ js[j].state \in UniqueStates
    THEN js
    ELSE Queued(js, kind, after, at)

Start(j) ==
  /\ job[j].state \in Waiting
  /\ job[j].at <= clock
  /\ job' = [job EXCEPT ![j].state = "running", ![j].attempt = @ + 1, ![j].pc = "start"]
  /\ UNCHANGED <<messageVars, run, push, deliveryVars, clock, bounds>>

AfterError(j) == IF job[j].attempt < MaxAttempts THEN "retryable" ELSE "discarded"

\* A snooze gives the attempt back and waits for the time of the message.
Return(j) ==
  /\ job[j].pc = "return"
  /\ \/ /\ job[j].ret = "nil"
        /\ job' = [job EXCEPT ![j].pc = "idle", ![j].ret = "nil", ![j].state = "completed"]
     \/ /\ job[j].ret = "error"
        /\ job' = [job EXCEPT ![j].pc = "idle", ![j].ret = "nil", ![j].state = AfterError(j)]
     \/ /\ job[j].ret = "snooze"
        /\ job' = [job EXCEPT ![j].pc = "idle", ![j].ret = "nil", ![j].state = "scheduled",
                             ![j].attempt = job[j].attempt - 1]
  /\ UNCHANGED <<messageVars, run, push, deliveryVars, clock, bounds>>

Fault == faults < MaxFaults /\ faults' = faults + 1

Crash(j) ==
  /\ job[j].pc # "idle"
  /\ Fault
  /\ job' = [job EXCEPT ![j].pc = "idle", ![j].ret = "nil"]
  /\ UNCHANGED <<messageVars, run, push, deliveryVars, clock, edits, retries>>

Rescue(j) ==
  /\ job[j].state = "running"
  /\ job[j].pc = "idle"
  /\ job' = [job EXCEPT ![j].state = AfterError(j)]
  /\ UNCHANGED <<messageVars, run, push, deliveryVars, clock, bounds>>

CleanCompleted(j) ==
  /\ job[j].state = "completed"
  /\ job' = [job EXCEPT ![j].state = "deleted"]
  /\ UNCHANGED <<messageVars, run, push, deliveryVars, clock, bounds>>

-----------------------------------------------------------------------------
(***************************************************************************)
(* What both workers do around their transaction.                          *)
(***************************************************************************)
StartAttempt(j) ==
  /\ job[j].pc = "start"
  /\ \/ job' = [job EXCEPT ![j].task = "running", ![j].pc = "run"] /\ UNCHANGED faults
     \/ job' = [job EXCEPT ![j].pc = "return", ![j].ret = "error"] /\ Fault
  /\ UNCHANGED <<messageVars, run, push, deliveryVars, clock, edits, retries>>

\* A transaction that fails, or dies with the connection of the fan-out.
Fail(j) ==
  /\ job[j].pc \in {"run", "page"}
  /\ Fault
  /\ job' = [job EXCEPT ![j].pc = "finish", ![j].ret = "error"]
  /\ UNCHANGED <<messageVars, run, push, deliveryVars, clock, edits, retries>>

\* The end of a transaction over the jobs js; its answer may be lost.
Ends(js, j) ==
  \/ job' = [js EXCEPT ![j].pc = "finish"] /\ UNCHANGED faults
  \/ job' = [js EXCEPT ![j].pc = "finish", ![j].ret = "error"] /\ Fault

\* Everything that is not nil, a snooze too, counts as a failed attempt here.
Completion(j) ==
  CASE job[j].ret = "nil"          -> "succeeded"
    [] job[j].attempt < MaxAttempts -> "retry_wait"
    [] OTHER                        -> "failed"

FinishAttempt(j) ==
  /\ job[j].pc = "finish"
  /\ \/ job' = [job EXCEPT ![j].task = Completion(j),
                           ![j].pc = "return"] /\ UNCHANGED faults
     \/ job' = [job EXCEPT ![j].pc = "return"] /\ Fault
  /\ UNCHANGED <<messageVars, run, push, deliveryVars, clock, edits, retries>>

-----------------------------------------------------------------------------
(***************************************************************************)
(* The publish job: one serializable transaction.  It locks the run first, *)
(* so it does not run while a fan-out page is open.                        *)
(***************************************************************************)
RunUnlocked == \A j \in Jobs : job[j].pc # "page"
Expired == expires <= clock

\* No longer scheduled: the transaction is rolled back and the job is done.
PublishNothing(j) ==
  /\ message # "scheduled"
  /\ job' = [job EXCEPT ![j].pc = "finish"]
  /\ UNCHANGED <<messageVars, run, faults>>

\* Mutant: the job ends instead of waiting for the time of the message.
PublishGivesUp(j) ==
  /\ message = "scheduled"
  /\ scheduled > clock
  /\ job' = [job EXCEPT ![j].pc = "finish"]
  /\ UNCHANGED <<messageVars, run, faults>>

PublishTooEarly(j) ==
  /\ message = "scheduled"
  /\ scheduled > clock
  /\ job' = [job EXCEPT ![j].pc = "finish", ![j].ret = "snooze", ![j].at = scheduled]
  /\ UNCHANGED <<messageVars, run, faults>>

\* Mutants: the message gets the status of its run, which its column does not
\* have; an expired message is skipped and left scheduled.
MarkExpired(j) ==
  /\ message = "scheduled"
  /\ scheduled <= clock
  /\ Expired
  /\ message' = "expired"
  /\ run' = "expired"
  /\ Ends(job, j)
  /\ UNCHANGED <<scheduled, expires, recipients>>

SkipExpired(j) ==
  /\ message = "scheduled"
  /\ scheduled <= clock
  /\ Expired
  /\ Ends(job, j)
  /\ UNCHANGED <<messageVars, run>>

PublishExpired(j) ==
  /\ message = "scheduled"
  /\ scheduled <= clock
  /\ Expired
  /\ message' = "cancelled"
  /\ run' = "expired"
  /\ Ends(job, j)
  /\ UNCHANGED <<scheduled, expires, recipients>>

\* Mutant: the status is not looked at again.
PublishAnyStatus(j) ==
  /\ scheduled <= clock
  /\ ~Expired
  /\ Free(job) # {}
  /\ message' = "published"
  /\ recipients' = "delivered"
  /\ run' = "queued"
  /\ Ends(QueuedOnce(job, "fanout", 0, 0), j)
  /\ UNCHANGED <<scheduled, expires>>

\* Mutant: published without the job that fans it out.
PublishAlone(j) ==
  /\ message = "scheduled"
  /\ scheduled <= clock
  /\ ~Expired
  /\ message' = "published"
  /\ recipients' = "delivered"
  /\ run' = "queued"
  /\ Ends(job, j)
  /\ UNCHANGED <<scheduled, expires>>

PublishNow(j) ==
  /\ message = "scheduled"
  /\ scheduled <= clock
  /\ ~Expired
  /\ Free(job) # {}
  /\ message' = "published"
  /\ recipients' = "delivered"
  /\ run' = "queued"
  /\ Ends(QueuedOnce(job, "fanout", 0, 0), j)
  /\ UNCHANGED <<scheduled, expires>>

Publish(j) ==
  /\ job[j].kind = "publish"
  /\ job[j].pc = "run"
  /\ RunUnlocked
  /\ PublishNothing(j) \/ PublishTooEarly(j) \/ PublishExpired(j) \/ PublishNow(j)
  /\ UNCHANGED <<push, deliveryVars, clock, edits, retries>>

-----------------------------------------------------------------------------
(***************************************************************************)
(* The fan-out job: it locks the run, reads the message and the next page  *)
(* of devices, and commits their deliveries with the job of the next page. *)
(***************************************************************************)
FanoutBegin(j) ==
  /\ job[j].kind = "fanout"
  /\ job[j].pc = "run"
  /\ RunUnlocked
  /\ \/ push = "off" /\ run' = "completed_with_failures" /\ Ends(job, j)
     \/ /\ push # "off"
        /\ message # "published"
        /\ job' = [job EXCEPT ![j].pc = "finish"]
        /\ UNCHANGED <<run, faults>>
     \/ /\ push # "off"
        /\ message = "published"
        /\ \/ Expired /\ run' = "running" /\ Ends(job, j)
           \/ ~Expired /\ push = "unwanted" /\ run' = "completed" /\ Ends(job, j)
           \/ /\ ~Expired /\ push = "on"
              /\ job' = [job EXCEPT ![j].pc = "page"]
              /\ UNCHANGED <<run, faults>>
  /\ UNCHANGED <<messageVars, push, deliveryVars, clock, edits, retries>>

\* Mutant: the first device after the cursor is skipped.
PageAfterNext(after) ==
  {d \in Devices : recipients = "delivered" /\ after + 1 < d /\ d <= after + PageSize}

Page(after) ==
  {d \in Devices : recipients = "delivered" /\ after < d /\ d <= after + PageSize}

\* Mutant: the last page closes the run.
LastPageCloses(j) ==
  LET page == Page(job[j].after)
      full == job[j].after + PageSize \in page
  IN  /\ job[j].pc = "page"
      /\ Free(job) # {}
      /\ deliv' = [d \in Devices |->
           IF d \in page /\ deliv[d] = "absent" THEN "pending" ELSE deliv[d]]
      /\ run' = IF full THEN "running" ELSE "completed"
      /\ Ends(IF full THEN QueuedOnce(job, "fanout", job[j].after + PageSize, 0) ELSE job, j)
      /\ UNCHANGED <<messageVars, push, snap, clock, edits, retries>>

FanoutCommit(j) ==
  LET page == Page(job[j].after)
      full == job[j].after + PageSize \in page
  IN  /\ job[j].pc = "page"
      /\ Free(job) # {}
      /\ deliv' = [d \in Devices |->
           IF d \in page /\ deliv[d] = "absent" THEN "pending" ELSE deliv[d]]
      /\ run' = IF full \/ \E d \in Devices : deliv'[d] # "absent" THEN "running" ELSE "completed"
      /\ Ends(IF full THEN QueuedOnce(job, "fanout", job[j].after + PageSize, 0) ELSE job, j)
      /\ UNCHANGED <<messageVars, push, snap, clock, edits, retries>>

-----------------------------------------------------------------------------
(***************************************************************************)
(* What the run sees of a delivery: it ends, and its worker refreshes the  *)
(* run.  That UPDATE counts the deliveries of its snapshot and then waits  *)
(* for the row of the run: a page may commit in between.                   *)
(***************************************************************************)
NoRefresh == [says |-> "nothing", of |-> {}]
RefreshDue == [says |-> "due", of |-> {}]

Settle(d) ==
  /\ deliv[d] = "pending"
  /\ deliv' = [deliv EXCEPT ![d] = "settled"]
  /\ snap' = [snap EXCEPT ![d] = RefreshDue]
  /\ UNCHANGED <<messageVars, run, push, job, clock, bounds>>

RefreshRead(d) ==
  /\ snap[d] = RefreshDue
  /\ snap' = [snap EXCEPT ![d] =
       IF \E e \in Devices : deliv[e] = "pending"
         THEN [says |-> "running", of |-> {}]
         ELSE [says |-> "completed", of |-> {e \in Devices : deliv[e] # "absent"}]]
  /\ UNCHANGED <<messageVars, run, push, deliv, job, clock, bounds>>

RefreshWrite(d) ==
  /\ snap[d].says \in {"running", "completed"}
  /\ RunUnlocked
  /\ run' = snap[d].says
  /\ snap' = [snap EXCEPT ![d] = NoRefresh]
  /\ UNCHANGED <<messageVars, push, deliv, job, clock, bounds>>

-----------------------------------------------------------------------------
(***************************************************************************)
(* Operators and machine clients, each one serializable transaction.       *)
(***************************************************************************)
\* validateMessage: not in the past, and an expiry after now and after it.
ValidTimes(s, e) == (s = 0 \/ s >= clock) /\ e > clock /\ e > s

CreateMessage ==
  /\ message = "absent"
  /\ message' = "draft"
  /\ \E s \in 0..MaxTime, e \in 1..(MaxTime + 1) :
       ValidTimes(s, e) /\ scheduled' = s /\ expires' = e
  /\ UNCHANGED <<recipients, run, push, deliveryVars, job, clock, bounds>>

\* The times of a scheduled message change, its publish job does not.
UpdateMessage ==
  /\ message \in {"draft", "scheduled"}
  /\ edits < MaxEdits
  /\ edits' = edits + 1
  /\ \E s \in 0..MaxTime, e \in 1..(MaxTime + 1) :
       ValidTimes(s, e) /\ scheduled' = s /\ expires' = e
  /\ UNCHANGED <<message, recipients, run, push, deliveryVars, job, clock, retries, faults>>

\* The insert of the run is refused when there is one: a scheduled message
\* cannot be published by hand.
PublishMessage ==
  /\ message \in {"draft", "scheduled"}
  /\ run = "none"
  /\ Free(job) # {}
  /\ \/ /\ scheduled > clock
        /\ message' = "scheduled" /\ run' = "scheduled" /\ recipients' = "pending"
        /\ job' = QueuedOnce(job, "publish", 0, scheduled)
     \/ /\ scheduled <= clock
        /\ message' = "published" /\ run' = "queued" /\ recipients' = "delivered"
        /\ job' = QueuedOnce(job, "fanout", 0, 0)
  /\ UNCHANGED <<scheduled, expires, push, deliveryVars, clock, bounds>>

Submit ==
  /\ message = "absent"
  /\ Free(job) # {}
  /\ message' = "scheduled"
  /\ recipients' = "pending"
  /\ \E s \in 1..MaxTime, e \in 1..(MaxTime + 1) :
       /\ e > clock /\ e > s
       /\ scheduled' = s /\ expires' = e
       /\ run' = IF s > clock THEN "scheduled" ELSE "queued"
       /\ job' = QueuedOnce(job, "publish", 0, s)
  /\ UNCHANGED <<push, deliveryVars, clock, bounds>>

\* Deliveries that wait are cancelled, those at the provider go on; the run
\* and the jobs are left alone.
CancelMessage ==
  /\ message \in {"draft", "scheduled", "published"}
  /\ message' = "cancelled"
  /\ \E waiting \in SUBSET {d \in Devices : deliv[d] = "pending"} :
       deliv' = [d \in Devices |-> IF d \in waiting THEN "cancelled" ELSE deliv[d]]
  /\ UNCHANGED <<scheduled, expires, recipients, run, push, snap, job, clock, bounds>>

\* Cancellation by a machine client: the tasks that wait are closed, their
\* River jobs will still run.
Cancel ==
  /\ message \in {"draft", "scheduled"}
  /\ message' = "cancelled"
  /\ run' = IF run = "none" THEN "none" ELSE "cancelled"
  /\ job' = [j \in Jobs |-> IF job[j].task \in OpenTasks \ {"running"}
                              THEN [job[j] EXCEPT !.task = "cancelled"]
                              ELSE job[j]]
  /\ UNCHANGED <<scheduled, expires, recipients, push, deliveryVars, clock, bounds>>

\* Retry from the failure centre: a new job, for a fan-out from the first page.
RetryTask(j) ==
  /\ job[j].task = "failed"
  /\ message = IF job[j].kind = "publish" THEN "scheduled" ELSE "published"
  /\ ~Expired
  /\ RunUnlocked
  /\ Free(job) # {}
  /\ retries < MaxRetries
  /\ retries' = retries + 1
  /\ job' = Queued(job, job[j].kind, 0, 0)
  /\ run' = "running"
  /\ UNCHANGED <<messageVars, push, deliveryVars, clock, edits, faults>>

TaskOf(j) ==
  CASE job[j].state = "scheduled" -> "scheduled"
    [] job[j].state = "available" -> "queued"
    [] job[j].state = "running"   -> "running"
    [] job[j].state = "retryable" -> "retry_wait"
    [] job[j].state = "completed" -> "succeeded"
    [] job[j].state = "discarded" -> "failed"
    [] OTHER                      -> job[j].task

SyncTasks ==
  /\ job' = [j \in Jobs |-> IF job[j].task \in OpenTasks
                              THEN [job[j] EXCEPT !.task = TaskOf(j)] ELSE job[j]]
  /\ UNCHANGED <<messageVars, run, push, deliveryVars, clock, bounds>>

Tick ==
  /\ clock < MaxTime
  /\ clock' = clock + 1
  /\ UNCHANGED <<messageVars, run, push, deliveryVars, job, bounds>>

-----------------------------------------------------------------------------
Init ==
  /\ message = "absent" /\ scheduled = 0 /\ expires = MaxTime + 1
  /\ recipients = "none" /\ run = "none"
  /\ push \in Pushes
  /\ deliv = [d \in Devices |-> "absent"]
  /\ snap = [d \in Devices |-> NoRefresh]
  /\ job = [j \in Jobs |-> NoJob]
  /\ clock = 1 /\ edits = 0 /\ retries = 0 /\ faults = 0

Work(j) == \/ StartAttempt(j) \/ Publish(j) \/ FanoutBegin(j) \/ FanoutCommit(j)
           \/ Fail(j) \/ FinishAttempt(j) \/ Return(j)
River(j) == Start(j) \/ Rescue(j)
Operators == \/ CreateMessage \/ UpdateMessage \/ PublishMessage \/ Submit
             \/ CancelMessage \/ Cancel
             \/ \E j \in Jobs : RetryTask(j)

Next == \/ \E j \in Jobs : Work(j) \/ River(j) \/ Crash(j) \/ CleanCompleted(j)
        \/ \E d \in Devices : Settle(d) \/ RefreshRead(d) \/ RefreshWrite(d)
        \/ Operators \/ SyncTasks \/ Tick

Spec == Init /\ [][Next]_vars

\* River keeps fetching and rescuing, a worker that runs goes on, time passes.
Fairness == /\ WF_vars(Tick)
            /\ \A j \in Jobs : /\ WF_vars(Work(j))
                               /\ WF_vars(River(j))
FairSpec == Spec /\ Fairness

-----------------------------------------------------------------------------
(***************************************************************************)
(* Properties.                                                             *)
(***************************************************************************)
HasJob(kind, states) == \E j \in Jobs : job[j].kind = kind /\ job[j].state \in states

JobType ==
  [kind : {"none", "publish", "fanout"},
   after : Nat,
   at : 0..MaxTime,
   state : UniqueStates \cup {"absent", "discarded", "deleted"},
   attempt : 0..MaxAttempts,
   task : OpenTasks \cup {"none", "succeeded", "failed", "cancelled"},
   pc : {"idle", "start", "run", "page", "finish", "return"},
   ret : {"nil", "snooze", "error"}]

\* Every variable has its type.
TypeOK ==
  /\ message \in {"absent", "draft", "scheduled", "published", "cancelled"}
  /\ scheduled \in 0..MaxTime
  /\ expires \in 1..(MaxTime + 1)
  /\ recipients \in {"none", "pending", "delivered"}
  /\ run \in {"none", "scheduled", "queued", "running", "completed",
              "completed_with_failures", "cancelled", "expired"}
  /\ push \in Pushes
  /\ deliv \in [Devices -> {"absent", "pending", "settled", "cancelled"}]
  /\ snap \in [Devices -> [says : {"nothing", "due", "running", "completed"},
                           of : SUBSET Devices]]
  /\ job \in [Jobs -> JobType]
  /\ clock \in 1..(MaxTime + 1)
  /\ edits \in 0..MaxEdits /\ retries \in 0..MaxRetries /\ faults \in 0..MaxFaults

\* A message is never published before its time, also when the time moved
\* after the publish job was made (push_fanout_worker.go, 77-79).
NotEarly == [][message' = "published" /\ message # "published" => scheduled' <= clock]_vars

\* A cancelled message stays cancelled, whatever jobs of it still run, and so
\* does a run that ended as cancelled or expired.
CancelFinal ==
  [][message = "cancelled" => /\ message' = "cancelled"
                              /\ run \in {"cancelled", "expired"} => run' = run]_vars

\* A scheduled message has a publish job that will run, or one River gave up:
\* no edit, lost answer or retry leaves it waiting for nothing.
ScheduledHasJob == message = "scheduled" => HasJob("publish", Live \cup {"discarded"})

\* When no fan-out job of a published message is left, and none was given up,
\* every device has its delivery: no page is skipped or lost.
FanoutComplete ==
  (/\ message = "published" /\ push = "on" /\ ~Expired
   /\ ~HasJob("fanout", Live \cup {"discarded"}))
    => \A d \in Devices : deliv[d] # "absent"

\* A run is running when a page gives it deliveries and stays so while one of
\* them waits: pages, refreshes and retries that overlap never close it, but for
\* the one case the code leaves open, a refresh that counted before the page
\* committed and writes after it (delivery_worker.go, 173-192).
RunStaysOpen ==
  [][\A d \in Devices : deliv'[d] = "pending" /\ run' # "running" =>
       \/ deliv[d] = "pending" /\ run # "running"
       \/ \E w \in Devices : snap[w].says = "completed" /\ d \notin snap[w].of
                            /\ snap'[w] = NoRefresh]_vars

\* Every scheduled message is published or cancelled in the end, unless River
\* gave its job up.
ScheduleEnds ==
  message = "scheduled" ~> message # "scheduled" \/ HasJob("publish", {"discarded"})

\* Every device of a published message gets its delivery, unless the message
\* is cancelled or expires or River gives the job of a page up.
EveryDeviceReached ==
  message = "published" /\ push = "on"
    ~> \/ \A d \in Devices : deliv[d] # "absent"
       \/ message # "published" \/ Expired \/ HasJob("fanout", {"discarded"})
=============================================================================
