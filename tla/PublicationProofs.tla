------------------------- MODULE PublicationProofs -------------------------
(***************************************************************************)
(* Proofs about Publication for any number of devices, page size, jobs,    *)
(* attempts, times, edits, retries and faults: type correctness, what a    *)
(* cancellation and a schedule guarantee, and that the chain of fan-out    *)
(* jobs reaches every device.                                              *)
(***************************************************************************)
EXTENDS Publication, TLAPS

\* River counts the attempts of a row and only an inserted row runs.
ShapeOf(js) ==
  \A j \in Jobs :
    /\ js[j].kind = "none" <=> js[j].state = "absent"
    /\ js[j].kind = "none" => js[j].task = "none"
    /\ js[j].pc # "idle" => js[j].state = "running"
    /\ js[j].state \in Waiting => js[j].attempt < MaxAttempts
    /\ js[j].state = "running" => js[j].attempt # 0

JobShape == ShapeOf(job)

\* A message has jobs and a run from the moment it leaves its draft.
DraftIsAlone ==
  /\ message \in {"absent", "draft"} => run = "none" /\ \A j \in Jobs : job[j].kind = "none"
  /\ message = "scheduled" => run # "none"

PublishedReaches == message = "published" => recipients = "delivered"
EndedIsCancelled == run \in {"cancelled", "expired"} => message = "cancelled"

\* Nothing is fanned out before the publication or after such an end.
NotFannedOut ==
  message \in {"absent", "draft", "scheduled"} \/ run \in {"cancelled", "expired"} =>
    /\ \A j \in Jobs : job[j].kind # "fanout"
    /\ \A d \in Devices : deliv[d] = "absent"

PushNeeded == push # "on" => \A d \in Devices : deliv[d] = "absent"
PageIsFanout == \A j \in Jobs : job[j].pc = "page" => job[j].kind = "fanout" /\ push = "on"

\* Only a job that met the message in its last states returns nil.
PublishDone ==
  \A j \in Jobs :
    (/\ job[j].kind = "publish"
     /\ job[j].pc \in {"finish", "return"}
     /\ job[j].ret = "nil") => message # "scheduled"

Story ==
  /\ DraftIsAlone
  /\ PublishedReaches
  /\ EndedIsCancelled
  /\ NotFannedOut
  /\ PushNeeded
  /\ PageIsFanout
  /\ PublishDone
  /\ ScheduledHasJob

\* Only the worker of a delivery refreshes the run, and one that read it
\* completed saw no delivery that can wait again.
RefreshFits ==
  \A w \in Devices :
    /\ snap[w].says # "nothing" => deliv[w] # "absent"
    /\ snap[w].says = "completed" =>
         \A d \in snap[w].of : deliv[d] \in {"settled", "cancelled"}

\* The chain of pages: a fan-out job follows pages that are complete, and one
\* that is done was the last page or leaves a later one to do.
Done(j) == \/ job[j].state \in {"completed", "deleted"}
           \/ job[j].pc \in {"finish", "return"} /\ job[j].ret = "nil"
AllReached == \A d \in Devices : deliv[d] # "absent"
FansOut == message = "published" /\ push = "on" /\ ~Expired

FollowsPages ==
  \A j \in Jobs : job[j].kind = "fanout" =>
    \A d \in Devices : d <= job[j].after => deliv[d] # "absent"

Later(j) == \E k \in Jobs : /\ job[k].kind = "fanout"
                            /\ ~Done(k)
                            /\ job[j].after < job[k].after

Chain ==
  /\ FollowsPages
  /\ FansOut => \E j \in Jobs : job[j].kind = "fanout"
  /\ FansOut => \A j \in Jobs : job[j].kind = "fanout" /\ Done(j) => AllReached \/ Later(j)

-----------------------------------------------------------------------------
(***************************************************************************)
(* What EnqueueTx makes of the jobs.                                       *)
(***************************************************************************)
\* A row is inserted, typed and not done.
LEMMA RowType ==
  ASSUME NEW kind \in {"publish", "fanout"}, NEW after \in Nat, NEW at \in 0..MaxTime
  PROVE  Row(kind, after, at) \in JobType
BY SizeAssumption DEF Row, JobType, UniqueStates, Live, Waiting, OpenTasks

\* Queued fills one free row.
LEMMA QueuedFills ==
  ASSUME job \in [Jobs -> JobType], Free(job) # {}, NEW kind, NEW after, NEW at
  PROVE  \E n \in Jobs : /\ job[n].kind = "none"
                         /\ Queued(job, kind, after, at) = [job EXCEPT ![n] = Row(kind, after, at)]
<1> DEFINE n == CHOOSE k \in Free(job) : TRUE
<1>1. n \in Free(job)
  OBVIOUS
<1>2. n \in Jobs /\ job[n].kind = "none"
  BY <1>1 DEF Free
<1>3. Queued(job, kind, after, at) = [job EXCEPT ![n] = Row(kind, after, at)]
  BY Zenon DEF Queued
<1> QED
  BY <1>2, <1>3

\* QueuedOnce fills one free row or finds a job with the same arguments.
LEMMA QueuedOnceFills ==
  ASSUME job \in [Jobs -> JobType], Free(job) # {}, NEW kind, NEW after, NEW at
  PROVE  \/ /\ QueuedOnce(job, kind, after, at) = job
            /\ \E m \in Jobs : /\ job[m].kind = kind
                              /\ job[m].after = after
                              /\ job[m].state \in UniqueStates
         \/ \E n \in Jobs : /\ job[n].kind = "none"
                           /\ QueuedOnce(job, kind, after, at)
                                = [job EXCEPT ![n] = Row(kind, after, at)]
BY QueuedFills DEF QueuedOnce

-----------------------------------------------------------------------------
(***************************************************************************)
(* Types and the shape of the jobs.                                        *)
(***************************************************************************)
LEMMA ShapeInit == Init => TypeOK /\ JobShape
<1> SUFFICES ASSUME Init PROVE TypeOK /\ JobShape
  OBVIOUS
<1>1. NoJob \in JobType
  BY BoundAssumption, SizeAssumption DEF NoJob, JobType, OpenTasks
<1>2. TypeOK
  BY <1>1, BoundAssumption DEF Init, TypeOK, NoRefresh
<1>3. JobShape
  BY SizeAssumption DEF Init, JobShape, ShapeOf, NoJob, Waiting
<1> QED
  BY <1>2, <1>3

States == UniqueStates \cup {"absent", "discarded", "deleted"}
TaskStates == OpenTasks \cup {"none", "succeeded", "failed", "cancelled"}
Pcs == {"idle", "start", "run", "page", "finish", "return"}
Rets == {"nil", "snooze", "error"}

\* Setting a field to a value of its type keeps the rows typed.
LEMMA SetField ==
  ASSUME NEW js \in [Jobs -> JobType], NEW j \in Jobs
  PROVE  /\ \A v \in 0..MaxTime : [js EXCEPT ![j].at = v] \in [Jobs -> JobType]
         /\ \A v \in States : [js EXCEPT ![j].state = v] \in [Jobs -> JobType]
         /\ \A v \in 0..MaxAttempts : [js EXCEPT ![j].attempt = v] \in [Jobs -> JobType]
         /\ \A v \in TaskStates : [js EXCEPT ![j].task = v] \in [Jobs -> JobType]
         /\ \A v \in Pcs : [js EXCEPT ![j].pc = v] \in [Jobs -> JobType]
         /\ \A v \in Rets : [js EXCEPT ![j].ret = v] \in [Jobs -> JobType]
BY DEF JobType, States, TaskStates, Pcs, Rets

LEMMA SetFields ==
  ASSUME NEW js \in [Jobs -> JobType], NEW j \in Jobs, NEW p \in Pcs
  PROVE  /\ \A r \in Rets : [js EXCEPT ![j].pc = p, ![j].ret = r] \in [Jobs -> JobType]
         /\ \A t \in TaskStates : [js EXCEPT ![j].task = t, ![j].pc = p] \in [Jobs -> JobType]
         /\ \A r \in Rets, a \in 0..MaxTime :
              [js EXCEPT ![j].pc = p, ![j].ret = r, ![j].at = a] \in [Jobs -> JobType]
<1>1. ASSUME NEW r \in Rets
      PROVE  [js EXCEPT ![j].pc = p, ![j].ret = r] \in [Jobs -> JobType]
  <2>1. PICK ks : ks = [js EXCEPT ![j].pc = p]
    OBVIOUS
  <2>2. ks \in [Jobs -> JobType]
    BY <2>1, SetField
  <2>3. [ks EXCEPT ![j].ret = r] \in [Jobs -> JobType]
    BY <2>2, SetField
  <2> QED
    BY <2>1, <2>3, Zenon
<1>2. ASSUME NEW t \in TaskStates
      PROVE  [js EXCEPT ![j].task = t, ![j].pc = p] \in [Jobs -> JobType]
  <2>1. PICK ks : ks = [js EXCEPT ![j].task = t]
    OBVIOUS
  <2>2. ks \in [Jobs -> JobType]
    BY <2>1, SetField
  <2>3. [ks EXCEPT ![j].pc = p] \in [Jobs -> JobType]
    BY <2>2, SetField
  <2> QED
    BY <2>1, <2>3, Zenon
<1>3. ASSUME NEW r \in Rets, NEW a \in 0..MaxTime
      PROVE  [js EXCEPT ![j].pc = p, ![j].ret = r, ![j].at = a] \in [Jobs -> JobType]
  <2>1. PICK ks : ks = [js EXCEPT ![j].pc = p, ![j].ret = r]
    OBVIOUS
  <2>2. ks \in [Jobs -> JobType]
    BY <1>1, <2>1, Zenon
  <2>3. [ks EXCEPT ![j].at = a] \in [Jobs -> JobType]
    BY <2>2, SetField
  <2> QED
    BY <2>1, <2>3, Zenon
<1> QED
  BY <1>1, <1>2, <1>3

LEMMA ShapeRiver ==
  ASSUME TypeOK, JobShape, NEW j \in Jobs, River(j) \/ Crash(j) \/ CleanCompleted(j)
  PROVE  TypeOK' /\ JobShape'
<1> USE SizeAssumption, BoundAssumption
    DEF TypeOK, JobShape, ShapeOf, UniqueStates, Live, Waiting, OpenTasks, messageVars, deliveryVars, bounds
<1>1. CASE Start(j)
  BY <1>1 DEF Start, JobType
<1>2. CASE Rescue(j)
  BY <1>2 DEF Rescue, AfterError, JobType
<1>3. CASE Crash(j)
  <2>1. job' \in [Jobs -> JobType]
    BY <1>3, SetFields DEF Crash, Pcs, Rets
  <2>2. JobShape'
    BY <1>3 DEF Crash, JobType
  <2> QED
    BY <1>3, <2>1, <2>2 DEF Crash, Fault
<1>4. CASE CleanCompleted(j)
  BY <1>4 DEF CleanCompleted, JobType
<1> QED
  BY <1>1, <1>2, <1>3, <1>4 DEF River

LEMMA ShapeAttempt ==
  ASSUME TypeOK, JobShape, NEW j \in Jobs,
         StartAttempt(j) \/ Fail(j) \/ FinishAttempt(j) \/ Return(j)
  PROVE  TypeOK' /\ JobShape'
<1> USE SizeAssumption, BoundAssumption
    DEF TypeOK, JobShape, ShapeOf, UniqueStates, Live, Waiting, OpenTasks, messageVars, deliveryVars, bounds
<1>1. CASE StartAttempt(j)
  <2>1. job' \in [Jobs -> JobType]
    <3>1. [job EXCEPT ![j].task = "running", ![j].pc = "run"] \in [Jobs -> JobType]
      BY SetFields DEF Pcs, TaskStates
    <3>2. [job EXCEPT ![j].pc = "return", ![j].ret = "error"] \in [Jobs -> JobType]
      BY SetFields DEF Pcs, Rets
    <3> QED
      BY <1>1, <3>1, <3>2, Zenon DEF StartAttempt
  <2>2. JobShape'
    BY <1>1 DEF StartAttempt, JobType
  <2> QED
    BY <1>1, <2>1, <2>2 DEF StartAttempt, Fault
<1>2. CASE Fail(j)
  <2>1. job' \in [Jobs -> JobType]
    BY <1>2, SetFields DEF Fail, Pcs, Rets
  <2>2. JobShape'
    BY <1>2 DEF Fail, JobType
  <2> QED
    BY <1>2, <2>1, <2>2 DEF Fail, Fault
<1>3. CASE FinishAttempt(j)
  <2>1. job' \in [Jobs -> JobType]
    <3>1. Completion(j) \in TaskStates
      BY DEF Completion, TaskStates
    <3>2. [job EXCEPT ![j].task = Completion(j), ![j].pc = "return"] \in [Jobs -> JobType]
      BY <3>1, SetFields DEF Pcs
    <3>3. [job EXCEPT ![j].pc = "return"] \in [Jobs -> JobType]
      BY SetField DEF Pcs
    <3> QED
      BY <1>3, <3>2, <3>3, Zenon DEF FinishAttempt
  <2>2. JobShape'
    BY <1>3 DEF FinishAttempt, JobType
  <2> QED
    BY <1>3, <2>1, <2>2 DEF FinishAttempt, Fault
<1>4. CASE Return(j)
  <2>1. PICK js : js = [job EXCEPT ![j].pc = "idle", ![j].ret = "nil"]
    OBVIOUS
  <2>2. js \in [Jobs -> JobType]
    BY <2>1, SetFields DEF Pcs, Rets
  <2>3. CASE job[j].ret = "nil"
    <3>1. job' = [js EXCEPT ![j].state = "completed"]
      BY <1>4, <2>1, <2>3, Zenon DEF Return
    <3>2. job' \in [Jobs -> JobType]
      BY <2>2, <3>1, SetField DEF States
    <3>3. JobShape'
      BY <2>1, <3>1 DEF JobType
    <3> QED
      BY <1>4, <3>2, <3>3 DEF Return
  <2>4. CASE job[j].ret = "error"
    <3>1. job' = [js EXCEPT ![j].state = AfterError(j)]
      BY <1>4, <2>1, <2>4, Zenon DEF Return
    <3>2. job' \in [Jobs -> JobType]
      BY <2>2, <3>1, SetField DEF States, AfterError
    <3>3. JobShape'
      BY <1>4, <2>1, <3>1 DEF JobType, AfterError, Return
    <3> QED
      BY <1>4, <3>2, <3>3 DEF Return
  <2>5. CASE job[j].ret = "snooze"
    <3>1. PICK ks : ks = [js EXCEPT ![j].state = "scheduled"]
      OBVIOUS
    <3>2. ks \in [Jobs -> JobType]
      BY <2>2, <3>1, SetField DEF States
    <3>3. job' = [ks EXCEPT ![j].attempt = job[j].attempt - 1]
      BY <1>4, <2>1, <2>5, <3>1, Zenon DEF Return
    <3>4. job[j].attempt - 1 \in 0..MaxAttempts /\ job[j].attempt - 1 < MaxAttempts
      BY <1>4 DEF Return, JobType
    <3>5. job' \in [Jobs -> JobType]
      BY <3>2, <3>3, <3>4, SetField
    <3>6. JobShape'
      BY <1>4, <2>1, <3>1, <3>3, <3>4 DEF JobType, Return
    <3> QED
      BY <1>4, <3>5, <3>6 DEF Return
  <2> QED
    BY <1>4, <2>3, <2>4, <2>5 DEF Return
<1> QED
  BY <1>1, <1>2, <1>3, <1>4

\* EnqueueTx adds at most a row that is typed, waits and is not at its end,
\* and leaves every row that is in use.
LEMMA ShapeRow ==
  ASSUME TypeOK, JobShape, NEW kind \in {"publish", "fanout"}, NEW after \in Nat,
         NEW at \in 0..MaxTime, NEW n \in Jobs, job[n].kind = "none"
  PROVE  /\ [job EXCEPT ![n] = Row(kind, after, at)] \in [Jobs -> JobType]
         /\ ShapeOf([job EXCEPT ![n] = Row(kind, after, at)])
<1>1. Row(kind, after, at) \in JobType
  BY RowType
<1>2. [job EXCEPT ![n] = Row(kind, after, at)] \in [Jobs -> JobType]
  BY <1>1 DEF TypeOK
<1>3. ShapeOf([job EXCEPT ![n] = Row(kind, after, at)])
  BY SizeAssumption DEF TypeOK, JobShape, ShapeOf, Row, Waiting
<1> QED
  BY <1>2, <1>3

LEMMA ShapeQueued ==
  ASSUME TypeOK, JobShape, Free(job) # {}, NEW kind \in {"publish", "fanout"},
         NEW after \in Nat, NEW at \in 0..MaxTime,
         NEW js \in {QueuedOnce(job, kind, after, at), Queued(job, kind, after, at)}
  PROVE  /\ js \in [Jobs -> JobType]
         /\ ShapeOf(js)
         /\ \A k \in Jobs : job[k].kind # "none" => js[k] = job[k]
<1>1. job \in [Jobs -> JobType]
  BY DEF TypeOK
<1>2. CASE js = job
  BY <1>1, <1>2 DEF JobShape
<1>3. ASSUME NEW n \in Jobs, job[n].kind = "none", js = [job EXCEPT ![n] = Row(kind, after, at)]
      PROVE  /\ js \in [Jobs -> JobType]
             /\ ShapeOf(js)
             /\ \A k \in Jobs : job[k].kind # "none" => js[k] = job[k]
  <2>1. js \in [Jobs -> JobType] /\ ShapeOf(js)
    BY <1>3, ShapeRow
  <2>2. \A k \in Jobs : job[k].kind # "none" => js[k] = job[k]
    BY <1>1, <1>3
  <2> QED
    BY <2>1, <2>2
<1> QED
  BY <1>1, <1>2, <1>3, QueuedFills, QueuedOnceFills

\* The end of a transaction moves its own job only.
LEMMA ShapeEnds ==
  ASSUME TypeOK, NEW js \in [Jobs -> JobType], ShapeOf(js), NEW j \in Jobs,
         js[j].state = "running", Ends(js, j)
  PROVE  /\ job' \in [Jobs -> JobType]
         /\ JobShape'
         /\ faults' \in 0..MaxFaults
<1>1. job' \in [Jobs -> JobType]
  <2>1. [js EXCEPT ![j].pc = "finish"] \in [Jobs -> JobType]
    BY SetField DEF Pcs
  <2>2. [js EXCEPT ![j].pc = "finish", ![j].ret = "error"] \in [Jobs -> JobType]
    BY SetFields DEF Pcs, Rets
  <2> QED
    BY <2>1, <2>2, Zenon DEF Ends
<1>2. JobShape'
  BY DEF Ends, JobShape, ShapeOf, JobType, Waiting
<1>3. faults' \in 0..MaxFaults
  BY BoundAssumption DEF Ends, Fault, TypeOK
<1> QED
  BY <1>1, <1>2, <1>3

LEMMA ShapePublish ==
  ASSUME TypeOK, JobShape, NEW j \in Jobs, Publish(j)
  PROVE  TypeOK' /\ JobShape'
<1> USE DEF messageVars, deliveryVars, bounds
<1>1. /\ job \in [Jobs -> JobType] /\ ShapeOf(job) /\ job[j].state = "running"
      /\ job[j].kind # "none"
  BY DEF TypeOK, JobShape, ShapeOf, Publish
<1>2. CASE PublishNothing(j)
  <2>1. job' \in [Jobs -> JobType]
    BY <1>1, <1>2, SetField DEF PublishNothing, Pcs
  <2>2. JobShape'
    BY <1>1, <1>2 DEF PublishNothing, JobShape, ShapeOf, JobType, Waiting
  <2> QED
    BY <1>2, <2>1, <2>2 DEF PublishNothing, Publish, TypeOK
<1>3. CASE PublishTooEarly(j)
  <2>1. job' \in [Jobs -> JobType]
    <3>1. [job EXCEPT ![j].pc = "finish", ![j].ret = "snooze", ![j].at = scheduled]
            \in [Jobs -> JobType]
      <4>1. scheduled \in 0..MaxTime
        BY DEF TypeOK
      <4> QED
        BY <1>1, <4>1, SetFields DEF Pcs, Rets
    <3> QED
      BY <1>3, <3>1, Zenon DEF PublishTooEarly
  <2>2. JobShape'
    BY <1>1, <1>3 DEF PublishTooEarly, JobShape, ShapeOf, JobType, Waiting
  <2> QED
    BY <1>3, <2>1, <2>2 DEF PublishTooEarly, Publish, TypeOK
<1>4. CASE PublishExpired(j)
  <2>1. job' \in [Jobs -> JobType] /\ JobShape' /\ faults' \in 0..MaxFaults
    BY <1>1, <1>4, ShapeEnds DEF PublishExpired
  <2> QED
    BY <1>4, <2>1 DEF PublishExpired, Publish, TypeOK
<1>5. CASE PublishNow(j)
  <2>1. PICK js : js = QueuedOnce(job, "fanout", 0, 0)
    OBVIOUS
  <2>2. js \in [Jobs -> JobType] /\ ShapeOf(js) /\ js[j] = job[j]
    BY <1>1, <1>5, <2>1, BoundAssumption, ShapeQueued DEF PublishNow
  <2>3. job' \in [Jobs -> JobType] /\ JobShape' /\ faults' \in 0..MaxFaults
    BY <1>1, <1>5, <2>1, <2>2, ShapeEnds DEF PublishNow
  <2> QED
    BY <1>5, <2>3 DEF PublishNow, Publish, TypeOK
<1> QED
  BY <1>2, <1>3, <1>4, <1>5 DEF Publish

LEMMA ShapeFanout ==
  ASSUME TypeOK, JobShape, NEW j \in Jobs, job[j].pc # "idle", FanoutBegin(j) \/ FanoutCommit(j)
  PROVE  TypeOK' /\ JobShape'
<1> USE DEF messageVars, deliveryVars, bounds
<1>1. /\ job \in [Jobs -> JobType] /\ ShapeOf(job) /\ job[j].state = "running"
      /\ job[j].kind # "none"
  BY DEF TypeOK, JobShape, ShapeOf
<1>2. CASE FanoutBegin(j)
  <2>1. CASE Ends(job, j)
    <3>1. job' \in [Jobs -> JobType] /\ JobShape' /\ faults' \in 0..MaxFaults
      BY <1>1, <2>1, ShapeEnds
    <3>2. run' \in {"none", "scheduled", "queued", "running", "completed",
                    "completed_with_failures", "cancelled", "expired"}
      BY <1>2 DEF FanoutBegin, TypeOK
    <3> QED
      BY <1>2, <3>1, <3>2 DEF FanoutBegin, TypeOK
  <2>2. ASSUME NEW p \in {"finish", "page"}, job' = [job EXCEPT ![j].pc = p],
               UNCHANGED <<run, faults>>
        PROVE  TypeOK' /\ JobShape'
    <3>1. job' \in [Jobs -> JobType]
      BY <1>1, <2>2, SetField DEF Pcs
    <3>2. JobShape'
      BY <1>1, <2>2 DEF JobShape, ShapeOf, JobType, Waiting
    <3> QED
      BY <1>2, <2>2, <3>1, <3>2 DEF FanoutBegin, TypeOK
  <2> QED
    BY <1>2, <2>1, <2>2 DEF FanoutBegin
<1>3. CASE FanoutCommit(j)
  <2>1. PICK js \in {job, QueuedOnce(job, "fanout", job[j].after + PageSize, 0)} : Ends(js, j)
    BY <1>3 DEF FanoutCommit
  <2>2. job[j].after + PageSize \in Nat
    BY <1>1, SizeAssumption DEF JobType
  <2>3. js \in [Jobs -> JobType] /\ ShapeOf(js) /\ js[j] = job[j]
    BY <1>1, <1>3, <2>1, <2>2, BoundAssumption, ShapeQueued DEF FanoutCommit
  <2>4. job' \in [Jobs -> JobType] /\ JobShape' /\ faults' \in 0..MaxFaults
    BY <1>1, <2>1, <2>3, ShapeEnds
  <2>5. /\ deliv' \in [Devices -> {"absent", "pending", "settled", "cancelled"}]
        /\ run' \in {"running", "completed"}
    BY <1>3 DEF FanoutCommit, TypeOK
  <2> QED
    BY <1>3, <2>4, <2>5 DEF FanoutCommit, TypeOK
<1> QED
  BY <1>2, <1>3

LEMMA ShapeDelivery ==
  ASSUME TypeOK, JobShape, NEW d \in Devices, Settle(d) \/ RefreshRead(d) \/ RefreshWrite(d)
  PROVE  TypeOK' /\ JobShape'
<1> USE DEF TypeOK, JobShape, ShapeOf, messageVars, deliveryVars, bounds
<1>1. CASE Settle(d)
  BY <1>1 DEF Settle, RefreshDue
<1>2. CASE RefreshRead(d)
  BY <1>2 DEF RefreshRead
<1>3. CASE RefreshWrite(d)
  BY <1>3 DEF RefreshWrite, NoRefresh
<1> QED
  BY <1>1, <1>2, <1>3

LEMMA ShapeTasks ==
  ASSUME TypeOK, JobShape, SyncTasks \/ Tick
  PROVE  TypeOK' /\ JobShape'
<1> USE BoundAssumption DEF messageVars, deliveryVars, bounds
<1>1. CASE SyncTasks
  <2>1. ASSUME NEW j \in Jobs PROVE TaskOf(j) \in TaskStates
    <3>1. job[j].task \in TaskStates
      BY DEF TypeOK, JobType, TaskStates
    <3> QED
      BY <3>1 DEF TaskOf, TaskStates, OpenTasks
  <2>2. job' \in [Jobs -> JobType]
    BY <1>1, <2>1 DEF SyncTasks, TypeOK, JobType, TaskStates
  <2>3. JobShape'
    BY <1>1 DEF SyncTasks, TypeOK, JobShape, ShapeOf, JobType, Waiting, OpenTasks
  <2> QED
    BY <1>1, <2>2, <2>3 DEF SyncTasks, TypeOK
<1>2. CASE Tick
  BY <1>2 DEF Tick, TypeOK, JobShape, ShapeOf
<1> QED
  BY <1>1, <1>2

LEMMA ShapeOperators ==
  ASSUME TypeOK, JobShape, Operators
  PROVE  TypeOK' /\ JobShape'
<1> USE BoundAssumption DEF messageVars, deliveryVars, bounds
<1>1. job \in [Jobs -> JobType] /\ ShapeOf(job)
  BY DEF TypeOK, JobShape
<1>2. CASE CreateMessage \/ UpdateMessage
  BY <1>2 DEF CreateMessage, UpdateMessage, TypeOK, JobShape
<1>3. CASE PublishMessage
  <2>1. /\ job' \in [Jobs -> JobType] /\ JobShape'
        /\ message' \in {"scheduled", "published"}
        /\ run' \in {"scheduled", "queued"}
        /\ recipients' \in {"pending", "delivered"}
    <3>1. scheduled \in 0..MaxTime
      BY DEF TypeOK
    <3> QED
      BY <1>3, <3>1, ShapeQueued DEF PublishMessage, JobShape
  <2> QED
    BY <1>3, <2>1 DEF PublishMessage, TypeOK
<1>4. CASE Submit
  <2>1. PICK s \in 1..MaxTime, e \in 1..(MaxTime + 1) :
          /\ scheduled' = s /\ expires' = e
          /\ run' = IF s > clock THEN "scheduled" ELSE "queued"
          /\ job' = QueuedOnce(job, "publish", 0, s)
    BY <1>4 DEF Submit
  <2>2. job' \in [Jobs -> JobType] /\ JobShape'
    BY <1>4, <2>1, ShapeQueued DEF Submit, JobShape
  <2> QED
    BY <1>4, <2>1, <2>2 DEF Submit, TypeOK
<1>5. CASE CancelMessage
  BY <1>5 DEF CancelMessage, TypeOK, JobShape
<1>6. CASE Cancel
  <2>1. job' \in [Jobs -> JobType]
    <3>1. \A j \in Jobs : [job[j] EXCEPT !.task = "cancelled"] \in JobType
      BY <1>1 DEF JobType
    <3> QED
      BY <1>1, <1>6, <3>1 DEF Cancel
  <2>2. JobShape'
    BY <1>1, <1>6 DEF Cancel, JobShape, ShapeOf, JobType, Waiting, OpenTasks
  <2> QED
    BY <1>6, <2>1, <2>2 DEF Cancel, TypeOK
<1>7. ASSUME NEW j \in Jobs, RetryTask(j) PROVE TypeOK' /\ JobShape'
  <2>1. job[j].kind \in {"publish", "fanout"}
    BY <1>1, <1>7 DEF RetryTask, ShapeOf, JobType
  <2>2. job' \in [Jobs -> JobType] /\ JobShape'
    BY <1>7, <2>1, ShapeQueued DEF RetryTask, JobShape
  <2> QED
    BY <1>7, <2>2 DEF RetryTask, TypeOK
<1> QED
  BY <1>2, <1>3, <1>4, <1>5, <1>6, <1>7 DEF Operators

\* Every step keeps the types and the shape of the jobs.
LEMMA ShapeStep == TypeOK /\ JobShape /\ [Next]_vars => TypeOK' /\ JobShape'
<1> SUFFICES ASSUME TypeOK, JobShape, [Next]_vars PROVE TypeOK' /\ JobShape'
  OBVIOUS
<1>1. CASE UNCHANGED vars
  BY <1>1 DEF vars, messageVars, deliveryVars, bounds, TypeOK, JobShape, ShapeOf
<1>2. ASSUME NEW j \in Jobs, Work(j) PROVE TypeOK' /\ JobShape'
  <2>1. job[j].pc # "idle"
    BY <1>2 DEF Work, StartAttempt, Publish, FanoutBegin, FanoutCommit, Fail, FinishAttempt, Return
  <2> QED
    BY <1>2, <2>1, ShapeAttempt, ShapePublish, ShapeFanout DEF Work
<1>3. ASSUME NEW j \in Jobs, River(j) \/ Crash(j) \/ CleanCompleted(j)
      PROVE  TypeOK' /\ JobShape'
  BY <1>3, ShapeRiver
<1> QED
  BY <1>1, <1>2, <1>3, ShapeDelivery, ShapeOperators, ShapeTasks DEF Next

\* Every variable keeps its type.
THEOREM TypeCorrect == Spec => []TypeOK
<1>1. Spec => [](TypeOK /\ JobShape)
  BY ShapeInit, ShapeStep, PTL DEF Spec
<1> QED
  BY <1>1, PTL

\* No message is published before its time, whatever the job was told.
THEOREM PublishedOnTime == Spec => NotEarly
<1>1. [Next]_vars => [message' = "published" /\ message # "published" => scheduled' <= clock]_vars
  BY DEF Next, Operators, Work, River, StartAttempt, Publish, PublishNothing, PublishTooEarly,
     PublishExpired, PublishNow, FanoutBegin, FanoutCommit, Fail, FinishAttempt, Return, Start,
     Rescue, Crash, CleanCompleted, Settle, RefreshRead, RefreshWrite, CreateMessage, UpdateMessage, PublishMessage,
     Submit, CancelMessage, Cancel, RetryTask, SyncTasks, Tick, messageVars, deliveryVars, vars
<1> QED
  BY <1>1, PTL DEF Spec, NotEarly

-----------------------------------------------------------------------------
(***************************************************************************)
(* Which workers refresh the run.                                          *)
(***************************************************************************)
LEMMA RefreshInit == Init => RefreshFits
BY DEF Init, RefreshFits, NoRefresh

\* The steps that leave the deliveries and their workers alone.
LEMMA StepKinds ==
  ASSUME [Next]_vars
  PROVE  \/ UNCHANGED deliveryVars
         \/ \E j \in Jobs : FanoutCommit(j)
         \/ \E d \in Devices : Settle(d) \/ RefreshRead(d) \/ RefreshWrite(d)
         \/ CancelMessage
BY DEF Next, Work, River, Operators, StartAttempt, Publish, FanoutBegin, Fail, FinishAttempt,
       Return, Start, Rescue, Crash, CleanCompleted, CreateMessage, UpdateMessage,
       PublishMessage, Submit, Cancel, RetryTask, SyncTasks, Tick, vars

LEMMA RefreshStep == TypeOK /\ RefreshFits /\ [Next]_vars => RefreshFits'
<1> SUFFICES ASSUME TypeOK, RefreshFits, [Next]_vars PROVE RefreshFits'
  OBVIOUS
<1>1. CASE UNCHANGED deliveryVars
  BY <1>1 DEF deliveryVars, RefreshFits
<1>2. ASSUME NEW j \in Jobs, FanoutCommit(j) PROVE RefreshFits'
  BY <1>2 DEF FanoutCommit, TypeOK, RefreshFits
<1>3. ASSUME NEW d \in Devices, Settle(d) PROVE RefreshFits'
  BY <1>3 DEF Settle, TypeOK, RefreshFits, RefreshDue
<1>4. ASSUME NEW d \in Devices, RefreshRead(d) PROVE RefreshFits'
  BY <1>4 DEF RefreshRead, TypeOK, RefreshFits, RefreshDue
<1>5. ASSUME NEW d \in Devices, RefreshWrite(d) PROVE RefreshFits'
  BY <1>5 DEF RefreshWrite, TypeOK, RefreshFits, NoRefresh
<1>6. CASE CancelMessage
  BY <1>6 DEF CancelMessage, TypeOK, RefreshFits
<1> QED
  BY <1>1, <1>2, <1>3, <1>4, <1>5, <1>6, StepKinds

-----------------------------------------------------------------------------
(***************************************************************************)
(* The story of the message: which jobs, deliveries and runs go with its   *)
(* status.                                                                 *)
(***************************************************************************)
Kept == Live \cup {"discarded"}

LEMMA StoryInit == Init => Story
BY DEF Init, Story, DraftIsAlone, PublishedReaches, EndedIsCancelled, NotFannedOut, PushNeeded,
       PageIsFanout, PublishDone, ScheduledHasJob, NoJob

\* Steps that touch jobs only and open or end none out of turn.
LEMMA StoryQuiet ==
  ASSUME Story, UNCHANGED <<message, recipients, run, push, deliv>>,
         \A k \in Jobs :
           /\ job'[k].kind = job[k].kind
           /\ job'[k].pc = "page" => \/ job[k].pc = "page"
                                     \/ job[k].kind = "fanout" /\ push = "on"
           /\ (/\ job[k].kind = "publish"
               /\ job'[k].pc \in {"finish", "return"}
               /\ job'[k].ret = "nil")
                => \/ job[k].pc \in {"finish", "return"} /\ job[k].ret = "nil"
                   \/ message # "scheduled"
           /\ job[k].kind = "publish" /\ job[k].state \in Kept
                => \/ job'[k].state \in Kept
                   \/ message # "scheduled"
  PROVE  Story'
BY DEF Story, DraftIsAlone, PublishedReaches, EndedIsCancelled, NotFannedOut, PushNeeded,
       PageIsFanout, PublishDone, ScheduledHasJob, HasJob, Kept

LEMMA StoryRiver ==
  ASSUME TypeOK, JobShape, Story, NEW j \in Jobs, River(j) \/ Crash(j) \/ CleanCompleted(j)
  PROVE  Story'
<1> USE StoryQuiet DEF Kept, Live, Waiting, TypeOK, JobType, messageVars, deliveryVars, bounds
<1>1. CASE Start(j)
  BY <1>1 DEF Start
<1>2. CASE Rescue(j)
  BY <1>2 DEF Rescue, AfterError
<1>3. CASE Crash(j)
  BY <1>3 DEF Crash
<1>4. CASE CleanCompleted(j)
  BY <1>4 DEF CleanCompleted
<1> QED
  BY <1>1, <1>2, <1>3, <1>4 DEF River

LEMMA StoryAttempt ==
  ASSUME TypeOK, JobShape, Story, NEW j \in Jobs,
         StartAttempt(j) \/ Fail(j) \/ FinishAttempt(j) \/ Return(j)
  PROVE  Story'
<1> USE StoryQuiet DEF Kept, Live, Waiting, TypeOK, JobType, messageVars, deliveryVars, bounds
<1>1. CASE StartAttempt(j)
  BY <1>1 DEF StartAttempt
<1>2. CASE Fail(j)
  BY <1>2 DEF Fail
<1>3. CASE FinishAttempt(j)
  BY <1>3 DEF FinishAttempt
<1>4. CASE Return(j)
  <2>1. job[j].kind = "publish" /\ job[j].ret = "nil" => message # "scheduled"
    BY <1>4 DEF Return, Story, PublishDone
  <2> QED
    BY <1>4, <2>1 DEF Return, AfterError
<1> QED
  BY <1>1, <1>2, <1>3, <1>4

\* After EnqueueTx and the end of the transaction: the other rows are as they
\* were, or one was inserted, and the job of the transaction keeps its kind.
LEMMA EndsKeeps ==
  ASSUME NEW js \in [Jobs -> JobType], NEW j \in Jobs, Ends(js, j)
  PROVE  /\ \A k \in Jobs : /\ job'[k].kind = js[k].kind
                           /\ job'[k].after = js[k].after
                           /\ job'[k].state = js[k].state
         /\ \A k \in Jobs \ {j} : job'[k] = js[k]
         /\ job'[j].pc = "finish"
         /\ job'[j].ret \in {js[j].ret, "error"}
BY DEF Ends, JobType

LEMMA StoryPublish ==
  ASSUME TypeOK, JobShape, Story, NEW j \in Jobs, Publish(j)
  PROVE  Story'
<1> USE DEF messageVars, deliveryVars, bounds
<1>1. /\ job \in [Jobs -> JobType] /\ job[j].state = "running" /\ job[j].kind = "publish"
      /\ job[j].pc = "run"
  BY DEF TypeOK, JobShape, ShapeOf, Publish
<1>2. CASE PublishNothing(j)
  BY <1>1, <1>2, StoryQuiet DEF PublishNothing, Publish, JobType
<1>3. CASE PublishTooEarly(j)
  BY <1>1, <1>3, StoryQuiet DEF PublishTooEarly, Publish, JobType
<1>4. CASE PublishExpired(j)
  <2>1. /\ \A k \in Jobs : job'[k].kind = job[k].kind /\ (k # j => job'[k] = job[k])
        /\ job'[j].pc = "finish"
    BY <1>1, <1>4, EndsKeeps DEF PublishExpired
  <2> QED
    BY <1>1, <1>4, <2>1
    DEF PublishExpired, Publish, Story, DraftIsAlone, PublishedReaches, EndedIsCancelled,
        NotFannedOut, PushNeeded, PageIsFanout, PublishDone, ScheduledHasJob
<1>5. CASE PublishNow(j)
  <2>1. PICK js : js = QueuedOnce(job, "fanout", 0, 0)
    OBVIOUS
  <2>2. /\ js \in [Jobs -> JobType]
        /\ \A k \in Jobs : js[k] = job[k] \/ js[k] = Row("fanout", 0, 0)
        /\ js[j] = job[j]
    BY <1>1, <1>5, <2>1, BoundAssumption, ShapeQueued, QueuedOnceFills DEF PublishNow
  <2>3. /\ \A k \in Jobs : k # j => job'[k] = job[k] \/ job'[k] = Row("fanout", 0, 0)
        /\ job'[j].pc = "finish"
    BY <1>1, <1>5, <2>1, <2>2, EndsKeeps DEF PublishNow
  <2>4. \A k \in Jobs : job'[k].pc = "page" => job[k].pc = "page" /\ job'[k] = job[k]
    BY <2>3 DEF Row
  <2> QED
    BY <1>1, <1>5, <2>4
    DEF PublishNow, Publish, Story, DraftIsAlone, PublishedReaches, EndedIsCancelled,
        NotFannedOut, PushNeeded, PageIsFanout, PublishDone, ScheduledHasJob
<1> QED
  BY <1>2, <1>3, <1>4, <1>5 DEF Publish

LEMMA StoryFanout ==
  ASSUME TypeOK, JobShape, Story, NEW j \in Jobs, FanoutBegin(j) \/ FanoutCommit(j)
  PROVE  Story'
<1> USE DEF messageVars, deliveryVars, bounds
<1>1. job \in [Jobs -> JobType] /\ job[j].kind = "fanout"
  BY DEF TypeOK, FanoutBegin, FanoutCommit, Story, PageIsFanout
<1>2. message \in {"published", "cancelled"} /\ run \notin {"cancelled", "expired"}
  BY <1>1 DEF TypeOK, Story, NotFannedOut
<1>3. CASE FanoutBegin(j)
  <2>1. CASE Ends(job, j)
    <3>1. /\ \A k \in Jobs : job'[k].kind = job[k].kind /\ (k # j => job'[k] = job[k])
          /\ job'[j].pc = "finish"
      BY <1>1, <2>1, EndsKeeps
    <3>2. \/ run' \in {run, "running"}
          \/ push # "on" /\ run' \in {"completed", "completed_with_failures"}
      BY <1>3 DEF FanoutBegin
    <3> QED
      BY <1>1, <1>2, <1>3, <3>1, <3>2
      DEF FanoutBegin, Story, DraftIsAlone, PublishedReaches, EndedIsCancelled,
          NotFannedOut, PushNeeded, PageIsFanout, PublishDone, ScheduledHasJob
  <2>2. CASE job' = [job EXCEPT ![j].pc = "finish"] /\ UNCHANGED run
    BY <1>1, <1>2, <1>3, <2>2, StoryQuiet DEF FanoutBegin, JobType
  <2>3. CASE job' = [job EXCEPT ![j].pc = "page"] /\ UNCHANGED run /\ push = "on"
    BY <1>1, <1>2, <1>3, <2>3, StoryQuiet DEF FanoutBegin, JobType
  <2> QED
    BY <1>3, <2>1, <2>2, <2>3 DEF FanoutBegin
<1>4. CASE FanoutCommit(j)
  <2>1. push = "on" /\ job[j].pc = "page"
    BY <1>4 DEF FanoutCommit, Story, PageIsFanout
  <2>2. PICK js \in {job, QueuedOnce(job, "fanout", job[j].after + PageSize, 0)} : Ends(js, j)
    BY <1>4 DEF FanoutCommit
  <2>3. job[j].after + PageSize \in Nat
    BY <1>1, SizeAssumption DEF JobType
  <2>4. /\ js \in [Jobs -> JobType]
        /\ \A k \in Jobs : js[k] = job[k] \/ js[k] = Row("fanout", job[j].after + PageSize, 0)
        /\ js[j] = job[j]
    <3>1. Free(job) # {} /\ 0 \in 0..MaxTime
      BY <1>4, BoundAssumption DEF FanoutCommit
    <3> QED
      BY <1>1, <2>2, <2>3, <3>1, ShapeQueued, QueuedOnceFills
  <2>5. /\ \A k \in Jobs : k # j => \/ job'[k] = job[k]
                                   \/ job'[k] = Row("fanout", job[j].after + PageSize, 0)
        /\ job'[j].pc = "finish" /\ job'[j].kind = "fanout"
    BY <1>1, <2>2, <2>4, EndsKeeps
  <2>6. \A k \in Jobs : job'[k].pc = "page" => job[k].pc = "page" /\ job'[k] = job[k]
    BY <2>5 DEF Row
  <2>7. run' \in {"running", "completed"}
        /\ ((\E d \in Devices : deliv'[d] # "absent") => run' = "running")
    BY <1>4 DEF FanoutCommit
  <2> QED
    BY <1>1, <1>2, <1>4, <2>1, <2>5, <2>6, <2>7
    DEF FanoutCommit, Story, DraftIsAlone, PublishedReaches, EndedIsCancelled,
        NotFannedOut, PushNeeded, PageIsFanout, PublishDone, ScheduledHasJob, Row
<1> QED
  BY <1>3, <1>4

LEMMA StoryDelivery ==
  ASSUME TypeOK, Story, RefreshFits, NEW d \in Devices, Settle(d) \/ RefreshRead(d) \/ RefreshWrite(d)
  PROVE  Story'
<1> USE DEF TypeOK, Story, DraftIsAlone, PublishedReaches, EndedIsCancelled, NotFannedOut,
            PushNeeded, PageIsFanout, PublishDone, ScheduledHasJob, HasJob, messageVars, bounds
<1>1. CASE Settle(d)
  BY <1>1 DEF Settle
<1>2. CASE RefreshRead(d)
  BY <1>2 DEF RefreshRead
<1>3. CASE RefreshWrite(d)
  <2>1. run' \in {"running", "completed"} /\ deliv[d] # "absent"
    BY <1>3 DEF RefreshWrite, RefreshFits
  <2> QED
    BY <1>3, <2>1 DEF RefreshWrite
<1> QED
  BY <1>1, <1>2, <1>3

LEMMA StoryTasks ==
  ASSUME TypeOK, Story, SyncTasks \/ Tick
  PROVE  Story'
<1>1. \A k \in Jobs : /\ job'[k].kind = job[k].kind
                      /\ job'[k].pc = job[k].pc
                      /\ job'[k].ret = job[k].ret
                      /\ job'[k].state = job[k].state
  BY DEF SyncTasks, Tick, TypeOK, JobType
<1> QED
  BY <1>1, StoryQuiet DEF SyncTasks, Tick, messageVars, deliveryVars, bounds

LEMMA StoryOperators ==
  ASSUME TypeOK, JobShape, Story, Operators
  PROVE  Story'
<1> USE DEF messageVars, deliveryVars, bounds
<1>1. job \in [Jobs -> JobType]
  BY DEF TypeOK
<1>2. CASE CreateMessage \/ UpdateMessage
  BY <1>2 DEF CreateMessage, UpdateMessage, Story, DraftIsAlone, PublishedReaches,
     EndedIsCancelled, NotFannedOut, PushNeeded, PageIsFanout, PublishDone, ScheduledHasJob,
     HasJob
<1>3. ASSUME NEW kind \in {"publish", "fanout"}, NEW at \in 0..MaxTime,
             message \in {"absent", "draft"}, Free(job) # {},
             job' = QueuedOnce(job, kind, 0, at), UNCHANGED <<push, deliv>>,
             \/ /\ message' = "scheduled" /\ kind = "publish"
                /\ run' \in {"scheduled", "queued"}
             \/ /\ message' = "published" /\ kind = "fanout"
                /\ recipients' = "delivered" /\ run' = "queued"
      PROVE  Story'
  <2>1. \A k \in Jobs : job[k].kind = "none" /\ job[k].pc # "page"
    BY <1>3 DEF Story, DraftIsAlone, PageIsFanout
  <2>2. \A d \in Devices : deliv[d] = "absent"
    BY <1>3 DEF Story, NotFannedOut
  <2>3. PICK n \in Jobs : job' = [job EXCEPT ![n] = Row(kind, 0, at)]
    BY <1>1, <1>3, <2>1, QueuedOnceFills
  <2>4. /\ job'[n] = Row(kind, 0, at)
        /\ \A k \in Jobs : k # n => job'[k].kind = "none" /\ job'[k].pc # "page"
    BY <1>1, <2>1, <2>3
  <2>5. job'[n].kind = kind /\ job'[n].state \in Kept /\ job'[n].pc = "idle"
    BY <2>4 DEF Row, Kept, Live, Waiting
  <2> QED
    BY <1>3, <2>2, <2>4, <2>5
    DEF Story, DraftIsAlone, PublishedReaches, EndedIsCancelled, NotFannedOut, PushNeeded,
        PageIsFanout, PublishDone, ScheduledHasJob, HasJob, Kept
<1>4. CASE PublishMessage
  <2>1. message = "draft" /\ scheduled \in 0..MaxTime /\ clock \in 1..(MaxTime + 1)
    BY <1>4 DEF PublishMessage, Story, DraftIsAlone, TypeOK
  <2>2. MaxTime \in Nat
    BY BoundAssumption
  <2>3. CASE scheduled > clock
    BY <1>3, <1>4, <2>1, <2>2, <2>3 DEF PublishMessage
  <2>4. CASE ~(scheduled > clock)
    BY <1>3, <1>4, <2>1, <2>2, <2>4 DEF PublishMessage
  <2> QED
    BY <1>4, <2>3, <2>4 DEF PublishMessage
<1>5. CASE Submit
  BY <1>3, <1>5 DEF Submit
<1>6. CASE CancelMessage
  BY <1>6 DEF CancelMessage, Story, DraftIsAlone, PublishedReaches, EndedIsCancelled,
     NotFannedOut, PushNeeded, PageIsFanout, PublishDone, ScheduledHasJob
<1>7. CASE Cancel
  <2>1. \A k \in Jobs : /\ job'[k].kind = job[k].kind
                        /\ job'[k].pc = job[k].pc
                        /\ job'[k].ret = job[k].ret
    BY <1>1, <1>7 DEF Cancel, JobType
  <2> QED
    BY <1>7, <2>1 DEF Cancel, Story, DraftIsAlone, PublishedReaches, EndedIsCancelled,
       NotFannedOut, PushNeeded, PageIsFanout, PublishDone, ScheduledHasJob
<1>8. ASSUME NEW j \in Jobs, RetryTask(j) PROVE Story'
  <2>1. job[j].kind \in {"publish", "fanout"}
    BY <1>1, <1>8 DEF RetryTask, JobShape, ShapeOf, JobType
  <2>2. PICK n \in Jobs : /\ job[n].kind = "none"
                         /\ job' = [job EXCEPT ![n] = Row(job[j].kind, 0, 0)]
    BY <1>1, <1>8, QueuedFills DEF RetryTask
  <2>3. /\ \A k \in Jobs \ {n} : job'[k] = job[k]
        /\ job'[n].kind = job[j].kind /\ job'[n].pc = "idle"
    BY <1>1, <2>2 DEF Row
  <2>4. job[j].kind = "fanout" <=> message = "published"
    BY <1>8, <2>1 DEF RetryTask
  <2>5. message = "scheduled" => \E k \in Jobs : job'[k].kind = "publish" /\ job'[k].state \in Kept
    BY <2>2, <2>3 DEF Story, ScheduledHasJob, HasJob, Kept
  <2> QED
    BY <1>8, <2>1, <2>3, <2>4, <2>5
    DEF RetryTask, Story, DraftIsAlone, PublishedReaches, EndedIsCancelled, NotFannedOut,
        PushNeeded, PageIsFanout, PublishDone, ScheduledHasJob, HasJob, Kept
<1> QED
  BY <1>2, <1>4, <1>5, <1>6, <1>7, <1>8 DEF Operators

LEMMA StoryStep == TypeOK /\ JobShape /\ RefreshFits /\ Story /\ [Next]_vars => Story'
<1> SUFFICES ASSUME TypeOK, JobShape, RefreshFits, Story, [Next]_vars PROVE Story'
  OBVIOUS
<1>1. CASE UNCHANGED vars
  BY <1>1, StoryQuiet DEF vars, messageVars, deliveryVars, bounds
<1>2. ASSUME NEW j \in Jobs, Work(j) PROVE Story'
  BY <1>2, StoryAttempt, StoryPublish, StoryFanout DEF Work
<1>3. ASSUME NEW j \in Jobs, River(j) \/ Crash(j) \/ CleanCompleted(j) PROVE Story'
  BY <1>3, StoryRiver
<1> QED
  BY <1>1, <1>2, <1>3, StoryDelivery, StoryOperators, StoryTasks DEF Next

\* In every reachable state the jobs, deliveries and run fit the status of the
\* message.
THEOREM StoryHolds == Spec => [](TypeOK /\ JobShape /\ RefreshFits /\ Story)
  BY ShapeInit, ShapeStep, RefreshInit, RefreshStep, StoryInit, StoryStep, PTL DEF Spec

\* A message that waits for its time has a publish job, or one River gave up.
THEOREM ScheduledKeepsJob == Spec => []ScheduledHasJob
<1>1. Story => ScheduledHasJob
  BY DEF Story
<1> QED
  BY <1>1, StoryHolds, PTL

\* A run with a delivery that waits is closed by nothing but a refresh that
\* counted before that delivery was there.
THEOREM RunKeptOpen == Spec => RunStaysOpen
<1> DEFINE Unseen(d) == \E w \in Devices : /\ snap[w].says = "completed"
                                          /\ d \notin snap[w].of
                                          /\ snap'[w] = NoRefresh
           Open(d) == deliv'[d] = "pending" /\ run' # "running" =>
                        (deliv[d] = "pending" /\ run # "running") \/ Unseen(d)
<1>1. TypeOK /\ JobShape /\ RefreshFits /\ Story /\ [Next]_vars => \A d \in Devices : Open(d)
  <2> SUFFICES ASSUME TypeOK, JobShape, Story, RefreshFits, [Next]_vars, NEW d \in Devices,
                      deliv'[d] = "pending", run' # "running"
               PROVE  (deliv[d] = "pending" /\ run # "running") \/ Unseen(d)
    OBVIOUS
  <2> USE DEF messageVars, deliveryVars, bounds
  <2>1. CASE UNCHANGED run /\ deliv[d] = deliv'[d]
    BY <2>1
  <2>2. ASSUME NEW j \in Jobs, FanoutCommit(j) PROVE FALSE
    BY <2>2 DEF FanoutCommit
  <2>3. ASSUME NEW e \in Devices, RefreshWrite(e) PROVE Unseen(d)
    <3>1. snap[e].says = "completed" /\ snap'[e] = NoRefresh /\ deliv[d] = "pending"
      BY <2>3 DEF RefreshWrite, TypeOK
    <3>2. d \notin snap[e].of
      BY <3>1 DEF RefreshFits
    <3> QED
      BY <3>1, <3>2
  <2>4. ASSUME NEW e \in Devices, Settle(e) \/ RefreshRead(e)
        PROVE  UNCHANGED run /\ deliv[d] = deliv'[d]
    BY <2>4 DEF Settle, RefreshRead, TypeOK
  <2>5. CASE CancelMessage
    <3>1. UNCHANGED run /\ deliv[d] = deliv'[d]
      BY <2>5 DEF CancelMessage
    <3> QED
      BY <2>1, <3>1
  \* The other steps that write the run meet no delivery or leave it running.
  <2>6. CASE UNCHANGED deliveryVars /\ run' # run
    <3>1. push = "on" /\ message \notin {"absent", "draft", "scheduled"}
      BY <2>6 DEF Story, PushNeeded, NotFannedOut
    <3>2. ASSUME NEW j \in Jobs, Publish(j) \/ FanoutBegin(j) PROVE FALSE
      BY <2>6, <3>1, <3>2 DEF Publish, PublishNothing, PublishTooEarly, PublishExpired,
         PublishNow, FanoutBegin
    <3>3. ASSUME NEW j \in Jobs, RetryTask(j) PROVE FALSE
      BY <3>3 DEF RetryTask
    <3>4. ASSUME NEW j \in Jobs,
                 \/ StartAttempt(j) \/ Fail(j) \/ FinishAttempt(j) \/ Return(j)
                 \/ River(j) \/ Crash(j) \/ CleanCompleted(j)
          PROVE  UNCHANGED run
      BY <3>4 DEF StartAttempt, Fail, FinishAttempt, Return, River, Start, Rescue, Crash,
         CleanCompleted
    <3>5. ASSUME PublishMessage \/ Submit \/ Cancel PROVE FALSE
      BY <3>1, <3>5 DEF PublishMessage, Submit, Cancel, Story, DraftIsAlone
    <3>6. ASSUME CreateMessage \/ UpdateMessage \/ SyncTasks \/ Tick PROVE UNCHANGED run
      BY <3>6 DEF CreateMessage, UpdateMessage, SyncTasks, Tick
    <3> QED
      BY <2>2, <2>3, <2>4, <2>5, <2>6, <3>2, <3>3, <3>4, <3>5, <3>6
      DEF Next, Work, Operators, vars
  <2>7. CASE UNCHANGED deliveryVars /\ run' = run
    BY <2>1, <2>7
  <2> QED
    BY <2>1, <2>2, <2>3, <2>4, <2>5, <2>6, <2>7, StepKinds
<1>2. TypeOK /\ JobShape /\ RefreshFits /\ Story /\ [Next]_vars =>
        [\A d \in Devices : deliv'[d] = "pending" /\ run' # "running" =>
           \/ deliv[d] = "pending" /\ run # "running"
           \/ \E w \in Devices : snap[w].says = "completed" /\ d \notin snap[w].of
                                /\ snap'[w] = NoRefresh]_vars
  BY <1>1
<1> QED
  BY <1>2, StoryHolds, PTL DEF Spec, RunStaysOpen

\* No job, retry or refresh takes a cancelled message back, nor the run of one
\* that ended with it: nothing of it was fanned out, so nothing is counted.
THEOREM CancelStays == Spec => CancelFinal
<1>1. TypeOK /\ Story /\ RefreshFits /\ [Next]_vars =>
        [message = "cancelled" => /\ message' = "cancelled"
                                  /\ run \in {"cancelled", "expired"} => run' = run]_vars
  <2> SUFFICES ASSUME TypeOK, Story, RefreshFits, Next, message = "cancelled"
               PROVE  /\ message' = "cancelled"
                      /\ run \in {"cancelled", "expired"} => run' = run
    OBVIOUS
  <2>1. run \in {"cancelled", "expired"} =>
          /\ \A j \in Jobs : job[j].kind # "fanout" /\ job[j].pc # "page"
          /\ \A d \in Devices : deliv[d] = "absent" /\ snap[d].says = "nothing"
    BY DEF Story, NotFannedOut, PageIsFanout, RefreshFits
  <2>2. ASSUME NEW j \in Jobs, Work(j)
        PROVE  /\ message' = "cancelled"
               /\ run \in {"cancelled", "expired"} => run' = run
    BY <2>1, <2>2 DEF Work, StartAttempt, Publish, PublishNothing, PublishTooEarly, PublishExpired,
       PublishNow, FanoutBegin, FanoutCommit, Fail, FinishAttempt, Return, messageVars, deliveryVars
  <2>3. ASSUME NEW j \in Jobs, RetryTask(j) PROVE FALSE
    BY <2>3 DEF RetryTask
  <2> QED
    BY <2>1, <2>2, <2>3 DEF Next, River, Start, Rescue, Crash, CleanCompleted, Settle, RefreshRead, RefreshWrite,
       Operators, CreateMessage, UpdateMessage, PublishMessage, Submit, CancelMessage, Cancel,
       SyncTasks, Tick, messageVars, deliveryVars
<1> QED
  BY <1>1, StoryHolds, PTL DEF Spec, CancelFinal

-----------------------------------------------------------------------------
(***************************************************************************)
(* The chain of pages reaches every device.                                *)
(***************************************************************************)
LEMMA ChainInit == Init => Chain
BY DEF Init, Chain, FollowsPages, FansOut, NoJob

\* Steps that insert no job and let none of a message that fans out be done.
LEMMA ChainQuiet ==
  ASSUME Chain, FansOut' => FansOut,
         \A d \in Devices : deliv[d] # "absent" => deliv'[d] # "absent",
         \A k \in Jobs : /\ job'[k].kind = job[k].kind
                         /\ job'[k].after = job[k].after
                         /\ FansOut' /\ job[k].kind = "fanout" /\ Done(k)' => Done(k)
  PROVE  Chain'
BY DEF Chain, FollowsPages, Later, AllReached

\* A first page is added to what there is.
LEMMA ChainRow ==
  ASSUME TypeOK, Chain, FansOut' => FansOut, UNCHANGED deliv, NEW n \in Jobs,
         job[n].kind = "none", NEW kind, NEW at,
         job' = [job EXCEPT ![n] = Row(kind, 0, at)]
  PROVE  Chain'
<1>1. \A k \in Jobs : k # n => job'[k] = job[k]
  BY DEF TypeOK
<1>2. job'[n].after = 0 /\ ~Done(n)'
  BY DEF TypeOK, Row, Done
<1>3. \A d \in Devices : ~(d <= 0)
  BY DEF Devices
<1>4. FollowsPages'
  BY <1>1, <1>2, <1>3 DEF Chain, FollowsPages
<1>5. FansOut' => \E j \in Jobs : job'[j].kind = "fanout"
  BY <1>1 DEF Chain
<1>6. FansOut' => \A j \in Jobs : job'[j].kind = "fanout" /\ Done(j)' => AllReached' \/ Later(j)'
  BY <1>1, <1>2 DEF Chain, Later, Done, AllReached
<1> QED
  BY <1>4, <1>5, <1>6 DEF Chain

LEMMA ChainRiver ==
  ASSUME TypeOK, JobShape, Chain, NEW j \in Jobs, River(j) \/ Crash(j) \/ CleanCompleted(j)
  PROVE  Chain'
<1> USE ChainQuiet DEF FansOut, Expired, Done, TypeOK, JobType, JobShape, ShapeOf, messageVars, deliveryVars, bounds
<1>1. CASE Start(j)
  BY <1>1 DEF Start, Waiting
<1>2. CASE Rescue(j)
  BY <1>2 DEF Rescue, AfterError
<1>3. CASE Crash(j)
  BY <1>3 DEF Crash
<1>4. CASE CleanCompleted(j)
  BY <1>4 DEF CleanCompleted
<1> QED
  BY <1>1, <1>2, <1>3, <1>4 DEF River

LEMMA ChainAttempt ==
  ASSUME TypeOK, JobShape, Chain, NEW j \in Jobs,
         StartAttempt(j) \/ Fail(j) \/ FinishAttempt(j) \/ Return(j)
  PROVE  Chain'
<1> USE ChainQuiet DEF FansOut, Expired, Done, TypeOK, JobType, JobShape, ShapeOf, messageVars, deliveryVars, bounds
<1>1. CASE StartAttempt(j)
  BY <1>1 DEF StartAttempt
<1>2. CASE Fail(j)
  BY <1>2 DEF Fail
<1>3. CASE FinishAttempt(j)
  BY <1>3 DEF FinishAttempt
<1>4. CASE Return(j)
  BY <1>4 DEF Return, AfterError
<1> QED
  BY <1>1, <1>2, <1>3, <1>4

LEMMA ChainTasks ==
  ASSUME TypeOK, Chain, SyncTasks \/ Tick
  PROVE  Chain'
<1>1. \A k \in Jobs : /\ job'[k].kind = job[k].kind
                      /\ job'[k].after = job[k].after
                      /\ job'[k].pc = job[k].pc
                      /\ job'[k].ret = job[k].ret
                      /\ job'[k].state = job[k].state
  BY DEF SyncTasks, Tick, TypeOK, JobType
<1>2. FansOut' => FansOut
  BY BoundAssumption DEF SyncTasks, Tick, FansOut, Expired, TypeOK, messageVars, deliveryVars
<1> QED
  BY <1>1, <1>2, ChainQuiet DEF SyncTasks, Tick, Done, deliveryVars

LEMMA ChainDelivery ==
  ASSUME TypeOK, Chain, NEW d \in Devices, Settle(d) \/ RefreshRead(d) \/ RefreshWrite(d)
  PROVE  Chain'
BY ChainQuiet DEF Settle, RefreshRead, RefreshWrite, TypeOK, FansOut, Expired, Done, messageVars, deliveryVars

\* The publication inserts the job of the first page into an empty chain.
LEMMA ChainStart ==
  ASSUME TypeOK, NEW n \in Jobs, NEW at, \A k \in Jobs : job[k].kind # "fanout",
         job'[n] = Row("fanout", 0, at), \A k \in Jobs : job'[k].kind = "fanout" => k = n
  PROVE  Chain'
<1>1. job'[n].kind = "fanout" /\ job'[n].after = 0 /\ ~Done(n)'
  BY DEF Row, Done
<1>2. \A d \in Devices : ~(d <= 0)
  BY DEF Devices
<1> QED
  BY <1>1, <1>2 DEF Chain, FollowsPages

LEMMA ChainPublish ==
  ASSUME TypeOK, JobShape, Story, Chain, NEW j \in Jobs, Publish(j)
  PROVE  Chain'
<1> USE DEF messageVars, deliveryVars, bounds
<1>1. /\ job \in [Jobs -> JobType] /\ job[j].kind = "publish"
      /\ UNCHANGED <<push, deliv, clock>>
  BY DEF TypeOK, Publish
<1>2. CASE PublishNothing(j) \/ PublishTooEarly(j)
  BY <1>1, <1>2, ChainQuiet
     DEF PublishNothing, PublishTooEarly, JobType, Done, FansOut, Expired
<1>3. CASE PublishExpired(j)
  <2>1. ~FansOut'
    BY <1>3 DEF PublishExpired, FansOut
  <2>2. \A k \in Jobs : job'[k].kind = job[k].kind /\ job'[k].after = job[k].after
    BY <1>1, <1>3, EndsKeeps DEF PublishExpired
  <2> QED
    BY <1>1, <2>1, <2>2, ChainQuiet
<1>4. CASE PublishNow(j)
  <2>1. \A k \in Jobs : job[k].kind # "fanout"
    BY <1>4 DEF PublishNow, Story, NotFannedOut
  <2>2. PICK js : js = QueuedOnce(job, "fanout", 0, 0)
    OBVIOUS
  <2>3. PICK n \in Jobs : job[n].kind = "none" /\ js = [job EXCEPT ![n] = Row("fanout", 0, 0)]
    BY <1>1, <1>4, <2>1, <2>2, QueuedOnceFills DEF PublishNow
  <2>4. js \in [Jobs -> JobType]
    BY <1>4, <2>2, BoundAssumption, ShapeQueued DEF PublishNow
  <2>5. n # j /\ js[n] = Row("fanout", 0, 0) /\ \A k \in Jobs : k # n => js[k] = job[k]
    BY <1>1, <2>3
  <2>6. job'[n] = Row("fanout", 0, 0) /\ \A k \in Jobs : job'[k].kind = js[k].kind
    BY <1>4, <2>2, <2>4, <2>5, EndsKeeps DEF PublishNow
  <2> QED
    BY <2>1, <2>5, <2>6, ChainStart
<1> QED
  BY <1>2, <1>3, <1>4 DEF Publish

LEMMA ChainOperators ==
  ASSUME TypeOK, JobShape, Story, Chain, Operators
  PROVE  Chain'
<1> USE DEF messageVars, deliveryVars, bounds
<1>1. job \in [Jobs -> JobType]
  BY DEF TypeOK
<1>2. CASE CreateMessage \/ UpdateMessage
  BY <1>2, ChainQuiet DEF CreateMessage, UpdateMessage, FansOut, Done
<1>3. ASSUME NEW kind \in {"publish", "fanout"}, NEW at, message \in {"absent", "draft"},
             Free(job) # {}, job' = QueuedOnce(job, kind, 0, at),
             kind = "publish" => message' = "scheduled"
      PROVE  Chain'
  <2>1. \A k \in Jobs : job[k].kind = "none"
    BY <1>3 DEF Story, DraftIsAlone
  <2>2. PICK n \in Jobs : job' = [job EXCEPT ![n] = Row(kind, 0, at)]
    BY <1>1, <1>3, <2>1, QueuedOnceFills
  <2>3. job'[n] = Row(kind, 0, at) /\ \A k \in Jobs : k # n => job'[k].kind = "none"
    BY <1>1, <2>1, <2>2
  <2>4. CASE kind = "fanout"
    BY <2>1, <2>3, <2>4, ChainStart
  <2>5. CASE kind = "publish"
    <3>1. \A k \in Jobs : job'[k].kind # "fanout"
      BY <2>3, <2>5 DEF Row
    <3> QED
      BY <1>3, <2>5, <3>1 DEF Chain, FollowsPages, FansOut
  <2> QED
    BY <2>4, <2>5
<1>4. CASE PublishMessage
  <2>1. message = "draft"
    BY <1>4 DEF PublishMessage, Story, DraftIsAlone
  <2> QED
    BY <1>3, <1>4, <2>1 DEF PublishMessage
<1>5. CASE Submit
  BY <1>3, <1>5 DEF Submit
<1>6. CASE CancelMessage
  <2>1. \A d \in Devices : deliv[d] # "absent" => deliv'[d] # "absent"
    BY <1>6 DEF CancelMessage
  <2>2. ~FansOut' /\ UNCHANGED job
    BY <1>6 DEF CancelMessage, FansOut
  <2> QED
    BY <2>1, <2>2, ChainQuiet
<1>7. CASE Cancel
  <2>1. \A k \in Jobs : job'[k].kind = job[k].kind /\ job'[k].after = job[k].after
    BY <1>1, <1>7 DEF Cancel, JobType
  <2> QED
    BY <1>7, <2>1, ChainQuiet DEF Cancel, FansOut
<1>8. ASSUME NEW j \in Jobs, RetryTask(j) PROVE Chain'
  <2>1. PICK n \in Jobs : /\ job[n].kind = "none"
                         /\ job' = [job EXCEPT ![n] = Row(job[j].kind, 0, 0)]
    BY <1>1, <1>8, QueuedFills DEF RetryTask
  <2>2. (FansOut' => FansOut) /\ UNCHANGED deliv
    BY <1>8 DEF RetryTask, FansOut, Expired
  <2> QED
    BY <2>1, <2>2, ChainRow
<1> QED
  BY <1>2, <1>4, <1>5, <1>6, <1>7, <1>8 DEF Operators

LEMMA ChainFanoutBegin ==
  ASSUME TypeOK, Story, Chain, NEW j \in Jobs, FanoutBegin(j)
  PROVE  Chain'
<1> USE DEF messageVars, deliveryVars, bounds
<1>1. /\ job \in [Jobs -> JobType] /\ job[j].pc = "run"
      /\ UNCHANGED <<message, expires, push, deliv, clock>>
  BY DEF TypeOK, FanoutBegin
<1>2. CASE Ends(job, j) /\ ~FansOut
  <2>1. \A k \in Jobs : job'[k].kind = job[k].kind /\ job'[k].after = job[k].after
    BY <1>1, <1>2, EndsKeeps
  <2> QED
    BY <1>1, <1>2, <2>1, ChainQuiet DEF FansOut, Expired
<1>3. CASE job' = [job EXCEPT ![j].pc = "finish"] /\ ~FansOut
  BY <1>1, <1>3, ChainQuiet DEF FansOut, Expired, JobType
<1>4. CASE job' = [job EXCEPT ![j].pc = "page"]
  BY <1>1, <1>4, ChainQuiet DEF FansOut, Expired, JobType, Done
<1> QED
  BY <1>2, <1>3, <1>4 DEF FanoutBegin, FansOut

\* A page that commits: full, it leaves the devices up to its end reached and a
\* job behind it; not full, it was the last one.
LEMMA ChainFanoutCommit ==
  ASSUME TypeOK, JobShape, Story, Chain, NEW j \in Jobs, FanoutCommit(j)
  PROVE  Chain'
<1> DEFINE end == job[j].after + PageSize
           full == end \in Page(job[j].after)
<1>1. /\ job \in [Jobs -> JobType] /\ job[j].kind = "fanout" /\ job[j].pc = "page"
      /\ UNCHANGED <<message, expires, push, clock>>
      /\ job[j].after \in Nat /\ end \in Nat /\ job[j].after < end
  BY SizeAssumption DEF TypeOK, JobType, FanoutCommit, Story, PageIsFanout, messageVars, deliveryVars
<1>2. /\ \A d \in Devices : deliv[d] # "absent" => deliv'[d] # "absent"
      /\ \A d \in Page(job[j].after) : deliv'[d] # "absent"
  BY DEF FanoutCommit, TypeOK, Page
<1>3. full => \A d \in Devices : d <= end => deliv'[d] # "absent"
  <2> SUFFICES ASSUME full, NEW d \in Devices, d <= end PROVE deliv'[d] # "absent"
    OBVIOUS
  <2>1. CASE d <= job[j].after
    BY <1>1, <1>2, <2>1 DEF Chain, FollowsPages
  <2>2. CASE ~(d <= job[j].after)
    <3>1. job[j].after < d
      BY <1>1, <2>2 DEF Devices
    <3>2. d \in Page(job[j].after)
      BY <3>1 DEF Page
    <3> QED
      BY <1>2, <3>2
  <2> QED
    BY <2>1, <2>2
<1>4. FansOut' /\ ~full => AllReached'
  <2> SUFFICES ASSUME FansOut, ~full, NEW d \in Devices PROVE deliv'[d] # "absent"
    BY <1>1 DEF FansOut, Expired, AllReached
  <2>1. recipients = "delivered"
    BY DEF Story, PublishedReaches, FansOut
  <2>2. end \notin Devices
    BY <1>1, <2>1 DEF Page
  <2>3. d \in Nat /\ d <= end
    BY <1>1, <2>2, SizeAssumption DEF Devices
  <2>4. CASE d <= job[j].after
    BY <1>1, <1>2, <2>4 DEF Chain, FollowsPages
  <2>5. CASE ~(d <= job[j].after)
    <3>1. d \in Page(job[j].after)
      BY <1>1, <2>1, <2>3, <2>5 DEF Page
    <3> QED
      BY <1>2, <3>1
  <2> QED
    BY <2>4, <2>5
<1>5. PICK js : /\ js = IF full THEN QueuedOnce(job, "fanout", end, 0) ELSE job
                /\ Ends(js, j)
  BY DEF FanoutCommit
<1>6. js \in [Jobs -> JobType]
  <2>1. Free(job) # {} /\ 0 \in 0..MaxTime
    BY BoundAssumption DEF FanoutCommit
  <2> QED
    BY <1>1, <1>5, <2>1, ShapeQueued
<1>7. \A k \in Jobs : \/ js[k] = job[k]
                      \/ full /\ js[k] = Row("fanout", end, 0) /\ job[k].kind = "none"
  <2>1. Free(job) # {}
    BY DEF FanoutCommit
  <2> QED
    BY <1>1, <1>5, <2>1, QueuedOnceFills
<1>8. full => \E m \in Jobs : js[m].kind = "fanout" /\ js[m].after = end
  <2>1. Free(job) # {}
    BY DEF FanoutCommit
  <2> QED
    BY <1>1, <1>5, <2>1, QueuedOnceFills DEF Row
<1>9. /\ js[j] = job[j]
      /\ \A k \in Jobs : job'[k].kind = js[k].kind /\ job'[k].after = js[k].after
      /\ \A k \in Jobs : k # j => job'[k] = js[k]
  BY <1>1, <1>5, <1>6, <1>7, EndsKeeps
<1>10. FollowsPages'
  <2> SUFFICES ASSUME NEW k \in Jobs, job'[k].kind = "fanout",
                      NEW d \in Devices, d <= job'[k].after
               PROVE  deliv'[d] # "absent"
    BY DEF FollowsPages
  <2>1. CASE js[k] = job[k]
    BY <1>2, <1>9, <2>1 DEF Chain, FollowsPages
  <2>2. CASE full /\ js[k] = Row("fanout", end, 0)
    BY <1>3, <1>9, <2>2 DEF Row
  <2> QED
    BY <1>7, <2>1, <2>2
\* A row that was not done stays so; a new one is not done.
<1>11. \A k \in Jobs : k # j /\ Done(k)' => js[k] = job[k] /\ Done(k)
  BY <1>7, <1>9 DEF Done, Row
<1>12. \A k \in Jobs : k # j /\ job[k].kind = "fanout" /\ ~Done(k)
                         => ~Done(k)' /\ job'[k].kind = "fanout" /\ job'[k].after = job[k].after
  BY <1>7, <1>9, <1>11
<1>13. FansOut' => AllReached' \/ \E k \in Jobs : /\ job'[k].kind = "fanout"
                                              /\ ~Done(k)'
                                              /\ end <= job'[k].after
  <2> SUFFICES ASSUME FansOut, FansOut', full
               PROVE  AllReached' \/ \E k \in Jobs : /\ job'[k].kind = "fanout"
                                                   /\ ~Done(k)'
                                                   /\ end <= job'[k].after
    BY <1>1, <1>4 DEF FansOut, Expired
  <2>1. PICK m \in Jobs : js[m].kind = "fanout" /\ js[m].after = end
    BY <1>8
  <2>2. m # j /\ job'[m].kind = "fanout" /\ job'[m].after = end
    BY <1>1, <1>9, <2>1
  <2>3. CASE ~Done(m)'
    BY <1>1, <2>2, <2>3
  <2>4. CASE Done(m)'
    <3>1. job[m].kind = "fanout" /\ job[m].after = end /\ Done(m)
      BY <1>11, <2>1, <2>2, <2>4
    <3>2. CASE AllReached
      BY <1>2, <3>2 DEF AllReached
    <3>3. CASE Later(m)
      <4>1. PICK k \in Jobs : job[k].kind = "fanout" /\ ~Done(k) /\ end < job[k].after
        BY <3>1, <3>3 DEF Later
      <4>2. k # j /\ job[k].after \in Nat
        BY <1>1, <4>1 DEF JobType
      <4> QED
        BY <1>1, <1>12, <4>1, <4>2
    <3> QED
      BY <3>1, <3>2, <3>3 DEF Chain
  <2> QED
    BY <2>3, <2>4
<1>14. FansOut' => \A i \in Jobs : job'[i].kind = "fanout" /\ Done(i)' => AllReached' \/ Later(i)'
  <2> SUFFICES ASSUME FansOut, FansOut', NEW i \in Jobs, job'[i].kind = "fanout", Done(i)',
                      ~AllReached'
               PROVE  Later(i)'
    BY <1>1 DEF FansOut, Expired
  <2>1. PICK k \in Jobs : job'[k].kind = "fanout" /\ ~Done(k)' /\ end <= job'[k].after
    BY <1>13
  <2>2. job'[k].after \in Nat /\ job[j].after < job'[k].after
    BY <1>1, <1>6, <1>9, <2>1 DEF JobType
  <2>3. CASE i = j
    BY <1>9, <2>1, <2>2, <2>3 DEF Later
  <2>4. CASE i # j
    <3>1. job'[i] = job[i] /\ Done(i)
      BY <1>9, <1>11, <2>4
    <3>2. ~AllReached
      BY <1>2 DEF AllReached
    <3>3. PICK l \in Jobs : job[l].kind = "fanout" /\ ~Done(l) /\ job[i].after < job[l].after
      BY <3>1, <3>2 DEF Chain, Later
    <3>4. CASE l = j
      <4>1. job[i].after \in Nat
        BY <1>1 DEF JobType
      <4> QED
        BY <1>1, <2>1, <2>2, <3>1, <3>3, <3>4, <4>1 DEF Later
    <3>5. CASE l # j
      BY <1>12, <3>1, <3>3, <3>5 DEF Later
    <3> QED
      BY <3>4, <3>5
  <2> QED
    BY <2>3, <2>4
<1> QED
  BY <1>1, <1>9, <1>10, <1>14 DEF Chain

LEMMA ChainStep == TypeOK /\ JobShape /\ Story /\ Chain /\ [Next]_vars => Chain'
<1> SUFFICES ASSUME TypeOK, JobShape, Story, Chain, [Next]_vars PROVE Chain'
  OBVIOUS
<1>1. CASE UNCHANGED vars
  BY <1>1, ChainQuiet DEF vars, messageVars, deliveryVars, bounds, FansOut, Expired, Done
<1>2. ASSUME NEW j \in Jobs, Work(j) PROVE Chain'
  BY <1>2, ChainAttempt, ChainPublish, ChainFanoutBegin, ChainFanoutCommit DEF Work
<1>3. ASSUME NEW j \in Jobs, River(j) \/ Crash(j) \/ CleanCompleted(j) PROVE Chain'
  BY <1>3, ChainRiver
<1> QED
  BY <1>1, <1>2, <1>3, ChainDelivery, ChainOperators, ChainTasks DEF Next

\* When no fan-out job of a published message is left and none was given up,
\* every device has its delivery.
THEOREM EveryPageDone == Spec => []FanoutComplete
<1>1. Spec => []Chain
  BY StoryHolds, ChainInit, ChainStep, PTL DEF Spec
<1>2. JobShape /\ TypeOK /\ Chain => FanoutComplete
  <2> SUFFICES ASSUME JobShape, TypeOK, Chain, FansOut, ~HasJob("fanout", Live \cup {"discarded"})
               PROVE  AllReached
    BY DEF FanoutComplete, FansOut, AllReached
  <2>1. \A k \in Jobs : job[k].kind = "fanout" => Done(k)
    BY DEF HasJob, TypeOK, JobType, JobShape, ShapeOf, Done, UniqueStates
  <2>2. PICK j \in Jobs : job[j].kind = "fanout"
    BY DEF Chain
  <2> QED
    BY <2>1, <2>2 DEF Chain, Later
<1> QED
  BY <1>1, <1>2, StoryHolds, PTL
=============================================================================
