------------------------------ MODULE Erasure ------------------------------
(***************************************************************************)
(* A user deletes the account, and workers of the queue "privacy" delete   *)
(* the objects that were the user's.                                       *)
(*                                                                         *)
(* The deletion is one SERIALIZABLE transaction over the tables of Storage *)
(* and Feedback, among requests and sweeps that are in flight.  It either  *)
(* deletes the identity (global) or, when anything else holds on to it,    *)
(* what belongs to the App: of the uploads only feedback carries the App.  *)
(* The worker's statements commit one by one.                              *)
(***************************************************************************)
EXTENDS Feedback

CONSTANT MaxAttempts    \* max_attempts of the River jobs (10)

ASSUME AttemptAssumption == MaxAttempts \in Nat \ {0}

VARIABLES
  \* privacy_erasure_objects.status by key, and the job that deletes the key:
  \* its state or, while it runs, its next statement
  er, job, attempt,
  \* privacy_erasure_events.status by user
  event,
  \* history: users whose event the worker did not get to close
  cut

erasureVars == <<er, job, attempt, event, cut>>
vars == <<feedbackVars, erasureVars>>

\* Who uploaded a file through the console has a session there, which keeps
\* the identity.
Console(a) == \E u \in OfKind("file") : Owner(u) = a

InScope(u, a, global) == Owner(u) = a /\ (global \/ Kind(u) = "feedback")

\* The usages that the deletion removes before it looks for files, and those it
\* removes or does not count because they are the user's own avatar.
OwnUsages(a, global) ==
  {x \in usage : \/ \E k \in Keys : x[2] = FeedbackOf(a, k)
                 \/ global /\ x[2] = Avatar(a)}

\* collectErasureObjects: files nobody else refers to, uploads without a file.
CollectedFiles(a, global) ==
  {f \in Uploads : /\ InScope(f, a, global)
                   /\ file[f] # "none"
                   /\ \A x \in usage \ OwnUsages(a, global) : x[1] # f}
CollectedUploads(a, global) ==
  {u \in Uploads : /\ InScope(u, a, global)
                   /\ session[u] \notin {"none", "gone"}
                   /\ fileOf[u] = NoFile}
Collected(a, global) == CollectedFiles(a, global) \cup CollectedUploads(a, global)

\* Foreign keys of the session of another user on a file to be deleted.
Referred(a, global) ==
  \E u \in Uploads : ~InScope(u, a, global) /\ fileOf[u] \in CollectedFiles(a, global)

\* The transaction waits for the rows that others lock, and fails when they
\* changed: an upload or the clean-up holds a session, a submission the
\* membership.
Contended(a) ==
  \/ \E u \in Uploads : Owner(u) = a /\ Locked(u)
  \/ \E c \in Calls : call[c].op = "submit" /\ Owner(call[c].file) = a

MayDelete(a, global) == account[a] = "member" /\ (global => ~Console(a))

ConfirmAccountDeletion(a, global) ==
  /\ MayDelete(a, global)
  /\ ~Contended(a) /\ ~Referred(a, global)
  /\ LET found == Collected(a, global)
         scope == {u \in Uploads : InScope(u, a, global) /\ session[u] # "none"}
     IN  /\ account' = [account EXCEPT ![a] = IF global THEN "gone" ELSE "left"]
         /\ usage' = usage \ OwnUsages(a, global)
         /\ session' = [u \in Uploads |-> IF u \in scope THEN "gone" ELSE session[u]]
         /\ fileOf' = [u \in Uploads |-> IF u \in scope THEN NoFile ELSE fileOf[u]]
         /\ file' = [f \in Uploads |->
                       IF f \in CollectedFiles(a, global) THEN "none" ELSE file[f]]
         /\ er' = [u \in Uploads |-> IF u \in found THEN "pending" ELSE er[u]]
         /\ job' = [u \in Uploads |-> IF u \in found THEN "available" ELSE job[u]]
         /\ event' = [event EXCEPT ![a] =
                        IF found = {} THEN "completed" ELSE "pending_objects"]
  /\ UNCHANGED <<plan, late, partRow, storeVars, call, historyVars, faults, sweep,
                 attempt, cut>>

-----------------------------------------------------------------------------
(* ObjectErasureWorker.eraseObject *)

Last(u) == attempt[u] = MaxAttempts
GoJob(u, state) == job' = [job EXCEPT ![u] = state]

\* An object that is no longer pending ends the job: already erased.
StartErasure(u) ==
  /\ job[u] = "available"
  /\ attempt' = [attempt EXCEPT ![u] = @ + 1]
  /\ GoJob(u, IF er[u] = "pending" THEN "delete" ELSE "ended")
  /\ UNCHANGED <<feedbackVars, er, event, cut>>

EraseObject(u) ==
  /\ job[u] = "delete"
  /\ objects' = objects \ {u}
  /\ GoJob(u, "mark")
  /\ UNCHANGED <<plan, rowVars, parts, call, historyVars, faults, sweep, er, attempt,
                 event, cut>>

\* Mutants: the last attempt is not told apart; it leaves the event alone.
RecordFailureAgain(u) ==
  /\ job[u] = "delete"
  /\ Fault
  /\ GoJob(u, "available")
  /\ UNCHANGED <<plan, rowVars, storeVars, call, historyVars, sweep, er, attempt, event,
                 cut>>
RecordFailureOnly(u) ==
  /\ job[u] = "delete"
  /\ Fault
  /\ er' = IF Last(u) THEN [er EXCEPT ![u] = "failed"] ELSE er
  /\ GoJob(u, IF Last(u) THEN "ended" ELSE "available")
  /\ UNCHANGED <<plan, rowVars, storeVars, call, historyVars, sweep, attempt, event, cut>>

RecordFailure(u) ==
  /\ job[u] = "delete"
  /\ Fault
  /\ IF Last(u)
       THEN /\ er' = [er EXCEPT ![u] = "failed"]
            /\ event' = [event EXCEPT ![Owner(u)] = "failed"]
       ELSE UNCHANGED <<er, event>>
  /\ GoJob(u, IF Last(u) THEN "ended" ELSE "available")
  /\ UNCHANGED <<plan, rowVars, storeVars, call, historyVars, sweep, attempt, cut>>

MarkErased(u) ==
  /\ job[u] = "mark"
  /\ er' = [er EXCEPT ![u] = "succeeded"]
  /\ GoJob(u, "close")
  /\ UNCHANGED <<feedbackVars, attempt, event, cut>>

\* Mutant: one object is enough.
AnyErased(a) == \E u \in Uploads : Owner(u) = a /\ er[u] = "succeeded"

AllErased(a) == \A u \in Uploads : Owner(u) = a => er[u] \in {"none", "succeeded"}

CloseEvent(u) ==
  /\ job[u] = "close"
  /\ event' = IF AllErased(Owner(u)) THEN [event EXCEPT ![Owner(u)] = "completed"]
              ELSE event
  /\ GoJob(u, "ended")
  /\ UNCHANGED <<feedbackVars, er, attempt, cut>>

\* A statement fails or the worker dies, perhaps between the two statements
\* that record the last failure; the error of the last statement of a success
\* is ignored.  River runs the job again while it has attempts.
InterruptErasure(u) ==
  /\ job[u] \in {"delete", "mark", "close"}
  /\ Fault
  /\ \/ GoJob(u, IF Last(u) THEN "ended" ELSE "available") /\ UNCHANGED er
     \/ job[u] = "close" /\ GoJob(u, "ended") /\ UNCHANGED er
     \/ /\ job[u] = "delete" /\ Last(u)
        /\ GoJob(u, "ended")
        /\ er' = [er EXCEPT ![u] = "failed"]
  /\ cut' = IF job[u] = "close" \/ Last(u) THEN cut \cup {Owner(u)} ELSE cut
  /\ UNCHANGED <<plan, rowVars, storeVars, call, historyVars, sweep, attempt, event>>

-----------------------------------------------------------------------------
Init ==
  /\ FeedbackInit
  /\ er = [u \in Uploads |-> "none"]
  /\ job = [u \in Uploads |-> "none"]
  /\ attempt = [u \in Uploads |-> 0]
  /\ event = [a \in Users |-> "none"]
  /\ cut = {}

EraseStep(u) == StartErasure(u) \/ EraseObject(u) \/ MarkErased(u) \/ CloseEvent(u)

Next ==
  \/ FeedbackNext /\ UNCHANGED erasureVars
  \/ \E a \in Users, global \in BOOLEAN : ConfirmAccountDeletion(a, global)
  \/ \E u \in Uploads : EraseStep(u) \/ RecordFailure(u) \/ InterruptErasure(u)

Spec == Init /\ [][Next]_vars

\* Requests run to their end, the clean-up runs every minute, River runs its
\* jobs.
Fairness ==
  /\ \A c \in Calls : WF_vars(Request(c) /\ UNCHANGED erasureVars)
  /\ WF_vars(Sweep /\ UNCHANGED erasureVars)
  /\ \A u \in Uploads : WF_vars(EraseStep(u))

FairSpec == Spec /\ Fairness

-----------------------------------------------------------------------------
(* Properties *)

Statuses == {"none", "initiated", "completed", "aborted", "expired", "gone"}

\* Every variable holds a value of its column, and a job runs only for a key
\* that an erasure collected.
TypeOK ==
  /\ plan \in Plans
  /\ session \in [Uploads -> Statuses]
  /\ late \subseteq Uploads
  /\ fileOf \in [Uploads -> Uploads \cup {NoFile}]
  /\ file \in [Uploads -> {"none", "ready", "deleted"}]
  /\ usage \subseteq Uploads \X Entities
  /\ objects \subseteq Uploads /\ parts \subseteq Uploads /\ partRow \subseteq Uploads
  /\ account \in [Users -> {"member", "left", "gone"}]
  /\ call \in [Calls -> [op : Ops, file : Uploads \cup {NoFile}, key : Keys \cup {0},
                         at : Points]]
  /\ exposed \subseteq Uploads /\ stray \subseteq Uploads
  /\ faults \in 0..MaxFaults
  /\ sweep \in [file : Uploads \cup {NoFile}, at : {"idle", "lock", "delete", "commit"}]
  /\ er \in [Uploads -> {"none", "pending", "succeeded", "failed"}]
  /\ job \in [Uploads -> {"none", "available", "delete", "mark", "close", "ended"}]
  /\ attempt \in [Uploads -> 0..MaxAttempts]
  /\ event \in [Users -> {"none", "pending_objects", "completed", "failed"}]
  /\ cut \subseteq Users
  /\ \A u \in Uploads : job[u] # "none" => er[u] # "none"

\* What something refers to stays ready, and a ready file has its object,
\* whatever is deduplicated, replaced, deleted, swept or erased around it.
\* Excepted are the files that two requests worked on at once without a lock
\* (two bodies for one session, a release over a deletion, a submission over
\* the clean-up) or whose commit was not answered.
UsedIsReadable ==
  \A f \in Uploads \ exposed :
    /\ Used(f) => file[f] = "ready"
    /\ file[f] = "ready" /\ (Used(f) \/ Kind(f) # "feedback") => f \in objects

\* No object and no part without a row that names it, or a request or an
\* erasure that will still take it away.  Excepted is what a failed or forgotten
\* deletion left behind.
Pending(u) ==
  \E c \in Calls : call[c].file = u /\ (call[c].at \in {"commit", "undo", "drop"}
                                         \/ call[c].op = "cancel")
ObjectHasOwner ==
  /\ \A u \in objects \ stray :
       \/ session[u] = "initiated" \/ file[u] = "ready"
       \/ er[u] \in {"pending", "failed"} \/ Pending(u)
  /\ \A u \in parts \ stray :
       session[u] = "initiated" \/ \E c \in Calls : call[c].file = u

\* When the event of an account deletion is completed, no object of the user
\* is left in the store, but for files others use and requests still running.
ErasedIsGone ==
  \A u \in objects \ stray :
    LET a == Owner(u)
    IN  event[a] = "completed" /\ InScope(u, a, Gone(a)) => file[u] = "ready" \/ Pending(u)

\* An expired screenshot that nothing refers to is removed in the end.
ExpiredIsSwept ==
  \A u \in Uploads :
    (Kind(u) = "feedback" /\ u \in late /\ session[u] \in {"initiated", "completed"})
      ~> (session[u] \in {"expired", "gone"} \/ Attached(u))

\* The event of an account deletion ends, unless the worker was interrupted
\* after the last object and before the event.
EventEnds ==
  \A a \in Users :
    event[a] = "pending_objects" ~> (event[a] \in {"completed", "failed"} \/ a \in cut)
=============================================================================
