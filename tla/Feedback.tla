------------------------------ MODULE Feedback -----------------------------
(***************************************************************************)
(* Screenshots of feedback: their upload, which keeps the row of the       *)
(* session locked while it scans and stores the image, their cancellation, *)
(* the submission that attaches them, and the clean-up that removes the    *)
(* expired uploads nothing refers to.                                      *)
(*                                                                         *)
(* These transactions are READ COMMITTED.  A statement that has to wait    *)
(* for a row goes on with the snapshot it began with unless the row was    *)
(* changed: so a submission and the clean-up have one step for what they   *)
(* see and another for what they do.                                       *)
(***************************************************************************)
EXTENDS Storage

VARIABLE sweep    \* the clean-up: the upload it works on, its next statement

NotSweeping == [file |-> NoFile, at |-> "idle"]

\* The row of a session is locked by its upload and by the clean-up.
Locked(u) ==
  \/ InFlight(u, {"upload"})
  \/ sweep.file = u /\ sweep.at \in {"delete", "commit"}
Attached(u) == \E x \in usage : x[1] = fileOf[u]

CreateFeedbackUpload(u) ==
  /\ Kind(u) = "feedback"
  /\ session[u] = "none"
  /\ account[Owner(u)] = "member"
  /\ session' = [session EXCEPT ![u] = "initiated"]
  /\ UNCHANGED <<plan, late, fileOf, file, usage, partRow, account, storeVars,
                 call, historyVars, faults, sweep>>

\* An upload that is completed answers its file and changes nothing.
BeginUpload(c, u) ==
  /\ Kind(u) = "feedback" /\ Open(u) /\ ~Locked(u)
  /\ account[Owner(u)] = "member"
  /\ Begin(c, "upload", u, 0, "put")
  /\ UNCHANGED <<plan, rowVars, storeVars, historyVars, faults, sweep>>

CommitFeedbackUpload(c) ==
  /\ At(c, {"upload"}, "commit")
  /\ LET u == call[c].file
     IN  /\ file' = [file EXCEPT ![u] = "ready"]
         /\ fileOf' = [fileOf EXCEPT ![u] = u]
         /\ session' = [session EXCEPT ![u] = "completed"]
  /\ Return(c)
  /\ UNCHANGED <<plan, late, usage, partRow, account, storeVars, historyVars,
                 faults, sweep>>

CancelFeedbackUpload(u) ==
  /\ Kind(u) = "feedback" /\ u \notin late /\ ~Locked(u) /\ ~Attached(u)
  /\ session[u] \in {"initiated", "completed"}
  /\ account[Owner(u)] = "member"
  /\ late' = late \cup {u}
  /\ UNCHANGED <<plan, session, fileOf, file, usage, partRow, account, storeVars,
                 call, historyVars, faults, sweep>>

\* FindRequest, Create and the snapshot of Attach; now() is that of the begin.
BeginSubmit(c, u, k) ==
  /\ Kind(u) = "feedback" /\ account[Owner(u)] = "member"
  /\ ~\E d \in Calls : /\ call[d].op = "submit" /\ call[d].key = k
                       /\ Owner(call[d].file) = Owner(u)
  /\ ~\E x \in usage : x[2] = FeedbackOf(Owner(u), k)
  /\ session[u] = "completed" /\ u \notin late
  /\ file[u] = "ready" /\ ~Used(u)
  /\ Begin(c, "submit", u, k, "commit")
  /\ UNCHANGED <<plan, rowVars, storeVars, historyVars, faults, sweep>>

\* The rows of the file and of the session are locked; they are looked at again
\* only for what another transaction changed, which attachments are not.
CommitSubmit(c) ==
  /\ At(c, {"submit"}, "commit")
  /\ ~Locked(call[c].file)
  /\ LET u == call[c].file
     IN  usage' = IF session[u] = "completed" /\ file[u] = "ready"
                    THEN usage \cup {<<u, FeedbackOf(Owner(u), call[c].key)>>}
                    ELSE usage
  /\ Return(c)
  /\ UNCHANGED <<plan, session, late, fileOf, file, partRow, account, storeVars,
                 historyVars, faults, sweep>>

-----------------------------------------------------------------------------
(* Cleanup.one *)

\* Mutant: only uploads that never got their bytes are looked for.
SweepLookUnstored(u) ==
  /\ sweep = NotSweeping
  /\ Kind(u) = "feedback" /\ u \in late /\ session[u] = "initiated"
  /\ sweep' = [file |-> u, at |-> "lock"]
  /\ UNCHANGED storageVars

\* The snapshot of the SELECT: expired, not ended, nothing refers to the file.
SweepLook(u) ==
  /\ sweep = NotSweeping
  /\ Kind(u) = "feedback" /\ u \in late
  /\ session[u] \in {"initiated", "completed"} /\ ~Attached(u)
  /\ sweep' = [file |-> u, at |-> "lock"]
  /\ exposed' = IF InFlight(u, {"submit"}) THEN exposed \cup {u} ELSE exposed
  /\ UNCHANGED <<plan, rowVars, storeVars, call, stray, faults>>

\* FOR UPDATE SKIP LOCKED; a changed row is looked at again, usages are not.
SweepLock ==
  /\ sweep.at = "lock"
  /\ sweep' = IF ~Locked(sweep.file) /\ session[sweep.file] \in {"initiated", "completed"}
                THEN [sweep EXCEPT !.at = "delete"] ELSE NotSweeping
  /\ UNCHANGED storageVars

SweepDelete ==
  /\ sweep.at = "delete"
  /\ objects' = objects \ {sweep.file}
  /\ sweep' = [sweep EXCEPT !.at = "commit"]
  /\ UNCHANGED <<plan, rowVars, parts, call, historyVars, faults>>

\* The files row is updated only if nothing refers to it now.
SweepCommit ==
  /\ sweep.at = "commit"
  /\ LET u == sweep.file
     IN  /\ session' = [session EXCEPT ![u] = "expired"]
         /\ file' = IF fileOf[u] = u /\ ~Used(u)
                      THEN [file EXCEPT ![u] = "deleted"] ELSE file
  /\ sweep' = NotSweeping
  /\ UNCHANGED <<plan, late, fileOf, usage, partRow, account, storeVars, call,
                 historyVars, faults>>

\* A failure, or the end of the process, rolls the transaction back.
SweepFails ==
  /\ sweep.at \in {"delete", "commit"}
  /\ Fault
  /\ sweep' = NotSweeping
  /\ UNCHANGED <<plan, rowVars, storeVars, call, historyVars>>

-----------------------------------------------------------------------------
feedbackVars == <<storageVars, sweep>>

FeedbackInit == StorageInit /\ sweep = NotSweeping

Request(c) ==
  \/ CallStep(c) /\ UNCHANGED sweep
  \/ CommitFeedbackUpload(c) \/ CommitSubmit(c)
Sweep == (\E u \in Uploads : SweepLook(u)) \/ SweepLock \/ SweepDelete \/ SweepCommit

FeedbackNext ==
  \/ StorageNext /\ UNCHANGED sweep
  \/ \E u \in Uploads :
       \/ CreateFeedbackUpload(u) \/ CancelFeedbackUpload(u)
       \/ \E c \in Calls :
            \/ BeginUpload(c, u)
            \/ \E k \in Keys : BeginSubmit(c, u, k)
  \/ \E c \in Calls : CommitFeedbackUpload(c) \/ CommitSubmit(c)
  \/ Sweep \/ SweepFails
=============================================================================
