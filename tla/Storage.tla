------------------------------ MODULE Storage ------------------------------
(***************************************************************************)
(* Stored files: the rows of storage.upload_sessions, upload_parts, files  *)
(* and file_usages, the objects of the configured store, and the requests  *)
(* that move bytes and rows in steps of their own: an avatar upload, the   *)
(* upload of a file in parts, its completion and cancellation, a deletion, *)
(* and a release that refers to a file.                                    *)
(*                                                                         *)
(* A request alternates between the store and the database, and between    *)
(* two of its steps anything may happen.  A transaction is one step.  A    *)
(* file is named by the upload whose completion inserted it, and so is the *)
(* key of its object.  Feedback and Erasure extend this module.            *)
(***************************************************************************)
EXTENDS Naturals, FiniteSets

CONSTANTS
  Uploads,      \* upload sessions
  Users,
  Calls,        \* slots for requests in flight
  Keys,         \* idempotency keys of feedback submissions
  Plans,        \* what is uploaded by whom: kind, owner and content
  MaxFaults,    \* bound on failing calls, lost answers and crashes
  NoFile        \* NULL

Kinds == {"avatar", "file", "feedback"}

ASSUME StorageAssumption ==
  /\ Calls \subseteq Nat
  /\ Keys \subseteq Nat
  /\ MaxFaults \in Nat
  /\ NoFile \notin Uploads
  /\ Plans \subseteq [Uploads -> [kind : Kinds, owner : Users, content : Nat]]

VARIABLES
  plan,
  \* upload_sessions: status (initiated stands for uploading too, no guard
  \* tells them apart), those past expires_at, file_id
  session, late, fileOf,
  \* files.status; file_usages as pairs of a file and what refers to it
  file, usage,
  \* keys in the store, keys of parts in the store, sessions with part rows
  objects, parts, partRow,
  \* iam.users and app.user_memberships
  account,
  \* requests in flight
  call,
  \* history: uploads that two actors worked on at once in a way the code does
  \* not guard or whose commit was not answered; keys nobody will delete
  exposed, stray,
  faults

rowVars == <<session, late, fileOf, file, usage, partRow, account>>
storeVars == <<objects, parts>>
historyVars == <<exposed, stray>>
storageVars == <<plan, rowVars, storeVars, call, historyVars, faults>>

Kind(u) == plan[u].kind
Owner(u) == plan[u].owner
OfKind(k) == {u \in Uploads : Kind(u) = k}

Avatar(a) == <<"avatar", a>>
Release(f) == <<"release", f>>
FeedbackOf(a, k) == <<"feedback", a, k>>
Entities == ({"avatar"} \X Users) \cup ({"release"} \X Uploads)
              \cup ({"feedback"} \X Users \X Keys)

Used(f) == \E x \in usage : x[1] = f
Open(u) == session[u] = "initiated" /\ u \notin late
Gone(a) == account[a] = "gone"

Ops == {"idle", "avatar", "part", "complete", "cancel", "delete", "release",
        "upload", "submit"}
Points == {"idle", "put", "commit", "undo", "drop", "clear"}

Idle == [op |-> "idle", file |-> NoFile, key |-> 0, at |-> "idle"]
At(c, ops, point) == call[c].op \in ops /\ call[c].at = point
InFlight(u, ops) == \E c \in Calls : call[c].op \in ops /\ call[c].file = u

Begin(c, op, u, k, point) ==
  /\ call[c] = Idle
  /\ \A d \in Calls : d < c => call[d] # Idle
  /\ call' = [call EXCEPT ![c] = [op |-> op, file |-> u, key |-> k, at |-> point]]
Go(c, point) == call' = [call EXCEPT ![c].at = point]
Return(c) == call' = [call EXCEPT ![c] = Idle]

Fault == faults < MaxFaults /\ faults' = faults + 1

\* What a request that ends early leaves behind: nothing, while the row of its
\* session names the key (for a part: the row of the part).
Leave(c) ==
  LET u == call[c].file
      named == session[u] = "initiated" /\ (call[c].op = "part" => u \in partRow)
  IN  stray' = IF named THEN stray ELSE stray \cup {u}

-----------------------------------------------------------------------------
(* Sessions *)

CreateUpload(u) ==
  /\ Kind(u) \in {"avatar", "file"}
  /\ session[u] = "none"
  /\ ~Gone(Owner(u))
  /\ session' = [session EXCEPT ![u] = "initiated"]
  /\ UNCHANGED <<plan, late, fileOf, file, usage, partRow, account, storeVars,
                 call, historyVars, faults>>

\* expires_at passes, where a guard looks at it.
Expire(u) ==
  /\ session[u] = "initiated" \/ (session[u] = "completed" /\ Kind(u) = "feedback")
  /\ u \notin late
  /\ late' = late \cup {u}
  /\ UNCHANGED <<plan, session, fileOf, file, usage, partRow, account, storeVars,
                 call, historyVars, faults>>

-----------------------------------------------------------------------------
(* The beginnings of requests: what is read before the first write *)

BeginAvatar(c, u) ==
  /\ Kind(u) = "avatar" /\ Open(u) /\ ~Gone(Owner(u))
  /\ Begin(c, "avatar", u, 0, "put")
  /\ exposed' = IF InFlight(u, {"avatar"}) THEN exposed \cup {u} ELSE exposed
  /\ UNCHANGED <<plan, rowVars, storeVars, stray, faults>>

BeginPart(c, u) ==
  /\ Kind(u) = "file" /\ Open(u)
  /\ Begin(c, "part", u, 0, "put")
  /\ UNCHANGED <<plan, rowVars, storeVars, historyVars, faults>>

\* The parts are read here and put together in memory.
BeginComplete(c, u) ==
  /\ Kind(u) = "file" /\ Open(u) /\ u \in partRow /\ u \in parts
  /\ Begin(c, "complete", u, 0, "put")
  /\ exposed' = IF InFlight(u, {"complete"}) THEN exposed \cup {u} ELSE exposed
  /\ UNCHANGED <<plan, rowVars, storeVars, stray, faults>>

\* AbortUpload commits first; then the parts it listed and the key are deleted.
CancelUpload(c, u) ==
  /\ Kind(u) = "file" /\ Open(u)
  /\ session' = [session EXCEPT ![u] = "aborted"]
  /\ Begin(c, "cancel", u, 0, IF u \in partRow THEN "clear" ELSE "drop")
  /\ UNCHANGED <<plan, late, fileOf, file, usage, partRow, account, storeVars,
                 historyVars, faults>>

\* The snapshot of a deletion: usages that commit later are not counted.
BeginDelete(c, f) ==
  /\ file[f] = "ready" /\ Kind(f) # "feedback" /\ ~Used(f)
  /\ Begin(c, "delete", f, 0, "commit")
  /\ exposed' = IF InFlight(f, {"release"}) THEN exposed \cup {f} ELSE exposed
  /\ UNCHANGED <<plan, rowVars, storeVars, stray, faults>>

\* validateReleaseFile reads the row and takes no lock.
BeginRelease(c, f) ==
  /\ Kind(f) = "file" /\ file[f] = "ready"
  /\ Begin(c, "release", f, 0, "commit")
  /\ exposed' = IF InFlight(f, {"delete"}) THEN exposed \cup {f} ELSE exposed
  /\ UNCHANGED <<plan, rowVars, storeVars, stray, faults>>

-----------------------------------------------------------------------------
(* Calls of the store *)

PutObject(c) ==
  /\ At(c, {"avatar", "part", "complete", "upload"}, "put")
  /\ IF call[c].op = "part"
       THEN parts' = parts \cup {call[c].file} /\ UNCHANGED objects
       ELSE objects' = objects \cup {call[c].file} /\ UNCHANGED parts
  /\ Go(c, "commit")
  /\ UNCHANGED <<plan, rowVars, historyVars, faults>>

\* The call fails, perhaps after the store took the bytes, and nothing deletes
\* them.
PutFails(c) ==
  /\ At(c, {"avatar", "part", "complete", "upload"}, "put")
  /\ Fault
  /\ \/ UNCHANGED <<storeVars, stray>>
     \/ /\ IF call[c].op = "part"
             THEN parts' = parts \cup {call[c].file} /\ UNCHANGED objects
             ELSE objects' = objects \cup {call[c].file} /\ UNCHANGED parts
        /\ Leave(c)
  /\ Return(c)
  /\ UNCHANGED <<plan, rowVars, exposed>>

\* What follows a deletion in the store.
AfterDeletion(op, point) ==
  IF op = "complete" /\ point = "drop" THEN "clear"
  ELSE IF op = "cancel" /\ point = "clear" THEN "drop"
  ELSE "idle"
Proceed(c) ==
  LET point == AfterDeletion(call[c].op, call[c].at)
  IN  IF point = "idle" THEN Return(c) ELSE Go(c, point)

DropObject(c) ==
  /\ call[c].at \in {"undo", "drop"}
  /\ objects' = objects \ {call[c].file}
  /\ Proceed(c)
  /\ UNCHANGED <<plan, rowVars, parts, historyVars, faults>>

ClearParts(c) ==
  /\ call[c].at = "clear"
  /\ parts' = parts \ {call[c].file}
  /\ Proceed(c)
  /\ UNCHANGED <<plan, rowVars, objects, historyVars, faults>>

\* The error of a deletion is dropped, or returned to a caller who cannot
\* repeat it.
DeletionFails(c) ==
  /\ call[c].at \in {"undo", "drop", "clear"}
  /\ Fault
  /\ Leave(c)
  /\ Proceed(c)
  /\ UNCHANGED <<plan, rowVars, storeVars, exposed>>

-----------------------------------------------------------------------------
(* Transactions *)

\* Mutant: the index counts deleted files.
SameEver(u) == {f \in Uploads : /\ file[f] # "none" /\ Kind(f) # "feedback"
                                /\ plan[f].content = plan[u].content}

\* uq_files_tenant_dedup_shared: the ready file with the same content, if any.
Same(u) == {f \in Uploads : /\ file[f] = "ready" /\ Kind(f) # "feedback"
                            /\ plan[f].content = plan[u].content}
Target(u) == IF Same(u) = {} THEN {u} ELSE Same(u)

\* The session is completed with the file, which the INSERT locks: a deletion
\* that has its snapshot fails.
Completed(c, u, f, point) ==
  /\ session' = [session EXCEPT ![u] = "completed"]
  /\ fileOf' = [fileOf EXCEPT ![u] = f]
  /\ file' = [file EXCEPT ![f] = "ready"]
  /\ call' = [d \in Calls |->
                IF d = c THEN IF point = "idle" THEN Idle ELSE [call[c] EXCEPT !.at = point]
                ELSE IF call[d].op = "delete" /\ call[d].at = "commit" /\ call[d].file = f
                  THEN Idle ELSE call[d]]

CompleteAvatarUpload(c, u, f, point) ==
  /\ Completed(c, u, f, point)
  /\ usage' = {x \in usage : x[2] # Avatar(Owner(u))} \cup {<<f, Avatar(Owner(u))>>}
CompleteUpload(c, u, f, point) ==
  /\ Completed(c, u, f, point)
  /\ UNCHANGED usage

Complete(c, u, f, point) ==
  /\ Open(u)
  /\ \/ call[c].op = "avatar" /\ ~Gone(Owner(u)) /\ CompleteAvatarUpload(c, u, f, point)
     \/ call[c].op = "complete" /\ CompleteUpload(c, u, f, point)
  /\ UNCHANGED <<plan, late, partRow, account, storeVars>>

\* Mutant: the key of a content that is stored already is kept.
AfterCommitKeeps(op, u, f) == IF op = "complete" THEN "clear" ELSE "idle"

\* A key the file does not use is deleted, then the parts.
AfterCommit(op, u, f) ==
  IF f # u THEN "drop" ELSE IF op = "complete" THEN "clear" ELSE "idle"

CommitUpload(c) ==
  /\ At(c, {"avatar", "complete"}, "commit")
  /\ LET u == call[c].file
     IN  \E f \in Target(u) : Complete(c, u, f, AfterCommit(call[c].op, u, f))
  /\ UNCHANGED <<historyVars, faults>>

\* The commit is not answered: the request takes it for a failure.
CommitUnanswered(c) ==
  /\ At(c, {"avatar", "complete"}, "commit")
  /\ Fault
  /\ LET u == call[c].file
     IN  /\ \E f \in Target(u) : Complete(c, u, f, "undo")
         /\ exposed' = exposed \cup {u}
         /\ stray' = IF call[c].op = "complete" THEN stray \cup {u} ELSE stray

\* The session is no longer open, or its user is gone.
CommitRefused(c) ==
  /\ At(c, {"avatar", "complete"}, "commit")
  /\ LET u == call[c].file
     IN  ~Open(u) \/ (call[c].op = "avatar" /\ Gone(Owner(u)))
  /\ Go(c, "undo")
  /\ UNCHANGED <<plan, rowVars, storeVars, historyVars, faults>>

\* The transaction fails, or one of the two statements that record a part.
CommitFails(c) ==
  /\ At(c, {"avatar", "complete", "part"}, "commit")
  /\ Fault
  /\ \/ UNCHANGED partRow
     \/ /\ call[c].op = "part" /\ Open(call[c].file)
        /\ partRow' = partRow \cup {call[c].file}
  /\ Go(c, IF call[c].op = "part" THEN "clear" ELSE "undo")
  /\ UNCHANGED <<plan, session, late, fileOf, file, usage, account, storeVars,
                 historyVars>>

\* The INSERT selects the session: for one that ended it inserts no row, which
\* is no error, and the part stays in the store.
UpsertPart(c) ==
  /\ At(c, {"part"}, "commit")
  /\ IF Open(call[c].file)
       THEN partRow' = partRow \cup {call[c].file} /\ UNCHANGED stray
       ELSE Leave(c) /\ UNCHANGED partRow
  /\ Return(c)
  /\ UNCHANGED <<plan, session, late, fileOf, file, usage, account, storeVars,
                 exposed, faults>>

DeleteFile(c) ==
  /\ At(c, {"delete"}, "commit")
  /\ IF file[call[c].file] = "ready"
       THEN file' = [file EXCEPT ![call[c].file] = "deleted"] /\ Go(c, "drop")
       ELSE UNCHANGED file /\ Return(c)
  /\ UNCHANGED <<plan, session, late, fileOf, usage, partRow, account, storeVars,
                 historyVars, faults>>

\* The foreign key asks for the row, which a soft deletion keeps.
CreateDraft(c) ==
  /\ At(c, {"release"}, "commit")
  /\ usage' = IF file[call[c].file] = "none" THEN usage
              ELSE usage \cup {<<call[c].file, Release(call[c].file)>>}
  /\ Return(c)
  /\ UNCHANGED <<plan, session, late, fileOf, file, partRow, account, storeVars,
                 historyVars, faults>>

DeleteRelease(f) ==
  /\ <<f, Release(f)>> \in usage
  /\ usage' = usage \ {<<f, Release(f)>>}
  /\ UNCHANGED <<plan, session, late, fileOf, file, partRow, account, storeVars,
                 call, historyVars, faults>>

\* The process dies, or the request is abandoned.
CrashCall(c) ==
  /\ call[c] # Idle
  /\ Fault
  /\ IF call[c].op \in {"release", "submit", "upload"} \/ call[c].at = "put"
          \/ At(c, {"delete"}, "commit")
       THEN UNCHANGED stray ELSE Leave(c)
  /\ Return(c)
  /\ UNCHANGED <<plan, rowVars, storeVars, exposed>>

-----------------------------------------------------------------------------
StorageInit ==
  /\ plan \in Plans
  /\ session = [u \in Uploads |-> "none"]
  /\ late = {}
  /\ fileOf = [u \in Uploads |-> NoFile]
  /\ file = [u \in Uploads |-> "none"]
  /\ usage = {}
  /\ objects = {} /\ parts = {} /\ partRow = {}
  /\ account = [a \in Users |-> "member"]
  /\ call = [c \in Calls |-> Idle]
  /\ exposed = {} /\ stray = {}
  /\ faults = 0

CallStep(c) ==
  \/ PutObject(c) \/ DropObject(c) \/ ClearParts(c)
  \/ CommitUpload(c) \/ CommitRefused(c) \/ UpsertPart(c)
  \/ DeleteFile(c) \/ CreateDraft(c)

StorageNext ==
  \/ \E u \in Uploads :
       \/ CreateUpload(u) \/ Expire(u) \/ DeleteRelease(u)
       \/ \E c \in Calls :
            \/ BeginAvatar(c, u) \/ BeginPart(c, u) \/ BeginComplete(c, u)
            \/ CancelUpload(c, u) \/ BeginDelete(c, u) \/ BeginRelease(c, u)
  \/ \E c \in Calls :
       \/ CallStep(c)
       \/ PutFails(c) \/ DeletionFails(c) \/ CommitUnanswered(c)
       \/ CommitFails(c) \/ CrashCall(c)
=============================================================================
