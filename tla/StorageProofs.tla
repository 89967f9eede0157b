--------------------------- MODULE StorageProofs ---------------------------
(***************************************************************************)
(* Proofs about Storage, Feedback and Erasure for any uploads, users,      *)
(* requests and faults: UsedIsReadable, ObjectHasOwner and ErasedIsGone    *)
(* from one inductive invariant.  Its parts say what the rows of an upload *)
(* imply about each other, what each request in flight may rely on, and    *)
(* who still answers for the bytes in the store.                           *)
(***************************************************************************)
EXTENDS Erasure, TLAPS

Op(c) == call[c].op
Of(c) == call[c].file

(* Rows *)

\* A file has the session that completed it, unless an erasure took the session.
FileHasSession ==
  \A u \in Uploads :
    /\ file[u] # "none" => /\ session[u] \in {"completed", "expired", "gone"}
                           /\ fileOf[u] = u \/ session[u] = "gone"
    /\ fileOf[u] # NoFile => session[u] \in {"completed", "expired"}
    /\ Kind(u) = "feedback" => fileOf[u] \in {NoFile, u}
    /\ Kind(u) = "file" => session[u] # "gone"

\* Bytes come after the session.
BytesHaveSession ==
  \A u \in Uploads :
    /\ session[u] = "none" => u \notin objects /\ u \notin late
    /\ u \in parts => Kind(u) = "file"

\* Until it expires a screenshot that is ready has its object.
ScreenshotKept ==
  \A u \in Uploads :
    Kind(u) = "feedback" /\ file[u] = "ready" /\ u \notin late => u \in objects

(* Requests in flight *)

Shapes(c, op, kind, points) ==
  Op(c) = op /\ Kind(Of(c)) = kind /\ call[c].at \in points
CallShape ==
  \A c \in Calls :
    \/ call[c] = Idle
    \/ /\ Of(c) \in Uploads /\ session[Of(c)] # "none"
       /\ \/ Shapes(c, "avatar", "avatar", {"put", "commit", "undo", "drop"})
          \/ Shapes(c, "part", "file", {"put", "commit", "clear"})
          \/ Shapes(c, "complete", "file", {"put", "commit", "undo", "drop", "clear"})
          \/ Shapes(c, "cancel", "file", {"clear", "drop"})
          \/ Shapes(c, "delete", "avatar", {"commit", "drop"})
          \/ Shapes(c, "delete", "file", {"commit", "drop"})
          \/ Shapes(c, "release", "file", {"commit"})
          \/ Shapes(c, "upload", "feedback", {"put", "commit"})
          \/ Shapes(c, "submit", "feedback", {"commit"}) /\ call[c].key \in Keys

\* A request that stores the bytes of an upload is alone with it, and before its
\* commit there is no file.
Storing(c) == Op(c) \in {"avatar", "complete"}
StoringAlone ==
  \A c, d \in Calls :
    Storing(c) /\ Storing(d) /\ Of(c) = Of(d) => c = d \/ Of(c) \in exposed
StoringFresh ==
  \A c \in Calls :
    Storing(c) /\ Of(c) \notin exposed =>
      /\ call[c].at # "clear" => file[Of(c)] = "none"
      /\ call[c].at = "commit" /\ Open(Of(c)) => Of(c) \in objects

\* A cancelled session is aborted, and past its commit a request has ended one.
Cancelling ==
  \A c \in Calls :
    /\ Op(c) = "cancel" => session[Of(c)] = "aborted"
    /\ Storing(c) /\ call[c].at \in {"drop", "clear"} => session[Of(c)] # "initiated"

Deleting ==
  \A c \in Calls :
    Op(c) = "delete" =>
      /\ session[Of(c)] \notin {"none", "initiated"}
      /\ call[c].at = "drop" => file[Of(c)] # "ready"
      /\ call[c].at = "commit" /\ file[Of(c)] = "ready" =>
           Of(c) \in exposed \/ ~Used(Of(c))

Releasing ==
  \A c \in Calls :
    Op(c) = "release" =>
      Of(c) \in exposed \/ (file[Of(c)] = "ready" /\ ~InFlight(Of(c), {"delete"}))

Uploading ==
  \A c \in Calls :
    Op(c) = "upload" =>
      /\ session[Of(c)] = "initiated"
      /\ \A d \in Calls : Op(d) = "upload" /\ Of(d) = Of(c) => d = c
      /\ ~(sweep.file = Of(c) /\ sweep.at \in {"delete", "commit"})
      /\ call[c].at = "commit" => Of(c) \in objects

Submitting ==
  \A c \in Calls :
    Op(c) = "submit" =>
      /\ session[Of(c)] \in {"completed", "expired"}
      /\ Of(c) \in exposed
           \/ (sweep.file # Of(c) /\ (file[Of(c)] = "ready" => Of(c) \in objects))

\* What the clean-up works on is a screenshot nothing refers to.
Sweeping ==
  IF sweep.at = "idle" THEN sweep.file = NoFile ELSE
    /\ sweep.file \in late /\ Kind(sweep.file) = "feedback"
    /\ sweep.file \in exposed \/ ~Used(sweep.file)
    /\ sweep.at \in {"delete", "commit"} =>
         session[sweep.file] \in {"initiated", "completed"}
    /\ sweep.at = "commit" => sweep.file \notin objects

Requests ==
  /\ CallShape /\ StoringAlone /\ StoringFresh /\ Cancelling /\ Deleting
  /\ Releasing /\ Uploading /\ Submitting /\ Sweeping

(* Erasure *)

\* A job deletes what has no rows any more, of a user who has left.
JobShape ==
  \A u \in Uploads :
    /\ job[u] # "none" =>
         /\ session[u] = "gone" /\ file[u] = "none"
         /\ event[Owner(u)] # "none" /\ er[u] # "none"
    /\ er[u] # "none" => job[u] # "none"
    /\ job[u] \in {"none", "available"} => attempt[u] < MaxAttempts
    /\ job[u] \in {"delete", "mark"} => er[u] = "pending"
    /\ job[u] = "close" => er[u] = "succeeded"

\* An erasure leaves no session in its scope, and completes with its objects.
EventShape ==
  \A a \in Users :
    /\ event[a] # "none" =>
         /\ account[a] # "member"
         /\ \A u \in Uploads : InScope(u, a, Gone(a)) => session[u] \in {"none", "gone"}
    /\ event[a] = "completed" => AllErased(a)

(* Objects *)

\* A request will still delete the object or give it a file.
Carried(u) ==
  \E c \in Calls :
    /\ Of(c) = u
    /\ \/ Op(c) \in {"avatar", "complete", "upload"}
            /\ call[c].at \in {"commit", "undo", "drop"}
       \/ Op(c) = "cancel"
       \/ Op(c) = "delete" /\ call[c].at = "drop"
Covered(u) == u \in objects \ stray => Carried(u)
ObjectsOwned ==
  \A u \in Uploads :
    /\ \/ session[u] = "initiated" \/ file[u] = "ready"
       \/ er[u] \in {"pending", "failed"} \/ Covered(u)
    /\ job[u] = "mark" => Covered(u)

PartsOwned ==
  \A u \in parts \ stray :
    \/ session[u] = "initiated" /\ u \in partRow
    \/ \E c \in Calls :
         /\ Of(c) = u
         /\ \/ Op(c) = "part" /\ call[c].at \in {"commit", "clear"}
            \/ Op(c) = "cancel" /\ call[c].at = "clear"
            \/ Op(c) = "complete" /\ call[c].at \in {"drop", "clear"}

Rows == FileHasSession /\ BytesHaveSession /\ ScreenshotKept
Erasures == JobShape /\ EventShape
Owned == ObjectsOwned /\ PartsOwned
IInv == TypeOK /\ Rows /\ Requests /\ Erasures /\ Owned /\ UsedIsReadable

-----------------------------------------------------------------------------
(* What a step does to the requests *)

CallTyped ==
  call \in [Calls -> [op : Ops, file : Uploads \cup {NoFile}, key : Keys \cup {0},
                      at : Points]]
Elsewhere(c) == \A d \in Calls : d # c => call'[d] = call[d]
Starts(c, op, u, k, point) ==
  /\ CallTyped' /\ Elsewhere(c) /\ call[c] = Idle
  /\ call'[c] = [op |-> op, file |-> u, key |-> k, at |-> point]
Goes(c, point) ==
  /\ CallTyped' /\ Elsewhere(c)
  /\ call'[c].op = call[c].op /\ call'[c].file = call[c].file
  /\ call'[c].key = call[c].key /\ call'[c].at = point
Ends(c) == CallTyped' /\ Elsewhere(c) /\ call'[c] = Idle
Proceeds(c) ==
  \/ Ends(c) /\ (Op(c) = "complete" => call[c].at # "drop")
             /\ (Op(c) = "cancel" => call[c].at # "clear")
  \/ Goes(c, "clear") /\ Op(c) = "complete" /\ call[c].at = "drop"
  \/ Goes(c, "drop") /\ Op(c) = "cancel" /\ call[c].at = "clear"

PlanTyped ==
  /\ NoFile \notin Uploads
  /\ \A u \in Uploads : Kind(u) \in Kinds /\ Owner(u) \in Users

\* Every upload is of one of three kinds, and NULL is none of them.
LEMMA Typed == ASSUME TypeOK PROVE PlanTyped
BY StorageAssumption DEF TypeOK, PlanTyped, Kind, Owner

\* A request starts in a free slot.
LEMMA BeginView ==
  ASSUME TypeOK, NEW c \in Calls, NEW op \in Ops, NEW u \in Uploads,
         NEW k \in Keys \cup {0}, NEW point \in Points, Begin(c, op, u, k, point)
  PROVE  Starts(c, op, u, k, point)
BY DEF TypeOK, CallTyped, Begin, Starts, Elsewhere, Idle

\* A request goes on.
LEMMA GoView ==
  ASSUME TypeOK, NEW c \in Calls, NEW point \in Points, Go(c, point)
  PROVE  Goes(c, point)
BY DEF TypeOK, CallTyped, Go, Goes, Elsewhere

\* A request ends.
LEMMA ReturnView ==
  ASSUME TypeOK, NEW c \in Calls, Return(c)
  PROVE  Ends(c)
BY DEF TypeOK, CallTyped, Return, Ends, Elsewhere, Idle, Ops, Points

\* What a request does after a deletion.
LEMMA ProceedView ==
  ASSUME TypeOK, NEW c \in Calls, Proceed(c)
  PROVE  Proceeds(c)
<1>1. CASE AfterDeletion(Op(c), call[c].at) = "idle"
  <2>1. Return(c)
    BY <1>1 DEF Proceed, Op
  <2>. QED
    BY <1>1, <2>1, ReturnView DEF Proceeds, AfterDeletion
<1>2. CASE AfterDeletion(Op(c), call[c].at) # "idle"
  <2>1. Go(c, AfterDeletion(Op(c), call[c].at))
    BY <1>2 DEF Proceed, Op
  <2>. QED
    BY <1>2, <2>1, GoView DEF Proceeds, AfterDeletion, Points, Op
<1>. QED
  BY <1>1, <1>2

-----------------------------------------------------------------------------
(* What each part of the invariant depends on *)

\* FileHasSession depends on these variables only.
LEMMA FileHasSessionKept ==
  ASSUME FileHasSession, UNCHANGED <<plan, session, file, fileOf>>
  PROVE  FileHasSession'
BY DEF FileHasSession, Kind

\* BytesHaveSession depends on these variables only.
LEMMA BytesHaveSessionKept ==
  ASSUME BytesHaveSession, UNCHANGED <<plan, session, objects, late, parts>>
  PROVE  BytesHaveSession'
BY DEF BytesHaveSession, Kind

\* ScreenshotKept depends on these variables only.
LEMMA ScreenshotKeptKept ==
  ASSUME ScreenshotKept, UNCHANGED <<plan, file, late, objects>>
  PROVE  ScreenshotKept'
BY DEF ScreenshotKept, Kind

\* CallShape depends on these variables only.
LEMMA CallShapeKept ==
  ASSUME CallShape, UNCHANGED <<plan, call, session>>
  PROVE  CallShape'
BY DEF CallShape, Idle, Of, Shapes, Op, Kind

\* StoringAlone depends on these variables only.
LEMMA StoringAloneKept ==
  ASSUME StoringAlone, UNCHANGED <<call, exposed>>
  PROVE  StoringAlone'
BY DEF StoringAlone, Storing, Of, Op

\* StoringFresh depends on these variables only.
LEMMA StoringFreshKept ==
  ASSUME StoringFresh, UNCHANGED <<call, exposed, file, session, late, objects>>
  PROVE  StoringFresh'
BY DEF StoringFresh, Storing, Of, Open, Op

\* Cancelling depends on these variables only.
LEMMA CancellingKept ==
  ASSUME Cancelling, UNCHANGED <<call, session>>
  PROVE  Cancelling'
BY DEF Cancelling, Op, Of, Storing

\* Deleting depends on these variables only.
LEMMA DeletingKept ==
  ASSUME Deleting, UNCHANGED <<call, session, file, exposed, usage>>
  PROVE  Deleting'
BY DEF Deleting, Op, Of, Used

\* Releasing depends on these variables only.
LEMMA ReleasingKept ==
  ASSUME Releasing, UNCHANGED <<call, exposed, file>>
  PROVE  Releasing'
BY DEF Releasing, Op, Of, InFlight

\* Uploading depends on these variables only.
LEMMA UploadingKept ==
  ASSUME Uploading, UNCHANGED <<call, session, sweep, objects>>
  PROVE  Uploading'
BY DEF Uploading, Op, Of

\* Submitting depends on these variables only.
LEMMA SubmittingKept ==
  ASSUME Submitting, UNCHANGED <<call, session, exposed, sweep, file, objects>>
  PROVE  Submitting'
BY DEF Submitting, Op, Of

\* Sweeping depends on these variables only.
LEMMA SweepingKept ==
  ASSUME Sweeping, UNCHANGED <<plan, sweep, late, exposed, usage, session, objects>>
  PROVE  Sweeping'
BY DEF Sweeping, Kind, Used

\* JobShape depends on these variables only.
LEMMA JobShapeKept ==
  ASSUME JobShape, UNCHANGED <<plan, job, session, file, event, er, attempt>>
  PROVE  JobShape'
BY DEF JobShape, Owner

\* EventShape depends on these variables only.
LEMMA EventShapeKept ==
  ASSUME EventShape, UNCHANGED <<plan, event, account, session, er>>
  PROVE  EventShape'
BY DEF EventShape, InScope, Gone, AllErased, Owner, Kind

\* ObjectsOwned depends on these variables only.
LEMMA ObjectsOwnedKept ==
  ASSUME ObjectsOwned, UNCHANGED <<session, file, er, job, objects, stray, call>>
  PROVE  ObjectsOwned'
BY DEF ObjectsOwned, Covered, Carried, Of, Op

\* PartsOwned depends on these variables only.
LEMMA PartsOwnedKept ==
  ASSUME PartsOwned, UNCHANGED <<parts, stray, session, partRow, call>>
  PROVE  PartsOwned'
BY DEF PartsOwned, Of, Op

\* UsedIsReadable depends on these variables only.
LEMMA UsedIsReadableKept ==
  ASSUME UsedIsReadable, UNCHANGED <<plan, exposed, file, usage, objects>>
  PROVE  UsedIsReadable'
BY DEF UsedIsReadable, Used, Kind

\* CreateUpload keeps the invariant.
LEMMA CreateUploadKeeps ==
  ASSUME IInv, NEW u \in Uploads, CreateUpload(u), UNCHANGED sweep, UNCHANGED
         erasureVars
  PROVE  IInv'
<1>. USE DEF IInv, Rows, Requests, Erasures, Owned
<1>0. PlanTyped
    BY Typed
<1>. USE <1>0 DEF CreateUpload, TypeOK, Kind, Gone, Owner, storeVars, historyVars,
    Statuses, Entities, Ops, Points, erasureVars, PlanTyped, Kinds
<1>1. TypeOK'
    BY StorageAssumption, AttemptAssumption, SMTT(30) DEF StorageAssumption,
        AttemptAssumption, JobShape, CallShape, Idle, Of, Shapes, Op
<1>2. FileHasSession'
    BY SMTT(30) DEF FileHasSession
<1>3. BytesHaveSession'
    BY SMTT(30) DEF BytesHaveSession
<1>4. CallShape'
    BY SMTT(30) DEF CallShape, Idle, Of, Shapes, Op
<1>5. StoringFresh'
    BY SMTT(30) DEF StoringFresh, CallShape, FileHasSession, Storing, Of, Open, Idle,
        Shapes, Op
<1>6. Cancelling'
    BY SMTT(30) DEF Cancelling, CallShape, FileHasSession, Op, Of, Storing, Idle, Shapes
<1>7. Deleting'
    BY SMTT(30) DEF Deleting, Op, Of, Used
<1>8. Uploading'
    BY SMTT(30) DEF Uploading, Op, Of
<1>9. Submitting'
    BY SMTT(30) DEF Submitting, Op, Of
<1>10. Sweeping'
    BY SMTT(30) DEF Sweeping, Used
<1>11. JobShape'
    BY AttemptAssumption, SMTT(30) DEF JobShape, AttemptAssumption
<1>12. EventShape'
    BY SMTT(30) DEF EventShape, InScope, AllErased
<1>13. ObjectsOwned'
    BY SMTT(30) DEF ObjectsOwned, Covered, Carried, Of, Op
<1>14. PartsOwned'
    BY SMTT(30) DEF PartsOwned, Of, Op
<1>15. ScreenshotKept' /\ StoringAlone' /\ Releasing' /\ UsedIsReadable'
    BY ScreenshotKeptKept, StoringAloneKept, ReleasingKept, UsedIsReadableKept
<1>. QED
    BY <1>1, <1>2, <1>3, <1>4, <1>5, <1>6, <1>7, <1>8, <1>9, <1>10, <1>11, <1>12, <1>13,
        <1>14, <1>15

\* Expire keeps the invariant.
LEMMA ExpireKeeps ==
  ASSUME IInv, NEW u \in Uploads, Expire(u), UNCHANGED sweep, UNCHANGED erasureVars
  PROVE  IInv'
<1>. USE DEF IInv, Rows, Requests, Erasures, Owned
<1>0. PlanTyped
    BY Typed
<1>. USE <1>0 DEF Expire, TypeOK, Kind, storeVars, historyVars, Statuses, Entities, Ops,
    Points, erasureVars, Owner, PlanTyped, Kinds
<1>1. TypeOK'
    BY StorageAssumption, AttemptAssumption, SMTT(30) DEF StorageAssumption,
        AttemptAssumption, JobShape, CallShape, Idle, Of, Shapes, Op
<1>2. BytesHaveSession'
    BY SMTT(30) DEF BytesHaveSession
<1>3. ScreenshotKept'
    BY SMTT(30) DEF ScreenshotKept
<1>4. StoringFresh'
    BY SMTT(30) DEF StoringFresh, Storing, Of, Open, Op
<1>5. Sweeping'
    BY SMTT(30) DEF Sweeping, Used
<1>6. FileHasSession' /\ CallShape' /\ StoringAlone' /\ Cancelling' /\ Deleting' /\
    Releasing' /\ Uploading' /\ Submitting' /\ JobShape' /\ EventShape' /\ ObjectsOwned'
    /\ PartsOwned' /\ UsedIsReadable'
    BY FileHasSessionKept, CallShapeKept, StoringAloneKept, CancellingKept,
        DeletingKept, ReleasingKept, UploadingKept, SubmittingKept, JobShapeKept,
        EventShapeKept, ObjectsOwnedKept, PartsOwnedKept, UsedIsReadableKept
<1>. QED
    BY <1>1, <1>2, <1>3, <1>4, <1>5, <1>6

\* BeginAvatar keeps the invariant.
LEMMA BeginAvatarKeeps ==
  ASSUME IInv, NEW c \in Calls, NEW u \in Uploads, BeginAvatar(c, u), UNCHANGED sweep,
         UNCHANGED erasureVars
  PROVE  IInv'
<1>. USE DEF IInv, Rows, Requests, Erasures, Owned
<1>0. PlanTyped
    BY Typed
<1>1. Starts(c, "avatar", u, 0, "put")
    BY BeginView DEF BeginAvatar, Ops, Points
<1>. USE <1>0 DEF BeginAvatar, TypeOK, Kind, Open, Gone, Owner, InFlight, rowVars,
    storeVars, Statuses, Entities, Ops, Points, erasureVars, Starts, CallTyped,
    Elsewhere, Idle, PlanTyped, Kinds
<1>2. TypeOK'
    BY <1>1, StorageAssumption, AttemptAssumption, SMTT(30) DEF StorageAssumption,
        AttemptAssumption, JobShape, CallShape, Of, Shapes, Op
<1>3. CallShape'
    BY <1>1, SMTT(30) DEF CallShape, Of, Shapes, Op
<1>4. StoringAlone'
    BY <1>1, SMTT(30) DEF StoringAlone, CallShape, FileHasSession, Storing, Of, Shapes,
        Op
<1>5. StoringFresh'
    BY <1>1, SMTT(30) DEF StoringFresh, CallShape, FileHasSession, Storing, Of, Shapes,
        Op
<1>6. Cancelling'
    BY <1>1, SMTT(30) DEF Cancelling, Op, Of, Storing
<1>7. Deleting'
    BY <1>1, SMTT(30) DEF Deleting, Op, Of, Used
<1>8. Releasing'
    BY <1>1, SMTT(30) DEF Releasing, Op, Of
<1>9. Uploading'
    BY <1>1, SMTT(30) DEF Uploading, Op, Of
<1>10. Submitting'
    BY <1>1, SMTT(30) DEF Submitting, Op, Of
<1>11. Sweeping'
    BY <1>1, SMTT(30) DEF Sweeping, Used
<1>12. ObjectsOwned'
    BY <1>1, SMTT(30) DEF ObjectsOwned, CallShape, FileHasSession, Covered, Of, Shapes,
        Carried, Op
<1>13. PartsOwned'
    BY <1>1, SMTT(30) DEF PartsOwned, CallShape, FileHasSession, Of, Op, Shapes
<1>14. UsedIsReadable'
    BY <1>1, SMTT(30) DEF UsedIsReadable, Used
<1>15. FileHasSession' /\ BytesHaveSession' /\ ScreenshotKept' /\ JobShape' /\
    EventShape'
    BY FileHasSessionKept, BytesHaveSessionKept, ScreenshotKeptKept, JobShapeKept,
        EventShapeKept
<1>. QED
    BY <1>2, <1>3, <1>4, <1>5, <1>6, <1>7, <1>8, <1>9, <1>10, <1>11, <1>12, <1>13,
        <1>14, <1>15

\* BeginPart keeps the invariant.
LEMMA BeginPartKeeps ==
  ASSUME IInv, NEW c \in Calls, NEW u \in Uploads, BeginPart(c, u), UNCHANGED sweep,
         UNCHANGED erasureVars
  PROVE  IInv'
<1>. USE DEF IInv, Rows, Requests, Erasures, Owned
<1>0. PlanTyped
    BY Typed
<1>1. Starts(c, "part", u, 0, "put")
    BY BeginView DEF BeginPart, Ops, Points
<1>. USE <1>0 DEF BeginPart, TypeOK, Kind, Open, rowVars, storeVars, historyVars,
    Statuses, Entities, Ops, Points, erasureVars, Starts, CallTyped, Elsewhere, Idle,
    Owner, Of, Op, PlanTyped, Kinds
<1>2. TypeOK'
    BY <1>1, StorageAssumption, AttemptAssumption, SMTT(30) DEF StorageAssumption,
        AttemptAssumption, JobShape, CallShape, Shapes
<1>3. CallShape'
    BY <1>1, SMTT(30) DEF CallShape, Shapes
<1>4. StoringAlone'
    BY <1>1, SMTT(30) DEF StoringAlone, Storing
<1>5. StoringFresh'
    BY <1>1, SMTT(30) DEF StoringFresh, Storing
<1>6. Cancelling'
    BY <1>1, SMTT(30) DEF Cancelling, Storing
<1>7. Deleting'
    BY <1>1, SMTT(30) DEF Deleting, Used
<1>8. Releasing'
    BY <1>1, SMTT(30) DEF Releasing, InFlight
<1>9. Uploading'
    BY <1>1, SMTT(30) DEF Uploading
<1>10. Submitting'
    BY <1>1, SMTT(30) DEF Submitting
<1>11. ObjectsOwned'
    BY <1>1, SMTT(30) DEF ObjectsOwned, Covered, Carried
<1>12. PartsOwned'
    BY <1>1, SMTT(30) DEF PartsOwned
<1>13. FileHasSession' /\ BytesHaveSession' /\ ScreenshotKept' /\ Sweeping' /\ JobShape'
    /\ EventShape' /\ UsedIsReadable'
    BY FileHasSessionKept, BytesHaveSessionKept, ScreenshotKeptKept, SweepingKept,
        JobShapeKept, EventShapeKept, UsedIsReadableKept
<1>. QED
    BY <1>2, <1>3, <1>4, <1>5, <1>6, <1>7, <1>8, <1>9, <1>10, <1>11, <1>12, <1>13

\* BeginComplete keeps the invariant.
LEMMA BeginCompleteKeeps ==
  ASSUME IInv, NEW c \in Calls, NEW u \in Uploads, BeginComplete(c, u), UNCHANGED
         sweep, UNCHANGED erasureVars
  PROVE  IInv'
<1>. USE DEF IInv, Rows, Requests, Erasures, Owned
<1>0. PlanTyped
    BY Typed
<1>1. Starts(c, "complete", u, 0, "put")
    BY BeginView DEF BeginComplete, Ops, Points
<1>. USE <1>0 DEF BeginComplete, TypeOK, Kind, Open, InFlight, rowVars, storeVars,
    Statuses, Entities, Ops, Points, erasureVars, Starts, CallTyped, Elsewhere, Idle,
    Owner, PlanTyped, Kinds
<1>2. TypeOK'
    BY <1>1, StorageAssumption, AttemptAssumption, SMTT(30) DEF StorageAssumption,
        AttemptAssumption, JobShape, CallShape, Of, Shapes, Op
<1>3. CallShape'
    BY <1>1, SMTT(30) DEF CallShape, Of, Shapes, Op
<1>4. StoringAlone'
    BY <1>1, SMTT(30) DEF StoringAlone, CallShape, FileHasSession, Storing, Of, Shapes,
        Op
<1>5. StoringFresh'
    BY <1>1, SMTT(30) DEF StoringFresh, CallShape, FileHasSession, Storing, Of, Shapes,
        Op
<1>6. Cancelling'
    BY <1>1, SMTT(30) DEF Cancelling, Op, Of, Storing
<1>7. Deleting'
    BY <1>1, SMTT(30) DEF Deleting, Op, Of, Used
<1>8. Releasing'
    BY <1>1, SMTT(30) DEF Releasing, Op, Of
<1>9. Uploading'
    BY <1>1, SMTT(30) DEF Uploading, CallShape, FileHasSession, Op, Of, Shapes
<1>10. Submitting'
    BY <1>1, SMTT(30) DEF Submitting, Op, Of
<1>11. Sweeping'
    BY <1>1, SMTT(30) DEF Sweeping, Used
<1>12. ObjectsOwned'
    BY <1>1, SMTT(30) DEF ObjectsOwned, Covered, Carried, Of, Op
<1>13. PartsOwned'
    BY <1>1, SMTT(30) DEF PartsOwned, Of, Op
<1>14. UsedIsReadable'
    BY <1>1, SMTT(30) DEF UsedIsReadable, Used
<1>15. FileHasSession' /\ BytesHaveSession' /\ ScreenshotKept' /\ JobShape' /\
    EventShape'
    BY FileHasSessionKept, BytesHaveSessionKept, ScreenshotKeptKept, JobShapeKept,
        EventShapeKept
<1>. QED
    BY <1>2, <1>3, <1>4, <1>5, <1>6, <1>7, <1>8, <1>9, <1>10, <1>11, <1>12, <1>13,
        <1>14, <1>15

\* CancelUpload keeps the invariant.
LEMMA CancelUploadKeeps ==
  ASSUME IInv, NEW c \in Calls, NEW u \in Uploads, CancelUpload(c, u), UNCHANGED
         sweep, UNCHANGED erasureVars
  PROVE  IInv'
<1>. USE DEF IInv, Rows, Requests, Erasures, Owned
<1>0. PlanTyped
    BY Typed
<1>1. Starts(c, "cancel", u, 0, IF u \in partRow THEN "clear" ELSE "drop")
    BY BeginView DEF CancelUpload, Ops, Points
<1>. USE <1>0 DEF CancelUpload, TypeOK, Kind, Open, storeVars, historyVars, Statuses,
    Entities, Ops, Points, erasureVars, Starts, CallTyped, Elsewhere, Idle, Owner,
    PlanTyped, Kinds
<1>2. TypeOK'
    BY <1>1, StorageAssumption, AttemptAssumption, SMTT(30) DEF StorageAssumption,
        AttemptAssumption, JobShape, CallShape, Of, Shapes, Op
<1>3. FileHasSession'
    BY <1>1, SMTT(30) DEF FileHasSession
<1>4. BytesHaveSession'
    BY <1>1, SMTT(30) DEF BytesHaveSession
<1>5. CallShape'
    BY <1>1, SMTT(30) DEF CallShape, Of, Shapes, Op
<1>6. StoringAlone'
    BY <1>1, SMTT(30) DEF StoringAlone, Storing, Of, Op
<1>7. StoringFresh'
    BY <1>1, SMTT(30) DEF StoringFresh, Storing, Of, Op
<1>8. Cancelling'
    BY <1>1, SMTT(30) DEF Cancelling, Op, Of, Storing
<1>9. Deleting'
    BY <1>1, SMTT(30) DEF Deleting, Op, Of, Used
<1>10. Releasing'
    BY <1>1, SMTT(30) DEF Releasing, Op, Of, InFlight
<1>11. Uploading'
    BY <1>1, SMTT(30) DEF Uploading, CallShape, FileHasSession, StoringFresh, Op, Of,
        Shapes, Storing
<1>12. Submitting'
    BY <1>1, SMTT(30) DEF Submitting, Op, Of
<1>13. Sweeping'
    BY <1>1, SMTT(30) DEF Sweeping, Used
<1>14. JobShape'
    BY <1>1, AttemptAssumption, SMTT(30) DEF JobShape, AttemptAssumption
<1>15. EventShape'
    BY <1>1, SMTT(30) DEF EventShape, InScope, Gone, AllErased
<1>16. ObjectsOwned'
    BY <1>1, SMTT(30) DEF ObjectsOwned, Covered, Carried, Of, Op
<1>17. PartsOwned'
    BY <1>1, SMTT(30) DEF PartsOwned, Of, Op
<1>18. ScreenshotKept' /\ UsedIsReadable'
    BY ScreenshotKeptKept, UsedIsReadableKept
<1>. QED
    BY <1>2, <1>3, <1>4, <1>5, <1>6, <1>7, <1>8, <1>9, <1>10, <1>11, <1>12, <1>13,
        <1>14, <1>15, <1>16, <1>17, <1>18

\* BeginDelete keeps the invariant.
LEMMA BeginDeleteKeeps ==
  ASSUME IInv, NEW c \in Calls, NEW u \in Uploads, BeginDelete(c, u), UNCHANGED sweep,
         UNCHANGED erasureVars
  PROVE  IInv'
<1>. USE DEF IInv, Rows, Requests, Erasures, Owned
<1>0. PlanTyped
    BY Typed
<1>1. Starts(c, "delete", u, 0, "commit")
    BY BeginView DEF BeginDelete, Ops, Points
<1>. USE <1>0 DEF BeginDelete, TypeOK, Kind, Used, InFlight, rowVars, storeVars,
    Statuses, Entities, Ops, Points, erasureVars, Starts, CallTyped, Elsewhere, Idle,
    Owner, PlanTyped, Kinds
<1>2. TypeOK'
    BY <1>1, StorageAssumption, AttemptAssumption, SMTT(30) DEF StorageAssumption,
        AttemptAssumption, JobShape, CallShape, Of, Shapes, Op
<1>3. CallShape'
    BY <1>1, SMTT(30) DEF CallShape, FileHasSession, Of, Shapes, Op
<1>4. StoringAlone'
    BY <1>1, SMTT(30) DEF StoringAlone, Storing, Of, Op
<1>5. StoringFresh'
    BY <1>1, SMTT(30) DEF StoringFresh, Storing, Of, Open, Op
<1>6. Cancelling'
    BY <1>1, SMTT(30) DEF Cancelling, Op, Of, Storing
<1>7. Deleting'
    BY <1>1, SMTT(30) DEF Deleting, CallShape, FileHasSession, Op, Of, Shapes
<1>8. Releasing'
    BY <1>1, SMTT(30) DEF Releasing, Op, Of
<1>9. Uploading'
    BY <1>1, SMTT(30) DEF Uploading, Op, Of
<1>10. Submitting'
    BY <1>1, SMTT(30) DEF Submitting, Op, Of
<1>11. Sweeping'
    BY <1>1, SMTT(30) DEF Sweeping
<1>12. ObjectsOwned'
    BY <1>1, SMTT(30) DEF ObjectsOwned, CallShape, FileHasSession, Covered, Of, Shapes,
        Carried, Op
<1>13. PartsOwned'
    BY <1>1, SMTT(30) DEF PartsOwned, Of, Op
<1>14. UsedIsReadable'
    BY <1>1, SMTT(30) DEF UsedIsReadable
<1>15. FileHasSession' /\ BytesHaveSession' /\ ScreenshotKept' /\ JobShape' /\
    EventShape'
    BY FileHasSessionKept, BytesHaveSessionKept, ScreenshotKeptKept, JobShapeKept,
        EventShapeKept
<1>. QED
    BY <1>2, <1>3, <1>4, <1>5, <1>6, <1>7, <1>8, <1>9, <1>10, <1>11, <1>12, <1>13,
        <1>14, <1>15

\* BeginRelease keeps the invariant.
LEMMA BeginReleaseKeeps ==
  ASSUME IInv, NEW c \in Calls, NEW u \in Uploads, BeginRelease(c, u), UNCHANGED
         sweep, UNCHANGED erasureVars
  PROVE  IInv'
<1>. USE DEF IInv, Rows, Requests, Erasures, Owned
<1>0. PlanTyped
    BY Typed
<1>1. Starts(c, "release", u, 0, "commit")
    BY BeginView DEF BeginRelease, Ops, Points
<1>. USE <1>0 DEF BeginRelease, TypeOK, Kind, InFlight, rowVars, storeVars, Statuses,
    Entities, Ops, Points, erasureVars, Starts, CallTyped, Elsewhere, Idle, Owner,
    PlanTyped, Kinds
<1>2. TypeOK'
    BY <1>1, StorageAssumption, AttemptAssumption, SMTT(30) DEF StorageAssumption,
        AttemptAssumption, JobShape, CallShape, Of, Shapes, Op
<1>3. CallShape'
    BY <1>1, SMTT(30) DEF CallShape, FileHasSession, Of, Shapes, Op
<1>4. StoringAlone'
    BY <1>1, SMTT(30) DEF StoringAlone, Storing, Of, Op
<1>5. StoringFresh'
    BY <1>1, SMTT(30) DEF StoringFresh, Storing, Of, Open, Op
<1>6. Cancelling'
    BY <1>1, SMTT(30) DEF Cancelling, Op, Of, Storing
<1>7. Deleting'
    BY <1>1, SMTT(30) DEF Deleting, Op, Of, Used
<1>8. Releasing'
    BY <1>1, SMTT(30) DEF Releasing, Op, Of
<1>9. Uploading'
    BY <1>1, SMTT(30) DEF Uploading, Op, Of
<1>10. Submitting'
    BY <1>1, SMTT(30) DEF Submitting, Op, Of
<1>11. Sweeping'
    BY <1>1, SMTT(30) DEF Sweeping, Used
<1>12. ObjectsOwned'
    BY <1>1, SMTT(30) DEF ObjectsOwned, CallShape, FileHasSession, Covered, Of, Shapes,
        Carried, Op
<1>13. PartsOwned'
    BY <1>1, SMTT(30) DEF PartsOwned, Of, Op
<1>14. UsedIsReadable'
    BY <1>1, SMTT(30) DEF UsedIsReadable, Used
<1>15. FileHasSession' /\ BytesHaveSession' /\ ScreenshotKept' /\ JobShape' /\
    EventShape'
    BY FileHasSessionKept, BytesHaveSessionKept, ScreenshotKeptKept, JobShapeKept,
        EventShapeKept
<1>. QED
    BY <1>2, <1>3, <1>4, <1>5, <1>6, <1>7, <1>8, <1>9, <1>10, <1>11, <1>12, <1>13,
        <1>14, <1>15

\* PutObject keeps the invariant.
LEMMA PutObjectKeeps ==
  ASSUME IInv, NEW c \in Calls, PutObject(c), UNCHANGED sweep, UNCHANGED erasureVars
  PROVE  IInv'
<1>. USE DEF IInv, Rows, Requests, Erasures, Owned
<1>0. PlanTyped
    BY Typed
<1>1. Goes(c, "commit")
    BY GoView DEF PutObject, Points
<1>. USE <1>0 DEF PutObject, TypeOK, At, rowVars, historyVars, Statuses, Entities, Ops,
    Points, Kind, erasureVars, Goes, CallTyped, Elsewhere, Owner, PlanTyped, Kinds
<1>2. TypeOK'
    BY <1>1, StorageAssumption, AttemptAssumption, SMTT(30) DEF CallShape,
        FileHasSession, Idle, Of, Shapes, Op, StorageAssumption, AttemptAssumption,
        JobShape
<1>3. BytesHaveSession'
    BY <1>1, SMTT(30) DEF BytesHaveSession, CallShape, FileHasSession, Idle, Of, Shapes,
        Op
<1>4. ScreenshotKept'
    BY <1>1, SMTT(30) DEF ScreenshotKept
<1>5. CallShape'
    BY <1>1, SMTT(30) DEF CallShape, Idle, Of, Shapes, Op
<1>6. StoringAlone'
    BY <1>1, SMTT(30) DEF StoringAlone, Storing, Of, Op
<1>7. StoringFresh'
    BY <1>1, SMTT(30) DEF StoringFresh, Storing, Of, Open, Op
<1>8. Cancelling'
    BY <1>1, SMTT(30) DEF Cancelling, Op, Of, Storing
<1>9. Deleting'
    BY <1>1, SMTT(30) DEF Deleting, Op, Of, Used
<1>10. Releasing'
    BY <1>1, SMTT(30) DEF Releasing, CallShape, FileHasSession, Op, Of, InFlight, Idle,
        Shapes
<1>11. Uploading'
    BY <1>1, SMTT(30) DEF Uploading, Op, Of
<1>12. Submitting'
    BY <1>1, SMTT(30) DEF Submitting, Op, Of
<1>13. Sweeping'
    BY <1>1, SMTT(30) DEF Sweeping, CallShape, FileHasSession, Submitting, Uploading,
        BytesHaveSession, Used, Idle, Of, Shapes, Op
<1>14. ObjectsOwned'
    BY <1>1, SMTT(30) DEF ObjectsOwned, Covered, Carried, Of, Op
<1>15. PartsOwned'
    BY <1>1, SMTT(30) DEF PartsOwned, Of, Op
<1>16. UsedIsReadable'
    BY <1>1, SMTT(30) DEF UsedIsReadable, Used
<1>17. FileHasSession' /\ JobShape' /\ EventShape'
    BY FileHasSessionKept, JobShapeKept, EventShapeKept
<1>. QED
    BY <1>2, <1>3, <1>4, <1>5, <1>6, <1>7, <1>8, <1>9, <1>10, <1>11, <1>12, <1>13,
        <1>14, <1>15, <1>16, <1>17

\* PutFails keeps the invariant.
LEMMA PutFailsKeeps ==
  ASSUME IInv, NEW c \in Calls, PutFails(c), UNCHANGED sweep, UNCHANGED erasureVars
  PROVE  IInv'
<1>. USE DEF IInv, Rows, Requests, Erasures, Owned
<1>0. PlanTyped
    BY Typed
<1>1. Ends(c)
    BY ReturnView DEF PutFails
<1>. USE <1>0 DEF PutFails, TypeOK, At, Fault, storeVars, Leave, rowVars, Statuses,
    Entities, Ops, Points, Idle, Kind, erasureVars, Ends, CallTyped, Elsewhere, Owner,
    PlanTyped, Kinds
<1>2. TypeOK'
    BY <1>1, StorageAssumption, AttemptAssumption, SMTT(30) DEF CallShape,
        FileHasSession, Of, Shapes, Op, StorageAssumption, AttemptAssumption, JobShape
<1>3. BytesHaveSession'
    BY <1>1, SMTT(30) DEF BytesHaveSession, CallShape, FileHasSession, Of, Shapes, Op
<1>4. ScreenshotKept'
    BY <1>1, SMTT(30) DEF ScreenshotKept
<1>5. CallShape'
    BY <1>1, SMTT(30) DEF CallShape, Of, Shapes, Op
<1>6. StoringAlone'
    BY <1>1, SMTT(30) DEF StoringAlone, Storing, Of, Op
<1>7. StoringFresh'
    BY <1>1, SMTT(30) DEF StoringFresh, Storing, Of, Open, Op
<1>8. Cancelling'
    BY <1>1, SMTT(30) DEF Cancelling, Op, Of, Storing
<1>9. Deleting'
    BY <1>1, SMTT(30) DEF Deleting, Op, Of, Used
<1>10. Releasing'
    BY <1>1, SMTT(30) DEF Releasing, Op, Of, InFlight
<1>11. Uploading'
    BY <1>1, SMTT(30) DEF Uploading, Op, Of
<1>12. Submitting'
    BY <1>1, SMTT(30) DEF Submitting, Op, Of
<1>13. Sweeping'
    BY <1>1, SMTT(30) DEF Sweeping, CallShape, FileHasSession, Submitting, Uploading,
        BytesHaveSession, Used, Of, Shapes, Op
<1>14. ObjectsOwned'
  <2>1. ASSUME NEW v \in Uploads
        PROVE  Carried(v) => Carried(v)'
    BY <1>1 DEF Carried, Ends, Elsewhere, PutFails, At, Op, Of
  <2>2. \A v \in objects' \ stray' :
          v \in objects \ stray \/ (v = Of(c) /\ session[v] = "initiated")
    BY DEF PutFails, At, Leave, storeVars, Of
  <2>3. /\ UNCHANGED <<session, file, er, job>>
        /\ job[Of(c)] = "mark" => session[Of(c)] # "initiated"
    BY DEF PutFails, rowVars, erasureVars, JobShape, CallShape, Idle, At, Of
  <2>. QED
    BY <2>1, <2>2, <2>3 DEF ObjectsOwned, Covered
<1>15. PartsOwned'
    BY <1>1, SMTT(30) DEF PartsOwned, Of, Op
<1>16. UsedIsReadable'
    BY <1>1, SMTT(30) DEF UsedIsReadable, Used
<1>17. FileHasSession' /\ JobShape' /\ EventShape'
    BY FileHasSessionKept, JobShapeKept, EventShapeKept
<1>. QED
    BY <1>2, <1>3, <1>4, <1>5, <1>6, <1>7, <1>8, <1>9, <1>10, <1>11, <1>12, <1>13,
        <1>14, <1>15, <1>16, <1>17

\* DropObject keeps the invariant.
LEMMA DropObjectKeeps ==
  ASSUME IInv, NEW c \in Calls, DropObject(c), UNCHANGED sweep, UNCHANGED erasureVars
  PROVE  IInv'
<1>. USE DEF IInv, Rows, Requests, Erasures, Owned
<1>0. PlanTyped
    BY Typed
<1>1. Proceeds(c)
    BY ProceedView DEF DropObject
<1>. USE <1>0 DEF DropObject, TypeOK, rowVars, historyVars, Statuses, Entities, Ops,
    Points, erasureVars, Proceeds, Ends, Op, Goes, CallTyped, Elsewhere, Idle, Owner,
    Kind, PlanTyped, Kinds
<1>2. TypeOK'
    BY <1>1, StorageAssumption, AttemptAssumption, SMTT(30) DEF StorageAssumption,
        AttemptAssumption, JobShape, CallShape, Of, Shapes
<1>3. BytesHaveSession'
    BY <1>1, SMTT(30) DEF BytesHaveSession
<1>4. ScreenshotKept'
    BY <1>1, SMTT(30) DEF ScreenshotKept, CallShape, FileHasSession, Of, Shapes
<1>5. CallShape'
    BY <1>1, SMTT(30) DEF CallShape, Of, Shapes
<1>6. StoringAlone'
    BY <1>1, SMTT(30) DEF StoringAlone, Storing, Of
<1>7. StoringFresh'
    BY <1>1, SMTT(30) DEF StoringFresh, CallShape, FileHasSession, StoringAlone,
        Cancelling, BytesHaveSession, Deleting, JobShape, Storing, Of, Open, Shapes,
        Used
<1>8. Cancelling'
    BY <1>1, SMTT(30) DEF Cancelling, Of, Storing
<1>9. Deleting'
    BY <1>1, SMTT(30) DEF Deleting, Of, Used
<1>10. Releasing'
    BY <1>1, SMTT(30) DEF Releasing, Of, InFlight
<1>11. Uploading'
  <2>1. CASE Ends(c)
    BY <2>1, SMTT(30) DEF Uploading, CallShape, FileHasSession, Of, Shapes
  <2>2. CASE ~Ends(c)
    BY <1>1, <2>2, SMTT(30) DEF Uploading, CallShape, FileHasSession, Of, Shapes
  <2>. QED
    BY <2>1, <2>2
<1>12. Submitting'
    BY <1>1, SMTT(30) DEF Submitting, CallShape, FileHasSession, Of, Shapes
<1>13. Sweeping'
    BY <1>1, SMTT(30) DEF Sweeping, Used
<1>14. ObjectsOwned'
  <2>1. CASE Ends(c)
    BY <2>1, SMTT(30) DEF ObjectsOwned, Covered, Carried, Of
  <2>2. CASE Goes(c, "clear")
    BY <2>2, SMTT(30) DEF ObjectsOwned, Covered, Carried, Of
  <2>3. CASE Goes(c, "drop") /\ Op(c) = "cancel"
    BY <2>3, SMTT(30) DEF ObjectsOwned, Covered, Carried, Of
  <2>. QED
    BY <1>1, <2>1, <2>2, <2>3
<1>15. PartsOwned'
    BY <1>1, SMTT(30) DEF PartsOwned, Of
<1>16. UsedIsReadable'
    BY <1>1, SMTT(30) DEF UsedIsReadable, StoringFresh, Deleting, Cancelling, CallShape,
        FileHasSession, Used, Storing, Of, Open, Shapes
<1>17. FileHasSession' /\ JobShape' /\ EventShape'
    BY FileHasSessionKept, JobShapeKept, EventShapeKept
<1>. QED
    BY <1>2, <1>3, <1>4, <1>5, <1>6, <1>7, <1>8, <1>9, <1>10, <1>11, <1>12, <1>13,
        <1>14, <1>15, <1>16, <1>17

\* ClearParts keeps the invariant.
LEMMA ClearPartsKeeps ==
  ASSUME IInv, NEW c \in Calls, ClearParts(c), UNCHANGED sweep, UNCHANGED erasureVars
  PROVE  IInv'
<1>. USE DEF IInv, Rows, Requests, Erasures, Owned
<1>0. PlanTyped
    BY Typed
<1>1. Proceeds(c)
    BY ProceedView DEF ClearParts
<1>. USE <1>0 DEF ClearParts, TypeOK, rowVars, historyVars, Statuses, Entities, Ops,
    Points, erasureVars, Proceeds, Ends, Op, Goes, CallTyped, Elsewhere, Idle, Owner,
    Kind, PlanTyped, Kinds
<1>2. TypeOK'
    BY <1>1, StorageAssumption, AttemptAssumption, SMTT(30) DEF StorageAssumption,
        AttemptAssumption, JobShape, CallShape, Of, Shapes
<1>3. BytesHaveSession'
    BY <1>1, SMTT(30) DEF BytesHaveSession
<1>4. CallShape'
    BY <1>1, SMTT(30) DEF CallShape, Of, Shapes
<1>5. StoringAlone'
    BY <1>1, SMTT(30) DEF StoringAlone, Storing, Of
<1>6. StoringFresh'
    BY <1>1, SMTT(30) DEF StoringFresh, Storing, Of, Open
<1>7. Cancelling'
    BY <1>1, SMTT(30) DEF Cancelling, Of, Storing
<1>8. Deleting'
    BY <1>1, SMTT(30) DEF Deleting, Of, Used
<1>9. Releasing'
    BY <1>1, SMTT(30) DEF Releasing, Of, InFlight
<1>10. Uploading'
    BY <1>1, SMTT(30) DEF Uploading, Of
<1>11. Submitting'
    BY <1>1, SMTT(30) DEF Submitting, Of
<1>12. ObjectsOwned'
    BY <1>1, SMTT(30) DEF ObjectsOwned, CallShape, FileHasSession, JobShape,
        StoringFresh, Cancelling, Covered, Of, Shapes, Storing, Open, Carried
<1>13. PartsOwned'
    BY <1>1, SMTT(30) DEF PartsOwned, Of
<1>14. FileHasSession' /\ ScreenshotKept' /\ Sweeping' /\ JobShape' /\ EventShape' /\
    UsedIsReadable'
    BY FileHasSessionKept, ScreenshotKeptKept, SweepingKept, JobShapeKept,
        EventShapeKept, UsedIsReadableKept
<1>. QED
    BY <1>2, <1>3, <1>4, <1>5, <1>6, <1>7, <1>8, <1>9, <1>10, <1>11, <1>12, <1>13, <1>14

\* DeletionFails keeps the invariant.
LEMMA DeletionFailsKeeps ==
  ASSUME IInv, NEW c \in Calls, DeletionFails(c), UNCHANGED sweep, UNCHANGED
         erasureVars
  PROVE  IInv'
<1>. USE DEF IInv, Rows, Requests, Erasures, Owned
<1>0. PlanTyped
    BY Typed
<1>1. Proceeds(c)
    BY ProceedView DEF DeletionFails
<1>. USE <1>0 DEF DeletionFails, TypeOK, Fault, Leave, rowVars, storeVars, Statuses,
    Entities, Ops, Points, Idle, Of, Kind, Op, erasureVars, Proceeds, Ends, Goes,
    CallTyped, Elsewhere, Owner, PlanTyped, Kinds
<1>2. TypeOK'
    BY <1>1, StorageAssumption, AttemptAssumption, SMTT(30) DEF CallShape,
        FileHasSession, Shapes, StorageAssumption, AttemptAssumption, JobShape
<1>3. CallShape'
    BY <1>1, SMTT(30) DEF CallShape, Shapes
<1>4. StoringAlone'
    BY <1>1, SMTT(30) DEF StoringAlone, Storing
<1>5. StoringFresh'
    BY <1>1, SMTT(30) DEF StoringFresh, Storing, Open
<1>6. Cancelling'
    BY <1>1, SMTT(30) DEF Cancelling, Storing
<1>7. Deleting'
    BY <1>1, SMTT(30) DEF Deleting, Used
<1>8. Releasing'
    BY <1>1, SMTT(30) DEF Releasing, InFlight
<1>9. Uploading'
    BY <1>1, SMTT(30) DEF Uploading
<1>10. Submitting'
    BY <1>1, SMTT(30) DEF Submitting
<1>11. ObjectsOwned'
  <2>1. ASSUME NEW v \in Uploads, v # Of(c)
        PROVE  Carried(v) => Carried(v)'
    BY <1>1, <2>1 DEF Carried, Proceeds, Goes, Ends, Elsewhere, Op, Of
  <2>2. ASSUME NEW v \in Uploads, v = Of(c), Carried(v), v \in objects' \ stray'
        PROVE  Carried(v)' \/ session[v] = "initiated"
    BY <1>0, <1>1, <2>2 DEF DeletionFails, Carried, CallShape, Uploading, Cancelling, Storing, Shapes,
       Kind, Kinds, Idle, Proceeds, Goes, Ends, Elsewhere, Leave, At, Op, Of, storeVars, historyVars, rowVars
  <2>3. objects' \ stray' \subseteq objects \ stray 
    BY DEF DeletionFails, Leave, storeVars, At, Op, Of, historyVars
  <2>4. UNCHANGED <<session, file, er, job>> /\ (job[Of(c)] = "mark" => session[Of(c)] # "initiated")
    BY DEF DeletionFails, rowVars, erasureVars, JobShape, CallShape, Idle, At, Of
  <2>. QED
    BY <2>1, <2>2, <2>3, <2>4 DEF ObjectsOwned, Covered, PlanTyped
<1>12. PartsOwned'
    BY <1>1, SMTT(30) DEF PartsOwned, Uploading, Cancelling, BytesHaveSession,
        CallShape, FileHasSession, Storing, Shapes
<1>13. FileHasSession' /\ BytesHaveSession' /\ ScreenshotKept' /\ Sweeping' /\ JobShape'
    /\ EventShape' /\ UsedIsReadable'
    BY FileHasSessionKept, BytesHaveSessionKept, ScreenshotKeptKept, SweepingKept,
        JobShapeKept, EventShapeKept, UsedIsReadableKept
<1>. QED
    BY <1>2, <1>3, <1>4, <1>5, <1>6, <1>7, <1>8, <1>9, <1>10, <1>11, <1>12, <1>13

\* CommitUpload keeps the invariant.
LEMMA CommitUploadKeeps ==
  ASSUME IInv, NEW c \in Calls, CommitUpload(c), UNCHANGED sweep, UNCHANGED
         erasureVars
  PROVE  IInv'
<1>. USE DEF IInv, Rows, Requests, Erasures, Owned
<1>0. PlanTyped
    BY Typed
<1>1. TypeOK'
  <2>1. Of(c) \in Uploads /\ call[c].op \in {"avatar", "complete"}
    BY DEF CommitUpload, At, CallShape, Of, Idle
  <2>2. PICK f \in Target(Of(c)) : Complete(c, Of(c), f, AfterCommit(call[c].op, Of(c), f))
    BY DEF CommitUpload, Of
  <2>3. f \in Uploads /\ AfterCommit(call[c].op, Of(c), f) \in Points
    BY <2>1, <2>2 DEF Target, Same, AfterCommit, Points
  <2>4. CallTyped'
    BY <2>1, <2>2, <2>3 DEF TypeOK, Complete, CompleteAvatarUpload, CompleteUpload, Completed,
       CallTyped, Idle, Ops, Points
  <2>5. usage' \subseteq Uploads \X Entities
    BY <1>0, <2>1, <2>2, <2>3 DEF TypeOK, Complete, CompleteAvatarUpload, CompleteUpload,
       Avatar, Entities, PlanTyped
  <2>6. faults' \in 0..MaxFaults
    BY StorageAssumption DEF TypeOK, CommitUpload, Fault, StorageAssumption
  <2>7. /\ session' \in [Uploads -> Statuses] /\ file' \in [Uploads -> {"none", "ready", "deleted"}]
        /\ fileOf' \in [Uploads -> Uploads \cup {NoFile}]
    BY <2>1, <2>2, <2>3 DEF TypeOK, Complete, CompleteAvatarUpload, CompleteUpload, Completed,
       Statuses
  <2>8. exposed' \subseteq Uploads /\ stray' \subseteq Uploads
    BY <2>1 DEF TypeOK, CommitUpload, historyVars, Of
  <2>9. UNCHANGED <<plan, late, partRow, account, storeVars, sweep, erasureVars>>
    BY <2>2 DEF Complete
  <2>. QED
    BY <2>4, <2>5, <2>6, <2>7, <2>8, <2>9 DEF TypeOK, CallTyped, storeVars, erasureVars
<1>. USE <1>0 DEF CommitUpload, TypeOK, At, Target, Complete, AfterCommit, historyVars,
    Statuses, Entities, Ops, Points, Kind, Idle, Same, Open, Gone, Owner,
    CompleteAvatarUpload, CompleteUpload, storeVars, Completed, Avatar, erasureVars,
    PlanTyped, Kinds
<1>2. FileHasSession'
    BY SMTT(30) DEF FileHasSession, CallShape, Of, Shapes, Op
<1>3. BytesHaveSession'
    BY SMTT(30) DEF BytesHaveSession
<1>4. ScreenshotKept'
    BY SMTT(30) DEF ScreenshotKept, CallShape, FileHasSession, Of, Shapes, Op
<1>5. CallShape'
    BY SMTT(30) DEF CallShape, FileHasSession, Of, Shapes, Op
<1>6. StoringAlone'
    BY SMTT(30) DEF StoringAlone, Storing, Of, Op
<1>7. StoringFresh'
    BY SMTT(30) DEF StoringFresh, CallShape, FileHasSession, StoringAlone, Cancelling,
        BytesHaveSession, Deleting, JobShape, Storing, Of, Shapes, Op, Used
<1>8. Cancelling'
    BY SMTT(30) DEF Cancelling, CallShape, FileHasSession, Op, Of, Storing, Shapes
<1>9. Deleting'
    BY SMTT(30) DEF Deleting, CallShape, FileHasSession, Op, Of, Used, Shapes
<1>10. Releasing'
    BY SMTT(30) DEF Releasing, CallShape, FileHasSession, Op, Of, InFlight, Shapes
<1>11. Uploading'
    BY SMTT(30) DEF Uploading, CallShape, FileHasSession, Op, Of, Shapes
<1>12. Submitting'
    BY SMTT(30) DEF Submitting, CallShape, FileHasSession, Op, Of, Shapes
<1>13. Sweeping'
    BY SMTT(30) DEF Sweeping, Used
<1>14. JobShape'
    BY AttemptAssumption, SMTT(30) DEF JobShape, AttemptAssumption
<1>15. EventShape'
    BY SMTT(30) DEF EventShape, InScope, AllErased
<1>16. ObjectsOwned'
    BY SMTT(30) DEF ObjectsOwned, CallShape, FileHasSession, JobShape, StoringFresh,
        Cancelling, Covered, Of, Shapes, Storing, Op, Carried
<1>17. PartsOwned'
    BY SMTT(30) DEF PartsOwned, CallShape, FileHasSession, Cancelling, StoringFresh,
        BytesHaveSession, Of, Op, Shapes, Storing
<1>18. UsedIsReadable'
    BY SMTT(30) DEF UsedIsReadable, CallShape, FileHasSession, Deleting, Sweeping,
        JobShape, Submitting, Releasing, StoringFresh, Uploading, Used, Of, Shapes, Op,
        InFlight, Storing
<1>. QED
    BY <1>1, <1>2, <1>3, <1>4, <1>5, <1>6, <1>7, <1>8, <1>9, <1>10, <1>11, <1>12, <1>13,
        <1>14, <1>15, <1>16, <1>17, <1>18

\* CommitUnanswered keeps the invariant.
LEMMA CommitUnansweredKeeps ==
  ASSUME IInv, NEW c \in Calls, CommitUnanswered(c), UNCHANGED sweep, UNCHANGED
         erasureVars
  PROVE  IInv'
<1>. USE DEF IInv, Rows, Requests, Erasures, Owned
<1>0. PlanTyped
    BY Typed
<1>1. TypeOK'
  <2>1. Of(c) \in Uploads /\ call[c].op \in {"avatar", "complete"}
    BY DEF CommitUnanswered, At, CallShape, Of, Idle
  <2>2. PICK f \in Target(Of(c)) : Complete(c, Of(c), f, "undo")
    BY DEF CommitUnanswered, Of
  <2>3. f \in Uploads /\ "undo" \in Points
    BY <2>1, <2>2 DEF Target, Same, AfterCommit, Points
  <2>4. CallTyped'
    BY <2>1, <2>2, <2>3 DEF TypeOK, Complete, CompleteAvatarUpload, CompleteUpload, Completed,
       CallTyped, Idle, Ops, Points
  <2>5. usage' \subseteq Uploads \X Entities
    BY <1>0, <2>1, <2>2, <2>3 DEF TypeOK, Complete, CompleteAvatarUpload, CompleteUpload,
       Avatar, Entities, PlanTyped
  <2>6. faults' \in 0..MaxFaults
    BY StorageAssumption DEF TypeOK, CommitUnanswered, Fault, StorageAssumption
  <2>7. /\ session' \in [Uploads -> Statuses] /\ file' \in [Uploads -> {"none", "ready", "deleted"}]
        /\ fileOf' \in [Uploads -> Uploads \cup {NoFile}]
    BY <2>1, <2>2, <2>3 DEF TypeOK, Complete, CompleteAvatarUpload, CompleteUpload, Completed,
       Statuses
  <2>8. exposed' \subseteq Uploads /\ stray' \subseteq Uploads
    BY <2>1 DEF TypeOK, CommitUnanswered, historyVars, Of
  <2>9. UNCHANGED <<plan, late, partRow, account, storeVars, sweep, erasureVars>>
    BY <2>2 DEF Complete
  <2>. QED
    BY <2>4, <2>5, <2>6, <2>7, <2>8, <2>9 DEF TypeOK, CallTyped, storeVars, erasureVars
<1>. USE <1>0 DEF CommitUnanswered, TypeOK, At, Fault, Target, Complete, Statuses,
    Entities, Ops, Points, Kind, Idle, Same, Open, Gone, Owner, CompleteAvatarUpload,
    CompleteUpload, storeVars, Completed, Avatar, erasureVars, PlanTyped, Kinds
<1>2. FileHasSession'
    BY SMTT(30) DEF FileHasSession, CallShape, Of, Shapes, Op
<1>3. BytesHaveSession'
    BY SMTT(30) DEF BytesHaveSession
<1>4. ScreenshotKept'
    BY SMTT(30) DEF ScreenshotKept, CallShape, FileHasSession, Of, Shapes, Op
<1>5. CallShape'
    BY SMTT(30) DEF CallShape, Of, Shapes, Op
<1>6. StoringAlone'
    BY SMTT(30) DEF StoringAlone, Storing, Of, Op
<1>7. StoringFresh'
    BY SMTT(30) DEF StoringFresh, CallShape, FileHasSession, Storing, Of, Shapes, Op
<1>8. Cancelling'
    BY SMTT(30) DEF Cancelling, CallShape, FileHasSession, Op, Of, Storing, Shapes
<1>9. Deleting'
    BY SMTT(30) DEF Deleting, CallShape, FileHasSession, Op, Of, Used, Shapes
<1>10. Releasing'
    BY SMTT(30) DEF Releasing, CallShape, FileHasSession, Op, Of, InFlight, Shapes
<1>11. Uploading'
    BY SMTT(30) DEF Uploading, CallShape, FileHasSession, Op, Of, Shapes
<1>12. Submitting'
    BY SMTT(30) DEF Submitting, CallShape, FileHasSession, Op, Of, Shapes
<1>13. Sweeping'
    BY SMTT(30) DEF Sweeping, Used
<1>14. JobShape'
    BY AttemptAssumption, SMTT(30) DEF JobShape, AttemptAssumption
<1>15. EventShape'
    BY SMTT(30) DEF EventShape, InScope, AllErased
<1>16. ObjectsOwned'
    BY SMTT(30) DEF ObjectsOwned, CallShape, FileHasSession, Covered, Of, Shapes,
        Carried, Op
<1>17. PartsOwned'
    BY SMTT(30) DEF PartsOwned, FileHasSession, BytesHaveSession, ScreenshotKept,
        CallShape, StoringAlone, StoringFresh, Cancelling, Deleting, Releasing,
        Uploading, Submitting, Sweeping, JobShape, EventShape, ObjectsOwned,
        UsedIsReadable, Of, Op, Shapes, Storing, Used, InFlight, InScope, AllErased,
        Covered, Carried
<1>18. UsedIsReadable'
    BY SMTT(30) DEF UsedIsReadable, Used
<1>. QED
    BY <1>1, <1>2, <1>3, <1>4, <1>5, <1>6, <1>7, <1>8, <1>9, <1>10, <1>11, <1>12, <1>13,
        <1>14, <1>15, <1>16, <1>17, <1>18

\* CommitRefused keeps the invariant.
LEMMA CommitRefusedKeeps ==
  ASSUME IInv, NEW c \in Calls, CommitRefused(c), UNCHANGED sweep, UNCHANGED
         erasureVars
  PROVE  IInv'
<1>. USE DEF IInv, Rows, Requests, Erasures, Owned
<1>0. PlanTyped
    BY Typed
<1>1. Goes(c, "undo")
    BY GoView DEF CommitRefused, Points
<1>. USE <1>0 DEF CommitRefused, TypeOK, At, Open, Gone, Owner, rowVars, storeVars,
    historyVars, Statuses, Entities, Ops, Points, erasureVars, Goes, CallTyped,
    Elsewhere, Of, Op, Kind, PlanTyped, Kinds
<1>2. TypeOK'
    BY <1>1, StorageAssumption, AttemptAssumption, SMTT(30) DEF StorageAssumption,
        AttemptAssumption, JobShape, CallShape, Idle, Shapes
<1>3. CallShape'
    BY <1>1, SMTT(30) DEF CallShape, Idle, Shapes
<1>4. StoringAlone'
    BY <1>1, SMTT(30) DEF StoringAlone, Storing
<1>5. StoringFresh'
    BY <1>1, SMTT(30) DEF StoringFresh, Storing
<1>6. Cancelling'
    BY <1>1, SMTT(30) DEF Cancelling, Storing
<1>7. Deleting'
    BY <1>1, SMTT(30) DEF Deleting, Used
<1>8. Releasing'
    BY <1>1, SMTT(30) DEF Releasing, InFlight
<1>9. Uploading'
    BY <1>1, SMTT(30) DEF Uploading
<1>10. Submitting'
    BY <1>1, SMTT(30) DEF Submitting
<1>11. ObjectsOwned'
    BY <1>1, SMTT(30) DEF ObjectsOwned, CallShape, FileHasSession, JobShape,
        StoringFresh, Cancelling, Covered, Idle, Shapes, Storing, Carried
<1>12. PartsOwned'
    BY <1>1, SMTT(30) DEF PartsOwned
<1>13. FileHasSession' /\ BytesHaveSession' /\ ScreenshotKept' /\ Sweeping' /\ JobShape'
    /\ EventShape' /\ UsedIsReadable'
    BY FileHasSessionKept, BytesHaveSessionKept, ScreenshotKeptKept, SweepingKept,
        JobShapeKept, EventShapeKept, UsedIsReadableKept
<1>. QED
    BY <1>2, <1>3, <1>4, <1>5, <1>6, <1>7, <1>8, <1>9, <1>10, <1>11, <1>12, <1>13

\* CommitFails keeps the invariant.
LEMMA CommitFailsKeeps ==
  ASSUME IInv, NEW c \in Calls, CommitFails(c), UNCHANGED sweep, UNCHANGED erasureVars
  PROVE  IInv'
<1>. USE DEF IInv, Rows, Requests, Erasures, Owned
<1>0. PlanTyped
    BY Typed
<1>1. Goes(c, IF Op(c) = "part" THEN "clear" ELSE "undo")
    BY GoView DEF CommitFails, Points, Op
<1>. USE <1>0 DEF CommitFails, TypeOK, At, Fault, Open, storeVars, historyVars,
    Statuses, Entities, Ops, Points, Of, Kind, Op, erasureVars, Goes, CallTyped,
    Elsewhere, Owner, PlanTyped, Kinds
<1>2. TypeOK'
    BY <1>1, StorageAssumption, AttemptAssumption, SMTT(30) DEF CallShape,
        FileHasSession, Idle, Shapes, StorageAssumption, AttemptAssumption, JobShape
<1>3. CallShape'
    BY <1>1, SMTT(30) DEF CallShape, Idle, Shapes
<1>4. StoringAlone'
    BY <1>1, SMTT(30) DEF StoringAlone, Storing
<1>5. StoringFresh'
    BY <1>1, SMTT(30) DEF StoringFresh, Storing
<1>6. Cancelling'
    BY <1>1, SMTT(30) DEF Cancelling, Storing
<1>7. Deleting'
    BY <1>1, SMTT(30) DEF Deleting, Used
<1>8. Releasing'
    BY <1>1, SMTT(30) DEF Releasing, InFlight
<1>9. Uploading'
    BY <1>1, SMTT(30) DEF Uploading
<1>10. Submitting'
    BY <1>1, SMTT(30) DEF Submitting
<1>11. ObjectsOwned'
    BY <1>1, SMTT(30) DEF ObjectsOwned, Covered, Carried
<1>12. PartsOwned'
    BY <1>1, SMTT(30) DEF PartsOwned
<1>13. FileHasSession' /\ BytesHaveSession' /\ ScreenshotKept' /\ Sweeping' /\ JobShape'
    /\ EventShape' /\ UsedIsReadable'
    BY FileHasSessionKept, BytesHaveSessionKept, ScreenshotKeptKept, SweepingKept,
        JobShapeKept, EventShapeKept, UsedIsReadableKept
<1>. QED
    BY <1>2, <1>3, <1>4, <1>5, <1>6, <1>7, <1>8, <1>9, <1>10, <1>11, <1>12, <1>13

\* UpsertPart keeps the invariant.
LEMMA UpsertPartKeeps ==
  ASSUME IInv, NEW c \in Calls, UpsertPart(c), UNCHANGED sweep, UNCHANGED erasureVars
  PROVE  IInv'
<1>. USE DEF IInv, Rows, Requests, Erasures, Owned
<1>0. PlanTyped
    BY Typed
<1>1. Ends(c)
    BY ReturnView DEF UpsertPart
<1>. USE DEF UpsertPart, TypeOK, At, Open, Leave, storeVars, Statuses, Entities,
    Ops, Points, Idle, Of, Kind, Op, erasureVars, Ends, CallTyped, Elsewhere, Owner,
    PlanTyped, Kinds
<1>2. TypeOK'
    BY <1>1, StorageAssumption, AttemptAssumption, SMTT(30) DEF CallShape,
        FileHasSession, Shapes, StorageAssumption, AttemptAssumption, JobShape
<1>. USE <1>0
<1>3. CallShape'
    BY <1>1, SMTT(30) DEF CallShape, Shapes
<1>4. StoringAlone'
    BY <1>1, SMTT(30) DEF StoringAlone, Storing
<1>5. StoringFresh'
    BY <1>1, SMTT(30) DEF StoringFresh, Storing
<1>6. Cancelling'
    BY <1>1, SMTT(30) DEF Cancelling, Storing
<1>7. Deleting'
    BY <1>1, SMTT(30) DEF Deleting, Used
<1>8. Releasing'
    BY <1>1, SMTT(30) DEF Releasing, InFlight
<1>9. Uploading'
    BY <1>1, SMTT(30) DEF Uploading
<1>10. Submitting'
    BY <1>1, SMTT(30) DEF Submitting
<1>11. ObjectsOwned'
    BY <1>1, SMTT(30) DEF ObjectsOwned, Covered, Carried
<1>12. PartsOwned'
    BY <1>1, SMTT(30) DEF PartsOwned, CallShape, FileHasSession, Shapes
<1>13. FileHasSession' /\ BytesHaveSession' /\ ScreenshotKept' /\ Sweeping' /\ JobShape'
    /\ EventShape' /\ UsedIsReadable'
    BY FileHasSessionKept, BytesHaveSessionKept, ScreenshotKeptKept, SweepingKept,
        JobShapeKept, EventShapeKept, UsedIsReadableKept
<1>. QED
    BY <1>2, <1>3, <1>4, <1>5, <1>6, <1>7, <1>8, <1>9, <1>10, <1>11, <1>12, <1>13

\* DeleteFile keeps the invariant.
LEMMA DeleteFileKeeps ==
  ASSUME IInv, NEW c \in Calls, DeleteFile(c), UNCHANGED sweep, UNCHANGED erasureVars
  PROVE  IInv'
<1>. USE DEF IInv, Rows, Requests, Erasures, Owned
<1>0. PlanTyped
    BY Typed
<1>1. IF file[Of(c)] = "ready" THEN Goes(c, "drop") ELSE Ends(c)
    BY GoView, ReturnView DEF DeleteFile, Points, Of
<1>2. TypeOK'
  <2>1. CallTyped'
    BY <1>1 DEF Goes, Ends
  <2>. QED
    BY <2>1 DEF TypeOK, DeleteFile, CallTyped, storeVars, historyVars, erasureVars
<1>. USE <1>0 DEF DeleteFile, TypeOK, At, storeVars, historyVars, Statuses, Entities,
    Ops, Points, Kind, erasureVars, Goes, Ends, CallTyped, Elsewhere, Idle, Owner,
    PlanTyped, Kinds
<1>3. FileHasSession'
    BY <1>1, SMTT(30) DEF FileHasSession
<1>4. ScreenshotKept'
    BY <1>1, SMTT(30) DEF ScreenshotKept
<1>5. CallShape'
    BY <1>1, SMTT(30) DEF CallShape, Of, Shapes, Op
<1>6. StoringAlone'
    BY <1>1, SMTT(30) DEF StoringAlone, Storing, Of, Op
<1>7. StoringFresh'
    BY <1>1, SMTT(30) DEF StoringFresh, CallShape, FileHasSession, Storing, Of, Open,
        Shapes, Op
<1>8. Cancelling'
    BY <1>1, SMTT(30) DEF Cancelling, Op, Of, Storing
<1>9. Deleting'
    BY <1>1, SMTT(30) DEF Deleting, CallShape, FileHasSession, Op, Of, Used, Shapes
<1>10. Releasing'
    BY <1>1, SMTT(30) DEF Releasing, CallShape, FileHasSession, Op, Of, InFlight, Shapes
<1>11. Uploading'
    BY <1>1, SMTT(30) DEF Uploading, Op, Of
<1>12. Submitting'
    BY <1>1, SMTT(30) DEF Submitting, CallShape, FileHasSession, Op, Of, Shapes
<1>13. JobShape'
    BY <1>1, AttemptAssumption, SMTT(30) DEF JobShape, AttemptAssumption
<1>14. ObjectsOwned'
    BY <1>1, SMTT(30) DEF ObjectsOwned, Covered, Carried, Of, Op
<1>15. PartsOwned'
    BY <1>1, SMTT(30) DEF PartsOwned, CallShape, FileHasSession, Of, Op, Shapes
<1>16. UsedIsReadable'
    BY <1>1, SMTT(30) DEF UsedIsReadable, CallShape, FileHasSession, Deleting, Sweeping,
        JobShape, Submitting, Releasing, StoringFresh, Uploading, Used, Of, Shapes, Op,
        InFlight, Storing, Open
<1>17. BytesHaveSession' /\ Sweeping' /\ EventShape'
    BY BytesHaveSessionKept, SweepingKept, EventShapeKept
<1>. QED
    BY <1>2, <1>3, <1>4, <1>5, <1>6, <1>7, <1>8, <1>9, <1>10, <1>11, <1>12, <1>13,
        <1>14, <1>15, <1>16, <1>17

\* CreateDraft keeps the invariant.
LEMMA CreateDraftKeeps ==
  ASSUME IInv, NEW c \in Calls, CreateDraft(c), UNCHANGED sweep, UNCHANGED erasureVars
  PROVE  IInv'
<1>. USE DEF IInv, Rows, Requests, Erasures, Owned
<1>0. PlanTyped
    BY Typed
<1>1. Ends(c)
    BY ReturnView DEF CreateDraft
<1>. USE <1>0 DEF CreateDraft, TypeOK, At, Release, storeVars, historyVars, Statuses,
    Entities, Ops, Points, Idle, Of, Kind, Op, erasureVars, Ends, CallTyped, Elsewhere,
    Owner, PlanTyped, Kinds
<1>2. TypeOK'
    BY <1>1, StorageAssumption, AttemptAssumption, SMTT(30) DEF CallShape,
        FileHasSession, Shapes, StorageAssumption, AttemptAssumption, JobShape
<1>3. CallShape'
    BY <1>1, SMTT(30) DEF CallShape, Shapes
<1>4. StoringAlone'
    BY <1>1, SMTT(30) DEF StoringAlone, Storing
<1>5. StoringFresh'
    BY <1>1, SMTT(30) DEF StoringFresh, Storing, Open
<1>6. Cancelling'
    BY <1>1, SMTT(30) DEF Cancelling, Storing
<1>7. Deleting'
    BY <1>1, SMTT(30) DEF Deleting, Releasing, CallShape, FileHasSession, Used,
        InFlight, Shapes
<1>8. Releasing'
    BY <1>1, SMTT(30) DEF Releasing, InFlight
<1>9. Uploading'
    BY <1>1, SMTT(30) DEF Uploading
<1>10. Submitting'
    BY <1>1, SMTT(30) DEF Submitting
<1>11. Sweeping'
    BY <1>1, SMTT(30) DEF Sweeping, CallShape, FileHasSession, Submitting, Uploading,
        BytesHaveSession, Used, Shapes
<1>12. ObjectsOwned'
    BY <1>1, SMTT(30) DEF ObjectsOwned, Covered, Carried
<1>13. PartsOwned'
    BY <1>1, SMTT(30) DEF PartsOwned, CallShape, FileHasSession, Shapes
<1>14. UsedIsReadable'
    BY <1>1, SMTT(30) DEF UsedIsReadable, CallShape, FileHasSession, Deleting, Sweeping,
        JobShape, Submitting, Releasing, StoringFresh, Uploading, Used, Shapes,
        InFlight, Storing, Open
<1>15. FileHasSession' /\ BytesHaveSession' /\ ScreenshotKept' /\ JobShape' /\
    EventShape'
    BY FileHasSessionKept, BytesHaveSessionKept, ScreenshotKeptKept, JobShapeKept,
        EventShapeKept
<1>. QED
    BY <1>2, <1>3, <1>4, <1>5, <1>6, <1>7, <1>8, <1>9, <1>10, <1>11, <1>12, <1>13,
        <1>14, <1>15

\* DeleteRelease keeps the invariant.
LEMMA DeleteReleaseKeeps ==
  ASSUME IInv, NEW u \in Uploads, DeleteRelease(u), UNCHANGED sweep, UNCHANGED
         erasureVars
  PROVE  IInv'
<1>. USE DEF IInv, Rows, Requests, Erasures, Owned
<1>0. PlanTyped
    BY Typed
<1>. USE <1>0 DEF DeleteRelease, TypeOK, Release, storeVars, historyVars, Statuses,
    Entities, Ops, Points, erasureVars, Owner, Kind, PlanTyped, Kinds
<1>1. TypeOK'
    BY StorageAssumption, AttemptAssumption, SMTT(30) DEF StorageAssumption,
        AttemptAssumption, JobShape, CallShape, Idle, Of, Shapes, Op
<1>2. Deleting'
    BY SMTT(30) DEF Deleting, Op, Of, Used
<1>3. Sweeping'
    BY SMTT(30) DEF Sweeping, Used
<1>4. UsedIsReadable'
    BY SMTT(30) DEF UsedIsReadable, Used
<1>5. FileHasSession' /\ BytesHaveSession' /\ ScreenshotKept' /\ CallShape' /\
    StoringAlone' /\ StoringFresh' /\ Cancelling' /\ Releasing' /\ Uploading' /\
    Submitting' /\ JobShape' /\ EventShape' /\ ObjectsOwned' /\ PartsOwned'
    BY FileHasSessionKept, BytesHaveSessionKept, ScreenshotKeptKept, CallShapeKept,
        StoringAloneKept, StoringFreshKept, CancellingKept, ReleasingKept,
        UploadingKept, SubmittingKept, JobShapeKept, EventShapeKept, ObjectsOwnedKept,
        PartsOwnedKept
<1>. QED
    BY <1>1, <1>2, <1>3, <1>4, <1>5

\* CrashCall keeps the invariant.
LEMMA CrashCallKeeps ==
  ASSUME IInv, NEW c \in Calls, CrashCall(c), UNCHANGED sweep, UNCHANGED erasureVars
  PROVE  IInv'
<1>. USE DEF IInv, Rows, Requests, Erasures, Owned
<1>0. PlanTyped
    BY Typed
<1>1. Ends(c)
    BY ReturnView DEF CrashCall
<1>. USE <1>0 DEF CrashCall, TypeOK, Idle, Fault, At, Leave, rowVars, storeVars,
    Statuses, Entities, Ops, Points, Of, Kind, Op, erasureVars, Ends, CallTyped,
    Elsewhere, Owner, PlanTyped, Kinds
<1>2. TypeOK'
    BY <1>1, StorageAssumption, AttemptAssumption, SMTT(30) DEF CallShape,
        FileHasSession, Shapes, StorageAssumption, AttemptAssumption, JobShape
<1>3. CallShape'
    BY <1>1, SMTT(30) DEF CallShape, Shapes
<1>4. StoringAlone'
    BY <1>1, SMTT(30) DEF StoringAlone, Storing
<1>5. StoringFresh'
    BY <1>1, SMTT(30) DEF StoringFresh, Storing, Open
<1>6. Cancelling'
    BY <1>1, SMTT(30) DEF Cancelling, Storing
<1>7. Deleting'
    BY <1>1, SMTT(30) DEF Deleting, Used
<1>8. Releasing'
    BY <1>1, SMTT(30) DEF Releasing, InFlight
<1>9. Uploading'
    BY <1>1, SMTT(30) DEF Uploading, CallShape, FileHasSession, Shapes
<1>10. Submitting'
    BY <1>1, SMTT(30) DEF Submitting
<1>11. ObjectsOwned'
  <2>1. ASSUME NEW v \in Uploads, v # Of(c)
        PROVE  Carried(v) => Carried(v)'
    BY <1>1, <2>1 DEF Carried, Ends, Elsewhere, Op, Of
  <2>2. ASSUME NEW v \in Uploads, v = Of(c), Carried(v), v \in objects' \ stray'
        PROVE  Carried(v)' \/ session[v] = "initiated"
    BY <1>0, <1>1, <2>2 DEF CrashCall, Carried, CallShape, Uploading, Cancelling, Storing, Shapes,
       Kind, Kinds, Idle, Ends, Elsewhere, Leave, At, Op, Of, storeVars, historyVars, rowVars
  <2>3. objects' \ stray' \subseteq objects \ stray 
    BY DEF CrashCall, Leave, storeVars, At, Op, Of, historyVars
  <2>4. UNCHANGED <<session, file, er, job>> /\ (job[Of(c)] = "mark" => session[Of(c)] # "initiated")
    BY DEF CrashCall, rowVars, erasureVars, JobShape, CallShape, Idle, At, Of
  <2>. QED
    BY <2>1, <2>2, <2>3, <2>4 DEF ObjectsOwned, Covered, PlanTyped
<1>12. PartsOwned'
    BY <1>1, SMTT(30) DEF PartsOwned, Uploading, Cancelling, BytesHaveSession,
        CallShape, FileHasSession, Storing, Shapes
<1>13. FileHasSession' /\ BytesHaveSession' /\ ScreenshotKept' /\ Sweeping' /\ JobShape'
    /\ EventShape' /\ UsedIsReadable'
    BY FileHasSessionKept, BytesHaveSessionKept, ScreenshotKeptKept, SweepingKept,
        JobShapeKept, EventShapeKept, UsedIsReadableKept
<1>. QED
    BY <1>2, <1>3, <1>4, <1>5, <1>6, <1>7, <1>8, <1>9, <1>10, <1>11, <1>12, <1>13

\* CreateFeedbackUpload keeps the invariant.
LEMMA CreateFeedbackUploadKeeps ==
  ASSUME IInv, NEW u \in Uploads, CreateFeedbackUpload(u), UNCHANGED erasureVars
  PROVE  IInv'
<1>. USE DEF IInv, Rows, Requests, Erasures, Owned
<1>0. PlanTyped
    BY Typed
<1>. USE <1>0 DEF CreateFeedbackUpload, TypeOK, Kind, Owner, storeVars, historyVars,
    Statuses, Entities, Ops, Points, erasureVars, PlanTyped, Kinds
<1>1. TypeOK'
    BY StorageAssumption, AttemptAssumption, SMTT(30) DEF StorageAssumption,
        AttemptAssumption, JobShape, CallShape, Idle, Of, Shapes, Op
<1>2. FileHasSession'
    BY SMTT(30) DEF FileHasSession
<1>3. BytesHaveSession'
    BY SMTT(30) DEF BytesHaveSession
<1>4. CallShape'
    BY SMTT(30) DEF CallShape, Idle, Of, Shapes, Op
<1>5. StoringFresh'
    BY SMTT(30) DEF StoringFresh, CallShape, FileHasSession, Storing, Of, Open, Idle,
        Shapes, Op
<1>6. Cancelling'
    BY SMTT(30) DEF Cancelling, CallShape, FileHasSession, Op, Of, Storing, Idle, Shapes
<1>7. Deleting'
    BY SMTT(30) DEF Deleting, Op, Of, Used
<1>8. Uploading'
    BY SMTT(30) DEF Uploading, Op, Of
<1>9. Submitting'
    BY SMTT(30) DEF Submitting, Op, Of
<1>10. Sweeping'
    BY SMTT(30) DEF Sweeping, Used
<1>11. JobShape'
    BY AttemptAssumption, SMTT(30) DEF JobShape, AttemptAssumption
<1>12. EventShape'
    BY SMTT(30) DEF EventShape, InScope, Gone, AllErased
<1>13. ObjectsOwned'
    BY SMTT(30) DEF ObjectsOwned, Covered, Carried, Of, Op
<1>14. PartsOwned'
    BY SMTT(30) DEF PartsOwned, Of, Op
<1>15. ScreenshotKept' /\ StoringAlone' /\ Releasing' /\ UsedIsReadable'
    BY ScreenshotKeptKept, StoringAloneKept, ReleasingKept, UsedIsReadableKept
<1>. QED
    BY <1>1, <1>2, <1>3, <1>4, <1>5, <1>6, <1>7, <1>8, <1>9, <1>10, <1>11, <1>12, <1>13,
        <1>14, <1>15

\* BeginUpload keeps the invariant.
LEMMA BeginUploadKeeps ==
  ASSUME IInv, NEW c \in Calls, NEW u \in Uploads, BeginUpload(c, u), UNCHANGED
         erasureVars
  PROVE  IInv'
<1>. USE DEF IInv, Rows, Requests, Erasures, Owned
<1>0. PlanTyped
    BY Typed
<1>1. Starts(c, "upload", u, 0, "put")
    BY BeginView DEF BeginUpload, Ops, Points
<1>. USE <1>0 DEF BeginUpload, TypeOK, Kind, Open, Locked, Owner, rowVars, storeVars,
    historyVars, Statuses, Entities, Ops, Points, InFlight, erasureVars, Starts,
    CallTyped, Elsewhere, Idle, Of, Op, PlanTyped, Kinds
<1>2. TypeOK'
    BY <1>1, StorageAssumption, AttemptAssumption, SMTT(30) DEF StorageAssumption,
        AttemptAssumption, JobShape, CallShape, Shapes
<1>3. CallShape'
    BY <1>1, SMTT(30) DEF CallShape, Shapes
<1>4. StoringAlone'
    BY <1>1, SMTT(30) DEF StoringAlone, Storing
<1>5. StoringFresh'
    BY <1>1, SMTT(30) DEF StoringFresh, Storing
<1>6. Cancelling'
    BY <1>1, SMTT(30) DEF Cancelling, Storing
<1>7. Deleting'
    BY <1>1, SMTT(30) DEF Deleting, Used
<1>8. Releasing'
    BY <1>1, SMTT(30) DEF Releasing
<1>9. Uploading'
    BY <1>1, SMTT(30) DEF Uploading
<1>10. Submitting'
    BY <1>1, SMTT(30) DEF Submitting
<1>11. ObjectsOwned'
    BY <1>1, SMTT(30) DEF ObjectsOwned, Covered, Carried
<1>12. PartsOwned'
    BY <1>1, SMTT(30) DEF PartsOwned
<1>13. FileHasSession' /\ BytesHaveSession' /\ ScreenshotKept' /\ Sweeping' /\ JobShape'
    /\ EventShape' /\ UsedIsReadable'
    BY FileHasSessionKept, BytesHaveSessionKept, ScreenshotKeptKept, SweepingKept,
        JobShapeKept, EventShapeKept, UsedIsReadableKept
<1>. QED
    BY <1>2, <1>3, <1>4, <1>5, <1>6, <1>7, <1>8, <1>9, <1>10, <1>11, <1>12, <1>13

\* CommitFeedbackUpload keeps the invariant.
LEMMA CommitFeedbackUploadKeeps ==
  ASSUME IInv, NEW c \in Calls, CommitFeedbackUpload(c), UNCHANGED erasureVars
  PROVE  IInv'
<1>. USE DEF IInv, Rows, Requests, Erasures, Owned
<1>0. PlanTyped
    BY Typed
<1>1. Ends(c)
    BY ReturnView DEF CommitFeedbackUpload
<1>. USE <1>0 DEF CommitFeedbackUpload, TypeOK, At, storeVars, historyVars, Statuses,
    Entities, Ops, Points, Idle, Kind, erasureVars, Ends, CallTyped, Elsewhere, Owner,
    PlanTyped, Kinds
<1>2. TypeOK'
    BY <1>1, StorageAssumption, AttemptAssumption, SMTT(30) DEF CallShape,
        FileHasSession, Of, Shapes, Op, StorageAssumption, AttemptAssumption, JobShape
<1>3. FileHasSession'
    BY <1>1, SMTT(30) DEF FileHasSession
<1>4. BytesHaveSession'
    BY <1>1, SMTT(30) DEF BytesHaveSession
<1>5. ScreenshotKept'
    BY <1>1, SMTT(30) DEF ScreenshotKept, Uploading, Sweeping, Deleting, JobShape,
        CallShape, FileHasSession, Op, Of, Used, Shapes
<1>6. CallShape'
    BY <1>1, SMTT(30) DEF CallShape, Of, Shapes, Op
<1>7. StoringAlone'
    BY <1>1, SMTT(30) DEF StoringAlone, Storing, Of, Op
<1>8. StoringFresh'
    BY <1>1, SMTT(30) DEF StoringFresh, CallShape, FileHasSession, StoringAlone,
        Cancelling, BytesHaveSession, Deleting, JobShape, Storing, Of, Open, Shapes, Op,
        Used
<1>9. Cancelling'
    BY <1>1, SMTT(30) DEF Cancelling, CallShape, FileHasSession, Op, Of, Storing, Shapes
<1>10. Deleting'
    BY <1>1, SMTT(30) DEF Deleting, CallShape, FileHasSession, Op, Of, Used, Shapes
<1>11. Releasing'
    BY <1>1, SMTT(30) DEF Releasing, CallShape, FileHasSession, Op, Of, InFlight, Shapes
<1>12. Uploading'
    BY <1>1, SMTT(30) DEF Uploading, Op, Of
<1>13. Submitting'
    BY <1>1, SMTT(30) DEF Submitting, Uploading, ScreenshotKept, Sweeping, JobShape,
        CallShape, FileHasSession, Op, Of, Used, Shapes
<1>14. Sweeping'
    BY <1>1, SMTT(30) DEF Sweeping, Used
<1>15. JobShape'
    BY <1>1, AttemptAssumption, SMTT(30) DEF JobShape, CallShape, FileHasSession,
        EventShape, Uploading, Of, Shapes, InScope, Gone, AllErased, Op,
        AttemptAssumption
<1>16. EventShape'
    BY <1>1, SMTT(30) DEF EventShape, Uploading, JobShape, CallShape, FileHasSession,
        InScope, Gone, AllErased, Op, Of, Shapes
<1>17. ObjectsOwned'
    BY <1>1, SMTT(30) DEF ObjectsOwned, Uploading, JobShape, StoringFresh, Cancelling,
        CallShape, FileHasSession, Covered, Op, Of, Storing, Open, Shapes, Carried
<1>18. PartsOwned'
    BY <1>1, SMTT(30) DEF PartsOwned, Uploading, BytesHaveSession, CallShape,
        FileHasSession, Of, Op, Shapes
<1>19. UsedIsReadable'
    BY <1>1, SMTT(30) DEF UsedIsReadable, CallShape, FileHasSession, Used, Of, Shapes, Op
<1>. QED
    BY <1>2, <1>3, <1>4, <1>5, <1>6, <1>7, <1>8, <1>9, <1>10, <1>11, <1>12, <1>13,
        <1>14, <1>15, <1>16, <1>17, <1>18, <1>19

\* CancelFeedbackUpload keeps the invariant.
LEMMA CancelFeedbackUploadKeeps ==
  ASSUME IInv, NEW u \in Uploads, CancelFeedbackUpload(u), UNCHANGED erasureVars
  PROVE  IInv'
<1>. USE DEF IInv, Rows, Requests, Erasures, Owned
<1>0. PlanTyped
    BY Typed
<1>. USE <1>0 DEF CancelFeedbackUpload, TypeOK, Kind, Locked, Attached, Owner,
    storeVars, historyVars, Statuses, Entities, Ops, Points, InFlight, erasureVars,
    PlanTyped, Kinds
<1>1. TypeOK'
    BY StorageAssumption, AttemptAssumption, SMTT(30) DEF StorageAssumption,
        AttemptAssumption, JobShape, CallShape, Idle, Of, Shapes, Op
<1>2. BytesHaveSession'
    BY SMTT(30) DEF BytesHaveSession
<1>3. ScreenshotKept'
    BY SMTT(30) DEF ScreenshotKept
<1>4. StoringFresh'
    BY SMTT(30) DEF StoringFresh, Storing, Of, Open, Op
<1>5. Sweeping'
    BY SMTT(30) DEF Sweeping, Used
<1>6. FileHasSession' /\ CallShape' /\ StoringAlone' /\ Cancelling' /\ Deleting' /\
    Releasing' /\ Uploading' /\ Submitting' /\ JobShape' /\ EventShape' /\ ObjectsOwned'
    /\ PartsOwned' /\ UsedIsReadable'
    BY FileHasSessionKept, CallShapeKept, StoringAloneKept, CancellingKept,
        DeletingKept, ReleasingKept, UploadingKept, SubmittingKept, JobShapeKept,
        EventShapeKept, ObjectsOwnedKept, PartsOwnedKept, UsedIsReadableKept
<1>. QED
    BY <1>1, <1>2, <1>3, <1>4, <1>5, <1>6

\* BeginSubmit keeps the invariant.
LEMMA BeginSubmitKeeps ==
  ASSUME IInv, NEW c \in Calls, NEW u \in Uploads, NEW k \in Keys,
         BeginSubmit(c, u, k), UNCHANGED erasureVars
  PROVE  IInv'
<1>. USE DEF IInv, Rows, Requests, Erasures, Owned
<1>0. PlanTyped
    BY Typed
<1>1. Starts(c, "submit", u, k, "commit")
    BY BeginView DEF BeginSubmit, Ops, Points
<1>. USE <1>0 DEF BeginSubmit, TypeOK, Kind, Owner, FeedbackOf, Used, rowVars,
    storeVars, historyVars, Statuses, Entities, Ops, Points, erasureVars, Starts,
    CallTyped, Elsewhere, Idle, Of, Op, PlanTyped, Kinds
<1>2. TypeOK'
    BY <1>1, StorageAssumption, AttemptAssumption, SMTT(30) DEF StorageAssumption,
        AttemptAssumption, JobShape, CallShape, Shapes
<1>3. CallShape'
    BY <1>1, SMTT(30) DEF CallShape, Shapes
<1>4. StoringAlone'
    BY <1>1, SMTT(30) DEF StoringAlone, Storing
<1>5. StoringFresh'
    BY <1>1, SMTT(30) DEF StoringFresh, Storing, Open
<1>6. Cancelling'
    BY <1>1, SMTT(30) DEF Cancelling, Storing
<1>7. Deleting'
    BY <1>1, SMTT(30) DEF Deleting
<1>8. Releasing'
    BY <1>1, SMTT(30) DEF Releasing, CallShape, FileHasSession, Deleting, InFlight,
        Shapes
<1>9. Uploading'
    BY <1>1, SMTT(30) DEF Uploading
<1>10. Submitting'
    BY <1>1, SMTT(30) DEF Submitting, ScreenshotKept, Sweeping, CallShape,
        FileHasSession, Shapes
<1>11. ObjectsOwned'
    BY <1>1, SMTT(30) DEF ObjectsOwned, CallShape, FileHasSession, JobShape,
        StoringFresh, Cancelling, Covered, Shapes, Storing, Open, Carried
<1>12. PartsOwned'
    BY <1>1, SMTT(30) DEF PartsOwned, CallShape, FileHasSession, Shapes
<1>13. FileHasSession' /\ BytesHaveSession' /\ ScreenshotKept' /\ Sweeping' /\ JobShape'
    /\ EventShape' /\ UsedIsReadable'
    BY FileHasSessionKept, BytesHaveSessionKept, ScreenshotKeptKept, SweepingKept,
        JobShapeKept, EventShapeKept, UsedIsReadableKept
<1>. QED
    BY <1>2, <1>3, <1>4, <1>5, <1>6, <1>7, <1>8, <1>9, <1>10, <1>11, <1>12, <1>13

\* CommitSubmit keeps the invariant.
LEMMA CommitSubmitKeeps ==
  ASSUME IInv, NEW c \in Calls, CommitSubmit(c), UNCHANGED erasureVars
  PROVE  IInv'
<1>. USE DEF IInv, Rows, Requests, Erasures, Owned
<1>0. PlanTyped
    BY Typed
<1>1. Ends(c)
    BY ReturnView DEF CommitSubmit
<1>. USE <1>0 DEF CommitSubmit, TypeOK, At, Locked, FeedbackOf, Owner, storeVars,
    historyVars, Statuses, Entities, Ops, Points, Idle, Of, Kind, InFlight, Op,
    erasureVars, Ends, CallTyped, Elsewhere, PlanTyped, Kinds
<1>2. TypeOK'
    BY <1>1, StorageAssumption, AttemptAssumption, SMTT(30) DEF CallShape,
        FileHasSession, Shapes, StorageAssumption, AttemptAssumption, JobShape
<1>3. CallShape'
    BY <1>1, SMTT(30) DEF CallShape, Shapes
<1>4. StoringAlone'
    BY <1>1, SMTT(30) DEF StoringAlone, Storing
<1>5. StoringFresh'
    BY <1>1, SMTT(30) DEF StoringFresh, Storing, Open
<1>6. Cancelling'
    BY <1>1, SMTT(30) DEF Cancelling, Storing
<1>7. Deleting'
    BY <1>1, SMTT(30) DEF Deleting, CallShape, FileHasSession, Used, Shapes
<1>8. Releasing'
    BY <1>1, SMTT(30) DEF Releasing
<1>9. Uploading'
    BY <1>1, SMTT(30) DEF Uploading
<1>10. Submitting'
    BY <1>1, SMTT(30) DEF Submitting
<1>11. Sweeping'
    BY <1>1, SMTT(30) DEF Sweeping, CallShape, FileHasSession, Submitting, Uploading,
        BytesHaveSession, Used, Shapes
<1>12. ObjectsOwned'
    BY <1>1, SMTT(30) DEF ObjectsOwned, Covered, Carried
<1>13. PartsOwned'
    BY <1>1, SMTT(30) DEF PartsOwned
<1>14. UsedIsReadable'
    BY <1>1, SMTT(30) DEF UsedIsReadable, CallShape, FileHasSession, Deleting, Sweeping,
        JobShape, Submitting, Releasing, StoringFresh, Uploading, Used, Shapes, Storing,
        Open
<1>15. FileHasSession' /\ BytesHaveSession' /\ ScreenshotKept' /\ JobShape' /\
    EventShape'
    BY FileHasSessionKept, BytesHaveSessionKept, ScreenshotKeptKept, JobShapeKept,
        EventShapeKept
<1>. QED
    BY <1>2, <1>3, <1>4, <1>5, <1>6, <1>7, <1>8, <1>9, <1>10, <1>11, <1>12, <1>13,
        <1>14, <1>15

\* SweepLook keeps the invariant.
LEMMA SweepLookKeeps ==
  ASSUME IInv, NEW u \in Uploads, SweepLook(u), UNCHANGED erasureVars
  PROVE  IInv'
<1>. USE DEF IInv, Rows, Requests, Erasures, Owned
<1>0. PlanTyped
    BY Typed
<1>. USE <1>0 DEF SweepLook, TypeOK, NotSweeping, Kind, Attached, InFlight, rowVars,
    storeVars, Statuses, Entities, Ops, Points, erasureVars, Owner, PlanTyped, Kinds
<1>1. TypeOK'
    BY StorageAssumption, AttemptAssumption, SMTT(30) DEF StorageAssumption,
        AttemptAssumption, JobShape, CallShape, Idle, Of, Shapes, Op
<1>2. StoringAlone'
    BY SMTT(30) DEF StoringAlone, Storing, Of, Op
<1>3. StoringFresh'
    BY SMTT(30) DEF StoringFresh, Storing, Of, Open, Op
<1>4. Deleting'
    BY SMTT(30) DEF Deleting, Op, Of, Used
<1>5. Releasing'
    BY SMTT(30) DEF Releasing, Op, Of
<1>6. Uploading'
    BY SMTT(30) DEF Uploading, Op, Of
<1>7. Submitting'
    BY SMTT(30) DEF Submitting, Op, Of
<1>8. Sweeping'
    BY SMTT(30) DEF Sweeping, UsedIsReadable, CallShape, FileHasSession, Used, Idle, Of,
        Shapes, Op
<1>9. UsedIsReadable'
    BY SMTT(30) DEF UsedIsReadable, Used
<1>10. FileHasSession' /\ BytesHaveSession' /\ ScreenshotKept' /\ CallShape' /\
    Cancelling' /\ JobShape' /\ EventShape' /\ ObjectsOwned' /\ PartsOwned'
    BY FileHasSessionKept, BytesHaveSessionKept, ScreenshotKeptKept, CallShapeKept,
        CancellingKept, JobShapeKept, EventShapeKept, ObjectsOwnedKept, PartsOwnedKept
<1>. QED
    BY <1>1, <1>2, <1>3, <1>4, <1>5, <1>6, <1>7, <1>8, <1>9, <1>10

\* SweepLock keeps the invariant.
LEMMA SweepLockKeeps ==
  ASSUME IInv, SweepLock, UNCHANGED erasureVars
  PROVE  IInv'
<1>. USE DEF IInv, Rows, Requests, Erasures, Owned
<1>0. PlanTyped
    BY Typed
<1>. USE <1>0 DEF SweepLock, TypeOK, Locked, NotSweeping, storageVars, Statuses,
    Entities, Ops, Points, InFlight, rowVars, storeVars, historyVars, erasureVars,
    Owner, Kind, PlanTyped, Kinds
<1>1. TypeOK'
    BY StorageAssumption, AttemptAssumption, SMTT(30) DEF StorageAssumption,
        AttemptAssumption, JobShape, CallShape, Idle, Of, Shapes, Op
<1>2. Uploading'
    BY SMTT(30) DEF Uploading, Op, Of
<1>3. Submitting'
    BY SMTT(30) DEF Submitting, CallShape, FileHasSession, Op, Of, Idle, Shapes
<1>4. Sweeping'
    BY SMTT(30) DEF Sweeping, Used
<1>5. FileHasSession' /\ BytesHaveSession' /\ ScreenshotKept' /\ CallShape' /\
    StoringAlone' /\ StoringFresh' /\ Cancelling' /\ Deleting' /\ Releasing' /\
    JobShape' /\ EventShape' /\ ObjectsOwned' /\ PartsOwned' /\ UsedIsReadable'
    BY FileHasSessionKept, BytesHaveSessionKept, ScreenshotKeptKept, CallShapeKept,
        StoringAloneKept, StoringFreshKept, CancellingKept, DeletingKept, ReleasingKept,
        JobShapeKept, EventShapeKept, ObjectsOwnedKept, PartsOwnedKept,
        UsedIsReadableKept
<1>. QED
    BY <1>1, <1>2, <1>3, <1>4, <1>5

\* SweepDelete keeps the invariant.
LEMMA SweepDeleteKeeps ==
  ASSUME IInv, SweepDelete, UNCHANGED erasureVars
  PROVE  IInv'
<1>. USE DEF IInv, Rows, Requests, Erasures, Owned
<1>0. PlanTyped
    BY Typed
<1>. USE <1>0 DEF SweepDelete, TypeOK, rowVars, historyVars, Statuses, Entities, Ops,
    Points, erasureVars, Owner, Kind, PlanTyped, Kinds
<1>1. TypeOK'
    BY StorageAssumption, AttemptAssumption, SMTT(30) DEF StorageAssumption,
        AttemptAssumption, JobShape, CallShape, Idle, Of, Shapes, Op
<1>2. BytesHaveSession'
    BY SMTT(30) DEF BytesHaveSession
<1>3. ScreenshotKept'
    BY SMTT(30) DEF ScreenshotKept, CallShape, FileHasSession, Sweeping, Deleting,
        JobShape, Idle, Of, Shapes, Used, Op
<1>4. StoringFresh'
    BY SMTT(30) DEF StoringFresh, Sweeping, CallShape, FileHasSession, Storing, Of,
        Open, Used, Idle, Shapes, Op
<1>5. Uploading'
    BY SMTT(30) DEF Uploading, Op, Of
<1>6. Submitting'
    BY SMTT(30) DEF Submitting, Op, Of
<1>7. Sweeping'
    BY SMTT(30) DEF Sweeping, Used
<1>8. ObjectsOwned'
    BY SMTT(30) DEF ObjectsOwned, Covered, Carried, Of, Op
<1>9. UsedIsReadable'
    BY SMTT(30) DEF UsedIsReadable, CallShape, FileHasSession, Deleting, Sweeping,
        JobShape, Submitting, Releasing, StoringFresh, Uploading, Used, Idle, Of,
        Shapes, Op, InFlight, Storing, Open
<1>10. FileHasSession' /\ CallShape' /\ StoringAlone' /\ Cancelling' /\ Deleting' /\
    Releasing' /\ JobShape' /\ EventShape' /\ PartsOwned'
    BY FileHasSessionKept, CallShapeKept, StoringAloneKept, CancellingKept,
        DeletingKept, ReleasingKept, JobShapeKept, EventShapeKept, PartsOwnedKept
<1>. QED
    BY <1>1, <1>2, <1>3, <1>4, <1>5, <1>6, <1>7, <1>8, <1>9, <1>10

\* SweepCommit keeps the invariant.
LEMMA SweepCommitKeeps ==
  ASSUME IInv, SweepCommit, UNCHANGED erasureVars
  PROVE  IInv'
<1>. USE DEF IInv, Rows, Requests, Erasures, Owned
<1>0. PlanTyped
    BY Typed
<1>. USE <1>0 DEF SweepCommit, TypeOK, Used, NotSweeping, storeVars, historyVars,
    Statuses, Entities, Ops, Points, Kind, erasureVars, Owner, PlanTyped, Kinds
<1>1. TypeOK'
    BY StorageAssumption, AttemptAssumption, SMTT(30) DEF Sweeping, Uploading,
        CallShape, FileHasSession, Op, Of, Idle, Shapes, StorageAssumption,
        AttemptAssumption, JobShape
<1>2. FileHasSession'
    BY SMTT(30) DEF FileHasSession, Sweeping, Uploading, CallShape, Op, Of, Idle, Shapes
<1>3. BytesHaveSession'
    BY SMTT(30) DEF BytesHaveSession
<1>4. ScreenshotKept'
    BY SMTT(30) DEF ScreenshotKept
<1>5. CallShape'
    BY SMTT(30) DEF CallShape, Idle, Of, Shapes, Op
<1>6. StoringFresh'
    BY SMTT(30) DEF StoringFresh, Sweeping, Uploading, CallShape, FileHasSession,
        Storing, Of, Open, Op, Idle, Shapes
<1>7. Cancelling'
    BY SMTT(30) DEF Cancelling, Sweeping, Uploading, CallShape, FileHasSession, Op, Of,
        Storing, Idle, Shapes
<1>8. Deleting'
    BY SMTT(30) DEF Deleting, Op, Of
<1>9. Releasing'
    BY SMTT(30) DEF Releasing, Sweeping, Uploading, CallShape, FileHasSession, Op, Of,
        InFlight, Idle, Shapes
<1>10. Uploading'
    BY SMTT(30) DEF Uploading, Op, Of
<1>11. Submitting'
    BY SMTT(30) DEF Submitting, CallShape, FileHasSession, Op, Of, Idle, Shapes
<1>12. Sweeping'
    BY SMTT(30) DEF Sweeping
<1>13. JobShape'
    BY AttemptAssumption, SMTT(30) DEF JobShape, Sweeping, Uploading, CallShape,
        FileHasSession, Op, Of, Idle, Shapes, AttemptAssumption
<1>14. EventShape'
    BY SMTT(30) DEF EventShape, Sweeping, Uploading, CallShape, FileHasSession, InScope,
        Gone, AllErased, Op, Of, Idle, Shapes
<1>15. ObjectsOwned'
    BY SMTT(30) DEF ObjectsOwned, Sweeping, Uploading, JobShape, CallShape,
        FileHasSession, Covered, Op, Of, Idle, Shapes, Carried
<1>16. PartsOwned'
    BY SMTT(30) DEF PartsOwned, Sweeping, BytesHaveSession, CallShape, FileHasSession,
        Of, Op, Idle, Shapes
<1>17. UsedIsReadable'
    BY SMTT(30) DEF UsedIsReadable
<1>18. StoringAlone'
    BY StoringAloneKept
<1>. QED
    BY <1>1, <1>2, <1>3, <1>4, <1>5, <1>6, <1>7, <1>8, <1>9, <1>10, <1>11, <1>12, <1>13,
        <1>14, <1>15, <1>16, <1>17, <1>18

\* SweepFails keeps the invariant.
LEMMA SweepFailsKeeps ==
  ASSUME IInv, SweepFails, UNCHANGED erasureVars
  PROVE  IInv'
<1>. USE DEF IInv, Rows, Requests, Erasures, Owned
<1>0. PlanTyped
    BY Typed
<1>. USE <1>0 DEF SweepFails, TypeOK, Fault, NotSweeping, rowVars, storeVars,
    historyVars, Statuses, Entities, Ops, Points, Kind, erasureVars, Owner, PlanTyped,
    Kinds
<1>1. TypeOK'
    BY StorageAssumption, AttemptAssumption, SMTT(30) DEF CallShape, FileHasSession,
        Idle, Of, Shapes, Op, StorageAssumption, AttemptAssumption, JobShape
<1>2. Uploading'
    BY SMTT(30) DEF Uploading, Op, Of
<1>3. Submitting'
    BY SMTT(30) DEF Submitting, CallShape, FileHasSession, Op, Of, Idle, Shapes
<1>4. Sweeping'
    BY SMTT(30) DEF Sweeping, Used
<1>5. FileHasSession' /\ BytesHaveSession' /\ ScreenshotKept' /\ CallShape' /\
    StoringAlone' /\ StoringFresh' /\ Cancelling' /\ Deleting' /\ Releasing' /\
    JobShape' /\ EventShape' /\ ObjectsOwned' /\ PartsOwned' /\ UsedIsReadable'
    BY FileHasSessionKept, BytesHaveSessionKept, ScreenshotKeptKept, CallShapeKept,
        StoringAloneKept, StoringFreshKept, CancellingKept, DeletingKept, ReleasingKept,
        JobShapeKept, EventShapeKept, ObjectsOwnedKept, PartsOwnedKept,
        UsedIsReadableKept
<1>. QED
    BY <1>1, <1>2, <1>3, <1>4, <1>5

\* ConfirmAccountDeletion keeps the invariant.
LEMMA ConfirmAccountDeletionKeeps ==
  ASSUME IInv, NEW a \in Users, NEW global \in BOOLEAN,
         ConfirmAccountDeletion(a, global)
  PROVE  IInv'
<1>. USE DEF IInv, Rows, Requests, Erasures, Owned
<1>0. PlanTyped
    BY Typed
<1>. USE <1>0 DEF ConfirmAccountDeletion, TypeOK, MayDelete, Contended, Referred,
    Collected, InScope, OwnUsages, CollectedFiles, storeVars, historyVars, Statuses,
    Entities, Ops, Points, Console, Owner, Locked, CollectedUploads, Kind, FeedbackOf,
    Avatar, OfKind, InFlight, PlanTyped, Kinds
<1>1. TypeOK'
    BY StorageAssumption, AttemptAssumption, SMTT(30) DEF StorageAssumption,
        AttemptAssumption, JobShape, CallShape, Idle, Of, Shapes, Op
<1>2. FileHasSession'
    BY SMTT(30) DEF FileHasSession
<1>3. BytesHaveSession'
    BY SMTT(30) DEF BytesHaveSession
<1>4. ScreenshotKept'
    BY SMTT(30) DEF ScreenshotKept
<1>5. CallShape'
    BY SMTT(30) DEF CallShape, Idle, Of, Shapes, Op
<1>6. StoringFresh'
    BY SMTT(30) DEF StoringFresh, CallShape, FileHasSession, Storing, Of, Open, Idle,
        Shapes, Op
<1>7. Cancelling'
    BY SMTT(30) DEF Cancelling, CallShape, FileHasSession, Op, Of, Storing, Idle, Shapes
<1>8. Deleting'
    BY SMTT(30) DEF Deleting, CallShape, FileHasSession, Op, Of, Used, Idle, Shapes
<1>9. Releasing'
    BY SMTT(30) DEF Releasing, CallShape, FileHasSession, Op, Of, Idle, Shapes
<1>10. Uploading'
    BY SMTT(30) DEF Uploading, CallShape, FileHasSession, Op, Of, Idle, Shapes
<1>11. Submitting'
    BY SMTT(30) DEF Submitting, CallShape, FileHasSession, Op, Of, Idle, Shapes
<1>12. Sweeping'
    BY SMTT(30) DEF Sweeping, Used
<1>13. JobShape'
    BY AttemptAssumption, SMTT(30) DEF JobShape, CallShape, FileHasSession, Idle, Of,
        Shapes, Op, AttemptAssumption
<1>14. EventShape'
    BY SMTT(30) DEF EventShape, CallShape, FileHasSession, JobShape, Gone, AllErased,
        Idle, Of, Shapes, Op
<1>15. ObjectsOwned'
    BY SMTT(30) DEF ObjectsOwned, CallShape, FileHasSession, Covered, Idle, Of, Shapes,
        Carried, Op
<1>16. PartsOwned'
    BY SMTT(30) DEF PartsOwned, CallShape, FileHasSession, Cancelling, StoringFresh,
        BytesHaveSession, Of, Op, Idle, Shapes, Storing, Open
<1>17. UsedIsReadable'
    BY SMTT(30) DEF UsedIsReadable, Used
<1>18. StoringAlone'
    BY StoringAloneKept
<1>. QED
    BY <1>1, <1>2, <1>3, <1>4, <1>5, <1>6, <1>7, <1>8, <1>9, <1>10, <1>11, <1>12, <1>13,
        <1>14, <1>15, <1>16, <1>17, <1>18

\* StartErasure keeps the invariant.
LEMMA StartErasureKeeps ==
  ASSUME IInv, NEW u \in Uploads, StartErasure(u)
  PROVE  IInv'
<1>. USE DEF IInv, Rows, Requests, Erasures, Owned
<1>0. PlanTyped
    BY Typed
<1>. USE <1>0 DEF StartErasure, TypeOK, GoJob, feedbackVars, Statuses, Entities, Ops,
    Points, Kind, storageVars, rowVars, storeVars, historyVars, Owner, PlanTyped, Kinds
<1>1. TypeOK'
    BY StorageAssumption, AttemptAssumption, SMTT(30) DEF CallShape, FileHasSession,
        Idle, Of, Shapes, Op, StorageAssumption, AttemptAssumption, JobShape
<1>2. JobShape'
    BY AttemptAssumption, SMTT(30) DEF JobShape, AttemptAssumption
<1>3. ObjectsOwned'
    BY SMTT(30) DEF ObjectsOwned, Covered, Carried, Of, Op
<1>4. FileHasSession' /\ BytesHaveSession' /\ ScreenshotKept' /\ CallShape' /\
    StoringAlone' /\ StoringFresh' /\ Cancelling' /\ Deleting' /\ Releasing' /\
    Uploading' /\ Submitting' /\ Sweeping' /\ EventShape' /\ PartsOwned' /\
    UsedIsReadable'
    BY FileHasSessionKept, BytesHaveSessionKept, ScreenshotKeptKept, CallShapeKept,
        StoringAloneKept, StoringFreshKept, CancellingKept, DeletingKept, ReleasingKept,
        UploadingKept, SubmittingKept, SweepingKept, EventShapeKept, PartsOwnedKept,
        UsedIsReadableKept
<1>. QED
    BY <1>1, <1>2, <1>3, <1>4

\* EraseObject keeps the invariant.
LEMMA EraseObjectKeeps ==
  ASSUME IInv, NEW u \in Uploads, EraseObject(u)
  PROVE  IInv'
<1>. USE DEF IInv, Rows, Requests, Erasures, Owned
<1>0. PlanTyped
    BY Typed
<1>. USE <1>0 DEF EraseObject, TypeOK, GoJob, rowVars, historyVars, Statuses, Entities,
    Ops, Points, Owner, Kind, PlanTyped, Kinds
<1>1. TypeOK'
    BY StorageAssumption, AttemptAssumption, SMTT(30) DEF StorageAssumption,
        AttemptAssumption, JobShape, CallShape, Idle, Of, Shapes, Op
<1>2. BytesHaveSession'
    BY SMTT(30) DEF BytesHaveSession
<1>3. ScreenshotKept'
    BY SMTT(30) DEF ScreenshotKept, CallShape, FileHasSession, Sweeping, Deleting,
        JobShape, Idle, Of, Shapes, Used, Op
<1>4. StoringFresh'
    BY SMTT(30) DEF StoringFresh, CallShape, FileHasSession, StoringAlone, Cancelling,
        BytesHaveSession, Deleting, JobShape, Storing, Of, Open, Idle, Shapes, Op, Used
<1>5. Uploading'
    BY SMTT(30) DEF Uploading, JobShape, CallShape, FileHasSession, Op, Of, Idle, Shapes
<1>6. Submitting'
    BY SMTT(30) DEF Submitting, CallShape, FileHasSession, ScreenshotKept, Sweeping,
        JobShape, Op, Of, Idle, Shapes, Used
<1>7. Sweeping'
    BY SMTT(30) DEF Sweeping, Used
<1>8. JobShape'
    BY AttemptAssumption, SMTT(30) DEF JobShape, AttemptAssumption
<1>9. ObjectsOwned'
    BY SMTT(30) DEF ObjectsOwned, Covered, Carried, Of, Op
<1>10. UsedIsReadable'
    BY SMTT(30) DEF UsedIsReadable, CallShape, FileHasSession, Deleting, Sweeping,
        JobShape, Submitting, Releasing, StoringFresh, Uploading, Used, Idle, Of,
        Shapes, Op, InFlight, Storing, Open
<1>11. FileHasSession' /\ CallShape' /\ StoringAlone' /\ Cancelling' /\ Deleting' /\
    Releasing' /\ EventShape' /\ PartsOwned'
    BY FileHasSessionKept, CallShapeKept, StoringAloneKept, CancellingKept,
        DeletingKept, ReleasingKept, EventShapeKept, PartsOwnedKept
<1>. QED
    BY <1>1, <1>2, <1>3, <1>4, <1>5, <1>6, <1>7, <1>8, <1>9, <1>10, <1>11

\* RecordFailure keeps the invariant.
LEMMA RecordFailureKeeps ==
  ASSUME IInv, NEW u \in Uploads, RecordFailure(u)
  PROVE  IInv'
<1>. USE DEF IInv, Rows, Requests, Erasures, Owned
<1>0. PlanTyped
    BY Typed
<1>. USE <1>0 DEF RecordFailure, TypeOK, Fault, Last, Owner, GoJob, rowVars, storeVars,
    historyVars, Statuses, Entities, Ops, Points, Of, Kind, Op, PlanTyped, Kinds
<1>1. TypeOK'
    BY StorageAssumption, AttemptAssumption, SMTT(30) DEF CallShape, FileHasSession,
        JobShape, Idle, Shapes, StorageAssumption, AttemptAssumption
<1>2. JobShape'
    BY AttemptAssumption, SMTT(30) DEF JobShape, FileHasSession, BytesHaveSession,
        ScreenshotKept, CallShape, StoringAlone, StoringFresh, Cancelling, Deleting,
        Releasing, Uploading, Submitting, Sweeping, EventShape, ObjectsOwned,
        PartsOwned, UsedIsReadable, Idle, Shapes, Storing, Open, Used, InFlight,
        InScope, Gone, AllErased, Covered, Carried, AttemptAssumption
<1>3. EventShape'
    BY SMTT(30) DEF EventShape, CallShape, FileHasSession, JobShape, InScope, Gone,
        AllErased, Idle, Shapes
<1>4. ObjectsOwned'
    BY SMTT(30) DEF ObjectsOwned, Covered, Carried
<1>5. FileHasSession' /\ BytesHaveSession' /\ ScreenshotKept' /\ CallShape' /\
    StoringAlone' /\ StoringFresh' /\ Cancelling' /\ Deleting' /\ Releasing' /\
    Uploading' /\ Submitting' /\ Sweeping' /\ PartsOwned' /\ UsedIsReadable'
    BY FileHasSessionKept, BytesHaveSessionKept, ScreenshotKeptKept, CallShapeKept,
        StoringAloneKept, StoringFreshKept, CancellingKept, DeletingKept, ReleasingKept,
        UploadingKept, SubmittingKept, SweepingKept, PartsOwnedKept, UsedIsReadableKept
<1>. QED
    BY <1>1, <1>2, <1>3, <1>4, <1>5

\* MarkErased keeps the invariant.
LEMMA MarkErasedKeeps ==
  ASSUME IInv, NEW u \in Uploads, MarkErased(u)
  PROVE  IInv'
<1>. USE DEF IInv, Rows, Requests, Erasures, Owned
<1>0. PlanTyped
    BY Typed
<1>. USE <1>0 DEF MarkErased, TypeOK, GoJob, feedbackVars, Statuses, Entities, Ops,
    Points, storageVars, rowVars, storeVars, historyVars, Owner, Kind, PlanTyped, Kinds
<1>1. TypeOK'
    BY StorageAssumption, AttemptAssumption, SMTT(30) DEF StorageAssumption,
        AttemptAssumption, JobShape, CallShape, Idle, Of, Shapes, Op
<1>2. JobShape'
    BY AttemptAssumption, SMTT(30) DEF JobShape, AttemptAssumption
<1>3. EventShape'
    BY SMTT(30) DEF EventShape, InScope, Gone, AllErased
<1>4. ObjectsOwned'
    BY SMTT(30) DEF ObjectsOwned, Covered, Carried, Of, Op
<1>5. FileHasSession' /\ BytesHaveSession' /\ ScreenshotKept' /\ CallShape' /\
    StoringAlone' /\ StoringFresh' /\ Cancelling' /\ Deleting' /\ Releasing' /\
    Uploading' /\ Submitting' /\ Sweeping' /\ PartsOwned' /\ UsedIsReadable'
    BY FileHasSessionKept, BytesHaveSessionKept, ScreenshotKeptKept, CallShapeKept,
        StoringAloneKept, StoringFreshKept, CancellingKept, DeletingKept, ReleasingKept,
        UploadingKept, SubmittingKept, SweepingKept, PartsOwnedKept, UsedIsReadableKept
<1>. QED
    BY <1>1, <1>2, <1>3, <1>4, <1>5

\* CloseEvent keeps the invariant.
LEMMA CloseEventKeeps ==
  ASSUME IInv, NEW u \in Uploads, CloseEvent(u)
  PROVE  IInv'
<1>. USE DEF IInv, Rows, Requests, Erasures, Owned
<1>0. PlanTyped
    BY Typed
<1>. USE <1>0 DEF CloseEvent, TypeOK, AllErased, Owner, GoJob, feedbackVars, Statuses,
    Entities, Ops, Points, Kind, storageVars, rowVars, storeVars, historyVars,
    PlanTyped, Kinds
<1>1. TypeOK'
    BY StorageAssumption, AttemptAssumption, SMTT(30) DEF CallShape, FileHasSession,
        Idle, Of, Shapes, Op, StorageAssumption, AttemptAssumption, JobShape
<1>2. JobShape'
    BY AttemptAssumption, SMTT(30) DEF JobShape, AttemptAssumption
<1>3. EventShape'
    BY SMTT(30) DEF EventShape, CallShape, FileHasSession, JobShape, InScope, Gone,
        Idle, Of, Shapes, Op
<1>4. ObjectsOwned'
    BY SMTT(30) DEF ObjectsOwned, Covered, Carried, Of, Op
<1>5. FileHasSession' /\ BytesHaveSession' /\ ScreenshotKept' /\ CallShape' /\
    StoringAlone' /\ StoringFresh' /\ Cancelling' /\ Deleting' /\ Releasing' /\
    Uploading' /\ Submitting' /\ Sweeping' /\ PartsOwned' /\ UsedIsReadable'
    BY FileHasSessionKept, BytesHaveSessionKept, ScreenshotKeptKept, CallShapeKept,
        StoringAloneKept, StoringFreshKept, CancellingKept, DeletingKept, ReleasingKept,
        UploadingKept, SubmittingKept, SweepingKept, PartsOwnedKept, UsedIsReadableKept
<1>. QED
    BY <1>1, <1>2, <1>3, <1>4, <1>5

\* InterruptErasure keeps the invariant.
LEMMA InterruptErasureKeeps == ASSUME IInv, NEW u \in Uploads, InterruptErasure(u) PROVE
    IInv'
<1>. USE DEF IInv, Rows, Requests, Erasures, Owned
<1>0. PlanTyped
    BY Typed
<1>1. TypeOK'
  <2>1. job[u] # "none" /\ er[u] # "none" /\ Owner(u) \in Users
    BY <1>0 DEF InterruptErasure, JobShape, PlanTyped
  <2>2. faults' \in 0..MaxFaults
    BY StorageAssumption DEF TypeOK, InterruptErasure, Fault, StorageAssumption
  <2>. QED
    BY <2>1, <2>2 DEF TypeOK, InterruptErasure, GoJob, rowVars, storeVars, historyVars
<1>. USE <1>0 DEF InterruptErasure, TypeOK, Fault, GoJob, Last, Owner, rowVars,
    storeVars, historyVars, Statuses, Entities, Ops, Points, Kind, Of, Op, PlanTyped,
    Kinds
<1>2. JobShape'
    BY AttemptAssumption, SMTT(30) DEF JobShape, FileHasSession, BytesHaveSession,
        ScreenshotKept, CallShape, StoringAlone, StoringFresh, Cancelling, Deleting,
        Releasing, Uploading, Submitting, Sweeping, EventShape, ObjectsOwned,
        PartsOwned, UsedIsReadable, Idle, Shapes, Storing, Open, Used, InFlight,
        InScope, Gone, AllErased, Covered, Carried, AttemptAssumption
<1>3. EventShape'
    BY SMTT(30) DEF EventShape, CallShape, FileHasSession, JobShape, InScope, Gone,
        AllErased, Idle, Shapes
<1>4. ObjectsOwned'
    BY SMTT(30) DEF ObjectsOwned, Covered, Carried
<1>5. FileHasSession' /\ BytesHaveSession' /\ ScreenshotKept' /\ CallShape' /\
    StoringAlone' /\ StoringFresh' /\ Cancelling' /\ Deleting' /\ Releasing' /\
    Uploading' /\ Submitting' /\ Sweeping' /\ PartsOwned' /\ UsedIsReadable'
    BY FileHasSessionKept, BytesHaveSessionKept, ScreenshotKeptKept, CallShapeKept,
        StoringAloneKept, StoringFreshKept, CancellingKept, DeletingKept, ReleasingKept,
        UploadingKept, SubmittingKept, SweepingKept, PartsOwnedKept, UsedIsReadableKept
<1>. QED
    BY <1>1, <1>2, <1>3, <1>4, <1>5

-----------------------------------------------------------------------------
(* The invariant *)

\* It holds in every initial state.
LEMMA InitHolds == ASSUME Init PROVE IInv
<1>. USE DEF Init, FeedbackInit, StorageInit
<1>1. PlanTyped /\ plan \in Plans
    BY StorageAssumption DEF PlanTyped, Kind, Owner
<1>2. TypeOK
    BY <1>1, StorageAssumption, AttemptAssumption DEF TypeOK, StorageAssumption, AttemptAssumption,
        Statuses, Ops, Points, Idle, NotSweeping
<1>3. Rows
    BY <1>1 DEF Rows, FileHasSession, BytesHaveSession, ScreenshotKept
<1>4. Requests
    BY <1>1 DEF Requests, CallShape, StoringAlone, StoringFresh, Cancelling, Deleting,
        Releasing, Uploading, Submitting, Sweeping, NotSweeping, Storing, Op, Of, Idle
<1>5. Erasures
    BY AttemptAssumption DEF Erasures, JobShape, EventShape, AttemptAssumption
<1>6. Owned /\ UsedIsReadable
    BY DEF Owned, ObjectsOwned, PartsOwned, Covered, UsedIsReadable, Used
<1>. QED
    BY <1>2, <1>3, <1>4, <1>5, <1>6 DEF IInv

\* It depends on the variables only.
\* Stutter keeps the invariant.
LEMMA StutterKeeps == ASSUME IInv, UNCHANGED vars PROVE IInv'
<1>. USE DEF IInv, Rows, Requests, Erasures, Owned, vars, feedbackVars, storageVars, rowVars,
        storeVars, historyVars, erasureVars
<1>1. TypeOK'
    BY DEF TypeOK
<1>2. Rows'
    BY FileHasSessionKept, BytesHaveSessionKept, ScreenshotKeptKept
<1>3. Requests'
    BY CallShapeKept, StoringAloneKept, StoringFreshKept, CancellingKept, DeletingKept,
        ReleasingKept, UploadingKept, SubmittingKept, SweepingKept
<1>4. Erasures' /\ Owned' /\ UsedIsReadable'
    BY JobShapeKept, EventShapeKept, ObjectsOwnedKept, PartsOwnedKept, UsedIsReadableKept
<1>. QED
    BY <1>1, <1>2, <1>3, <1>4

\* The steps of Storage keep it.
\* Storage keeps the invariant.
LEMMA StorageKeeps ==
  ASSUME IInv, StorageNext, UNCHANGED sweep, UNCHANGED erasureVars PROVE IInv'
<1>1. ASSUME NEW u \in Uploads,
       \/ CreateUpload(u) \/ Expire(u) \/ DeleteRelease(u)
     PROVE  IInv'
    BY <1>1, CreateUploadKeeps, ExpireKeeps, DeleteReleaseKeeps
<1>2. ASSUME NEW u \in Uploads, NEW c \in Calls,
       \/ BeginAvatar(c, u) \/ BeginPart(c, u) \/ BeginComplete(c, u)
       \/ CancelUpload(c, u) \/ BeginDelete(c, u) \/ BeginRelease(c, u)
     PROVE  IInv'
    BY <1>2, BeginAvatarKeeps, BeginPartKeeps, BeginCompleteKeeps, CancelUploadKeeps,
        BeginDeleteKeeps, BeginReleaseKeeps
<1>3. ASSUME NEW c \in Calls,
       \/ PutObject(c) \/ PutFails(c) \/ DropObject(c)
       \/ ClearParts(c) \/ DeletionFails(c) \/ CommitUpload(c)
       \/ CommitUnanswered(c) \/ CommitRefused(c) \/ CommitFails(c)
       \/ UpsertPart(c) \/ DeleteFile(c) \/ CreateDraft(c)
       \/ CrashCall(c)
     PROVE  IInv'
    BY <1>3, PutObjectKeeps, PutFailsKeeps, DropObjectKeeps, ClearPartsKeeps,
        DeletionFailsKeeps, CommitUploadKeeps, CommitUnansweredKeeps,
        CommitRefusedKeeps, CommitFailsKeeps, UpsertPartKeeps, DeleteFileKeeps,
        CreateDraftKeeps, CrashCallKeeps
<1>. QED
    BY <1>1, <1>2, <1>3 DEF StorageNext, CallStep

\* The steps of Feedback keep it.
\* Feedback keeps the invariant.
LEMMA FeedbackKeeps == ASSUME IInv, FeedbackNext, UNCHANGED erasureVars PROVE IInv'
<1>1. ASSUME NEW u \in Uploads,
       \/ CreateFeedbackUpload(u) \/ CancelFeedbackUpload(u) \/ SweepLook(u)
     PROVE  IInv'
    BY <1>1, CreateFeedbackUploadKeeps, CancelFeedbackUploadKeeps, SweepLookKeeps
<1>2. ASSUME NEW u \in Uploads, NEW c \in Calls,
       \/ BeginUpload(c, u)
     PROVE  IInv'
    BY <1>2, BeginUploadKeeps
<1>3. ASSUME NEW u \in Uploads, NEW c \in Calls, NEW k \in Keys,
       \/ BeginSubmit(c, u, k)
     PROVE  IInv'
    BY <1>3, BeginSubmitKeeps
<1>4. ASSUME NEW c \in Calls,
       \/ CommitFeedbackUpload(c) \/ CommitSubmit(c)
     PROVE  IInv'
    BY <1>4, CommitFeedbackUploadKeeps, CommitSubmitKeeps
<1>5. CASE SweepLock \/ SweepDelete \/ SweepCommit \/ SweepFails
    BY <1>5, SweepLockKeeps, SweepDeleteKeeps, SweepCommitKeeps, SweepFailsKeeps
<1>6. CASE StorageNext /\ UNCHANGED sweep
    BY <1>6, StorageKeeps
<1>. QED
    BY <1>1, <1>2, <1>3, <1>4, <1>5, <1>6 DEF FeedbackNext, Sweep

\* Every step keeps it.
\* Step keeps the invariant.
LEMMA StepKeeps == ASSUME IInv, [Next]_vars PROVE IInv'
<1>1. CASE FeedbackNext /\ UNCHANGED erasureVars
    BY <1>1, FeedbackKeeps
<1>2. ASSUME NEW a \in Users, NEW global \in BOOLEAN, ConfirmAccountDeletion(a, global)
     PROVE  IInv'
    BY <1>2, ConfirmAccountDeletionKeeps
<1>3. ASSUME NEW u \in Uploads,
       \/ StartErasure(u) \/ EraseObject(u) \/ RecordFailure(u)
       \/ MarkErased(u) \/ CloseEvent(u) \/ InterruptErasure(u)
     PROVE  IInv'
    BY <1>3, StartErasureKeeps, EraseObjectKeeps, RecordFailureKeeps, MarkErasedKeeps,
        CloseEventKeeps, InterruptErasureKeeps
<1>4. CASE UNCHANGED vars
    BY <1>4, StutterKeeps
<1>. QED
    BY <1>1, <1>2, <1>3, <1>4 DEF Next, EraseStep

-----------------------------------------------------------------------------
(* Theorems *)

\* The invariant holds for any uploads, users, requests, faults and attempts.
THEOREM Invariant == Spec => []IInv
<1>. QED
    BY InitHolds, StepKeeps, PTL DEF Spec

\* Every variable keeps its type, and a job runs only for a collected key.
THEOREM TypeCorrect == Spec => []TypeOK
<1>1. IInv => TypeOK
    BY DEF IInv
<1>. QED
    BY <1>1, Invariant, PTL

\* What something refers to is never deleted, replaced, swept or erased under
\* it, and no ready file loses its object.
THEOREM UsedStaysReadable == Spec => []UsedIsReadable
<1>1. IInv => UsedIsReadable
    BY DEF IInv
<1>. QED
    BY <1>1, Invariant, PTL

\* A request that is carrying an object is one that will answer for it.
LEMMA CarriedIsPending == ASSUME NEW u \in Uploads, Carried(u) PROVE Pending(u)
    BY DEF Carried, Pending, Op, Of

\* Objects and parts that no row names belong to a request or to an erasure.
THEOREM ObjectsHaveOwners == Spec => []ObjectHasOwner
<1>1. ASSUME IInv PROVE ObjectHasOwner
  <2>1. \A u \in objects \ stray :
          \/ session[u] = "initiated" \/ file[u] = "ready"
          \/ er[u] \in {"pending", "failed"} \/ Pending(u)
    BY <1>1, CarriedIsPending DEF IInv, Owned, ObjectsOwned, Covered, TypeOK
  <2>2. \A u \in parts \ stray :
          session[u] = "initiated" \/ \E c \in Calls : call[c].file = u
    BY <1>1 DEF IInv, Owned, PartsOwned, Of
  <2>. QED
    BY <2>1, <2>2 DEF ObjectHasOwner
<1>. QED
    BY <1>1, Invariant, PTL

\* The event of an account deletion is completed only when the objects of the
\* user are gone.
THEOREM ErasureIsComplete == Spec => []ErasedIsGone
<1>1. ASSUME IInv PROVE ErasedIsGone
  <2>1. ASSUME NEW u \in objects \ stray, event[Owner(u)] = "completed",
               InScope(u, Owner(u), Gone(Owner(u)))
        PROVE  file[u] = "ready" \/ Pending(u)
    <3>1. u \in Uploads /\ Owner(u) \in Users
      BY <1>1, Typed DEF IInv, TypeOK, PlanTyped
    <3>2. session[u] # "initiated" /\ er[u] \in {"none", "succeeded"}
      BY <1>1, <2>1, <3>1 DEF IInv, Erasures, EventShape, AllErased
    <3>. QED
      BY <1>1, <2>1, <3>1, <3>2, CarriedIsPending DEF IInv, Owned, ObjectsOwned, Covered
  <2>. QED
    BY <2>1 DEF ErasedIsGone
<1>. QED
    BY <1>1, Invariant, PTL
====
