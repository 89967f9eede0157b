# AppKernia: TLA+ specifications, model checking and proofs

This directory holds a verification development of AppKernia's server and of the
mobile client's sessions. It states, in TLA+, what the concurrent parts of the
system do step by step, checks their properties with TLC on small instances, and
proves the most important ones with TLAPS for every size of the instance. Paths
below are relative to `server/internal/` unless they start with `docs/`,
`blueprint/`, `apps/` or `server/`.

## 1. The system

AppKernia is a multi-tenant application kernel: a Go API process and a Go worker
process over one PostgreSQL database (an SQLite edition without jobs exists), an
admin console, a mobile client and a documentation site. The API writes rows and
inserts jobs in one transaction; the worker process runs the jobs with the
library River. Almost all state is in the database, and the hard behaviour is in
code that spans more than one transaction.

| Component | State it keeps | Operations | What makes it hard | What makes it correct |
|---|---|---|---|---|
| Delivery pipeline (`modules/notificationadmin/worker/delivery_worker.go`) | `notify.deliveries`: status, attempts, retryable, risk, provider result | claim, send, record, refresh the run; cancel; two ways to retry by hand | six statements that commit one by one around a call that cannot be undone; crashes, lost answers, operators in between | no second notification that nobody asked for; a possible delivery stays on record; every delivery ends |
| Job projection (`platform/jobqueue`) | `jobs.task_runs`, `jobs.task_attempts` | EnqueueTx, StartAttempt, FinishAttempt, hourly synchronisation | a copy of River's state kept by four writers | follows the job; a retry has a job |
| Publication and fan-out (`worker/push_fanout_worker.go`, `repository/postgres.go`) | `notify.messages`, `message_runs`, `recipients` | publish, schedule, cancel, fan out page by page | page transactions that race with cancellation and with refreshes | a run ends when its deliveries have |
| Submission by machines (`platform/notification/service.go`) | submissions by idempotency key | submit, status, cancel | concurrent submissions of one key | one message for one key |
| Sessions (`modules/iam`) | sessions, refresh tokens | login, refresh, switch tenant, revoke | a refresh raced by another, a token presented twice | one live successor; reuse ends the session |
| Mobile session client (`apps/ak-mobile/src/core`, `features/auth`) | the stored refresh token, the access token in memory, one refresh coordinator per feature | login, refresh after a 401, sign out, restart | answers that come late or never, coordinators that do not know of each other | no exchanged token is kept; reuse has a cause |
| Login protection (`modules/iam`, `platform/captcha`) | challenges, failure counters, one-time codes | issue, verify, consume | two requests verifying one challenge | a challenge is used once, guesses are bounded |
| App login and identities (`modules/loginprovider`) | one-time codes, identifiers, the password, accounts of providers, step-up tickets, authorization flows | send a code, register, sign in, step up, bind, replace, unbind, leave | a ticket is spent in one transaction and the work done in another; checks and writes in two places | nobody loses the last way to sign in; a proof lets one thing happen; Apple is told before an account goes |
| Scheduled jobs (`modules/jobadmin`) | `jobs.schedules`, `jobs.schedule_runs` | scan, edit, pause, resume, execute by hand; run worker | loops with old clocks, edits behind the next run, a worker that is cancelled while it writes | one run for one occurrence, none lost; an active run has a job |
| Object storage (`modules/storage`, `modules/storageadmin`) | upload sessions, parts, files, usages, and objects in a store outside the database | upload of an avatar, of a file in parts, completion, cancellation, deletion | bytes and rows move in steps of their own, contents are shared between users | what is referred to is readable; no object without an owner |
| Feedback and its clean-up (`modules/feedback`) | screenshots and the feedback they belong to | upload, cancel, submit; clean-up every minute | a transaction that holds a row while it stores bytes, statements with old snapshots | an expired screenshot goes, an attached one stays |
| Account deletion (`modules/appmanagement`) | erasure events and objects, their jobs | delete the account, erase the objects | the transaction runs among uploads and sweeps, the worker commits statement by statement | every object of a deleted account is erased, and of nobody else |
| Administration (`modules/org`, `accessadmin`, `useradmin`, `tenantadmin`) | units, positions, roles, menus, members and the tenant's status | create, move, change, delete, place, grant, suspend, import | a request is authorised before its transaction; rules that relate many rows (cycles, depth, occupancy, the last administrator) | trees stay trees, nothing in use is deleted, a tenant keeps an administrator |
| Content, releases, settings | versioned rows | create, update, publish | optimistic locks | no lost update |

`PROJECT.json` lists all components, with those that are not modelled and why,
and the hazards of the code, each at its line with the properties that cover it.

How the parts interact: the API inserts rows and River jobs in one transaction
(`EnqueueTx`, `river.InsertTx`); River hands the jobs to the workers; the workers
write the rows back and enqueue further jobs (publish, then fan-out page by
page, then one job per delivery); an hourly loop copies River's states into the
projection `jobs.task_runs`; another loop turns due schedules into jobs.
Operators change the same rows at any moment. Nothing is shared in memory, so a
"step" below is one transaction, or one statement where the code uses no
transaction. The mobile client shares nothing with the server but its requests:
a request is served in several transactions, and its answer reaches the client
some time after it was given, or never.

## 2. The plan

Order of the modules, the most important behaviour first:

1. `Delivery` with the abstract `AtMostOnce`: the only place where the system
   does something it cannot take back. *Done.*
2. `Publication`: what creates the deliveries. It composes with `Delivery`
   through the state of a delivery as a run sees it (`Settle`, `RefreshRead` and
   `RefreshWrite` stand for the recording and the refresh of `Delivery`). *Done.*
3. `Scheduler`: schedules, their runs and jobs. *Done.*
4. `Session` with the abstract `TokenFamily`: sessions and refresh tokens (login,
   rotation, reuse, tenant switch, change of the password, revocation), and `MobileSession`, which composes it
   with the mobile client. `Session` is the specification `MobileSession`
   implements. *Done.*
5. `Storage`, `Feedback`, `Erasure`, each extending the one before: one store and
   one set of tables that uploads, the clean-up and the deletion of accounts
   change at once. *Done.*
6. `LoginMethods`: one-time codes, identifiers, external accounts and the rule
   that a member keeps a way to sign in. *Done.*
7. `Trees`, `Organisation`, `Access`, `Administration`: the console of one tenant,
   each extending the one before. *Done.*
8. `LoginGuard`: captcha state and the failure window; submission by idempotency
   key, content review, versioned settings. *Not begun.*

Theorems: each invariant and action property that a passing run checks has one
(section 12). Worth stating next: an abstract run of a message, which `Publication`
implements as it stands and `Delivery` with the deliveries of one run, so that the
two are composed by more than the name of a step; and abstract specifications of
`Scheduler` (an occurrence is enqueued or skipped, in order) and of `Storage` (a
key is owned, then deleted).

Conventions of the modules: parameters are CONSTANTS with named assumptions; one
action per transaction, statement or environment event; the operators named
`Mutant` in a comment are plausible bugs of the operation that follows them, and
are used by no specification; each counter of the instance (`faults`, `retries`,
`edits`, the clock, the job rows) has a bound among the CONSTANTS. An
`XClaims` module holds what documents or texts of the repository say and the code
does not do; `MCX` modules instantiate; `XProofs` modules prove. No module declares a
RECURSIVE operator.

## 3. Delivery

`Delivery.tla` is one published message (or a message-less SMS or e-mail), its
rows of `notify.deliveries`, their River jobs and `jobs.task_runs`.

| In the module | In the code |
|---|---|
| `status`, `attempts`, `retryable`, `risk`, `result` | columns of `notify.deliveries` (`result` is `provider_result`) |
| `message`, `expired`, `config`, `device`, `run` | the message, the provider configuration, the push device, `notify.message_runs.status` |
| `jobState`, `jobAttempt`, `task`, `correlated` | `river_job` and its projection |
| `pc`, `out`, `ret`, `snap` | where `DeliveryWorker.Work` stands, what `send` returned, what it will return, what `refreshMessageRun` has read |
| `StartAttempt`, `FailInterrupted`, `CancelUndeliverable`, `Claim` | the first statements of `Work`, each its own commit |
| `CheckSend`, `ProviderCall` | the test on message and device before the call, the call |
| `RecordCancelled`, `RecordAccepted`, `RecordFailed`, `ProviderEffects` | the recording UPDATEs, and the effects on device and configuration |
| `RefreshRead`, `RefreshWrite`, `FinishAttempt`, `Return` | the refresh with its snapshot, the projection, what River does with the returned value |
| `StatementFails` | any statement answers with an error, with or without effect |
| `Notify`, `FanoutRead`, `FanoutCommit`, `FanoutAbort` | who inserts deliveries |
| `CancelMessage`, `RetryDelivery`, `RetryTask`, `RepairConfig`, `Expire`, `SyncTasks` | operators, the clock, the hourly loop |
| `Start`, `Rescue`, `CleanCompleted`, `Crash` | River and the process, external |

`exposure` is a history variable: may the recipient already have been notified,
and has a person asked for another attempt since.

`AtMostOnce.tla` is the promise: a write, a confirmation, a request by a person,
and nothing else. `KeepsPromise` states that `Delivery` implements it with
`confirmed` mapped to the deliveries whose status is `sent`.

| Run | Instance | What it shows |
|---|---|---|
| `Delivery_channels` | one delivery, a push with two job rows, an SMS with two or an e-mail with one; two attempts, two faults, one retry, cancellation and expiry | `TypeOK`, `ClaimOwnsDelivery`, `NoAutomaticResend`, `ExposureOnRecord`, `NotOrphaned`, `RunFollows`; `KeepsPromise`; under fairness `Settles`: for each channel with the outcomes and risks of its own (`uncertain` and `rejected` exist for SMS and e-mail only) |
| `Delivery_retry_lost` | two job rows | the finding of section 11 |

Why the bounds are enough: interference needs a second job of the same delivery
(two rows) and a second attempt (two, so that there is a first, a last, and a
retry between them); a fault before and one after the call give every
combination of lost answer and crash; deliveries of one message meet only in the
refresh of their run, of which section 11 says what two of them can do.

## 4. Publication

`Publication.tla` is one message from its draft to its fan-out: `message`,
`scheduled`, `expires`, `recipients`, `run`, `push` are its columns; `job[j]` is
a row of `river_job` with its task and the worker's position; `deliv[d]` is what
the run sees of the delivery to a device: absent, pending, settled (recorded),
cancelled; `snap[d]` is the refresh that follows its recording: what its snapshot
says of the run, and which deliveries it saw.

| In the module | In the code |
|---|---|
| `CreateMessage`, `UpdateMessage`, `PublishMessage`, `CancelMessage` | `repository/postgres.go` |
| `Submit`, `Cancel` | `SubmitTx` and `Cancel` of `platform/notification/service.go` |
| `Publish` = `PublishNothing`, `PublishTooEarly`, `PublishExpired`, `PublishNow` | the four ends of `MessagePublishWorker.Work` |
| `FanoutBegin`, `Page`, `FanoutCommit` | `PushFanoutWorker.Work`: the reads under the run's lock, the devices of the page, the commit with the next page's job |
| `StartAttempt`, `FinishAttempt`, `Fail`, `Return` | the projection around a worker's transaction, errors and lost answers, the value for River |
| `Queued`, `QueuedOnce` | `EnqueueTx` without and with `UniqueByArgs` |
| `RetryTask`, `SyncTasks` | the failure centre and the hourly loop |
| `Settle` | the delivery worker's recording |
| `RefreshRead`, `RefreshWrite` | `refreshMessageRun`: one UPDATE, which counts in its snapshot and then waits for the row of the run |

| Run | Instance | What it shows |
|---|---|---|
| `Publication_schedule` | one device, four job rows, times 1 to 2, push on, off or unwanted, an edit, a retry, two faults | `TypeOK`, `ScheduledHasJob`, `CancelFinal`; under fairness `ScheduleEnds` |
| `Publication_pages` | two devices, one per page, four job rows, a fault | `FanoutComplete`, `RunStaysOpen`; under fairness `EveryDeviceReached` |

Why the bounds are enough: two times separate early, due and expired; two full
pages and the empty one after them give a first, a middle and a last page; four
rows are the publish job and the three pages, and a repeated page takes no row of
its own; an edit moves the times once in each direction. `RunStaysOpen` admits the
one refresh that closes a run over a waiting delivery, the one that counted before
its page committed (section 11). A delivery that is put back, by its own retry or
by an operator, is in `Delivery` and not here.

## 5. Scheduler

`Scheduler.tla` is one row of `jobs.schedules`: `status`, `input` (cron, overlap
and misfire policy) and `nextRun` (0 for NULL). `run`, `jobState`, `attempt` and
`asked` (cancellation was requested) are its runs and their River jobs, `pc` and
`ret` the executions of `RunWorker.Work`. `resuming` is a next run that a
resume request has computed and not yet stored; one request at a time.
`since`, `replaced` and `cut` are history: `cut` holds the runs whose last attempt
a fault cut short, the one case in which the code leaves an active run without a
job (section 11). Crons are abstract: `NextOf` is any function
that gives the first later occurrence (`CronAssumption`).

| In the module | In the code |
|---|---|
| `Scan(t)` = `Ignore`, `FireOnce` or `CatchUp`, then `Enqueue` | `Scheduler.enqueueDue` and `enqueueSchedule` with the clock `t` the loop read, SERIALIZABLE, one step |
| `Place`, `SlotRows`, `ReplacedRuns`, `Overlaps` | the overlap policy, the insert with its conflict, the jobs |
| `Disable` | a cron or time zone this process cannot evaluate |
| `Update`, `Pause`, `RequestResume`, `Resume`, `Execute` | the API's operations; `Update` has computed its next run from an older clock |
| `Begin`, `Handle`, `Succeed`, `Fail`, `Return` | `RunWorker.Work` statement by statement |
| `Start`, `Rescue`, `CleanFinalized`, `Crash`, `Clock` | River, the process, time |

Times count minutes; the seconds decide only whether an occurrence is more than a
minute late, and `Ignore` leaves that open in the minute after. `CatchUpLimit` is
6 in the code: the due run and the five of `PreviewCron`; the limit of 10 in
`enqueueSchedule` is never reached.

| Run | Instance | What it shows |
|---|---|---|
| `Scheduler_slots` | every minute, horizon of 3, a limit of 2, one edit, schedules that catch up and that skip and ignore | `AskedOnce`, `NoGap`; under fairness `DueIsServed` |
| `Scheduler_workers` | every second minute, replacing, or unknown to the worker; two attempts, two faults, one key | `ActiveRunHasJob`, `ReplacedStaysDown` |

Why the bounds are enough: three due minutes with a limit of two need two scans
to catch up; one edit moves the next run back behind rows that exist; `Copies` =
2 makes a second row for one slot possible; two attempts give a repetition and a
last attempt.

## 6. Sessions

`Session.tla` is the sessions of one user. `session[s]` is a row of
`iam.sessions`, `token[t]` a row of `iam.refresh_tokens`, `password` the version
of the credential; `call[c]` is a request: which, at which step, and what it has
read or made so far. `born` and `cut` are history: the password a session was
created under, and the last one whose change ended all others. An access token
carries its session and is validated against the row, so the session stands for
it. A scope is tenant, audience and App.

| In the module | In the code |
|---|---|
| `CreateSession`, `RevokeSession`, `EndSessions`, `EndTokens` | the statements of `modules/iam/repository/auth.go` and `server/db/queries/auth.sql` |
| `LoginVerify`, `LoginCreate`, `LoginIssue` | `Login` of `modules/iam/application/auth.go`: verify, create, sign |
| `Reuse`, `Rotate`, then `RefreshIssue` | `RotateRefreshToken` (locks the token's row, SERIALIZABLE) and what `Refresh` does with its result |
| `Authenticate`, `SwitchCreate`, `SwitchIssue`, `SwitchRevokeOld`, `SwitchRollback` | `Authenticate` and `SwitchTenant`: three commits, undone by a best effort (`TryRevoke`) |
| `ReadPassword`, `ChangeSelfPassword` | `ChangeSelfPassword`: read the credential, compare, write if it is still that version |
| `Logout`, `RevokeSelfSession`, `RemoveSelfDevice` | sign-out, the session list, the device list (which sessions share a device is left open) |
| `ResetPassword`, `SuspendMember` | `modules/useradmin` |
| `DisableAppMember`, `ResetByCode` | `modules/appmanagement` and `modules/loginprovider`, which end sessions and leave their tokens |
| `Fail` | any refusal, an error of a transaction, the death of the process |

`TokenFamily.tla` is what the server promises about refresh tokens: a family is
opened with one token, its one current token is exchanged, families end and get no
token again. `KeepsFamilies` states that `Session` implements it: a family is a
session, its state the status of the row, and a token is current when it is
neither consumed nor revoked and its session is active.

`MobileSession.tla` adds the app. `Unauthorized`, `FinishSuccess` and
`FinishFailure` are `refresh-coordinator.uts`, once for each feature; `Login`,
`LoginAnswer`, `SignOut`, `SignedOut` are `mobile-auth-service.uts`; `Persist`
and `Clear` are `session-runtime.uts`. A failure seen by the app is a refusal, a
timeout or an answer that cannot be stored, so the server may still serve what the
app has given up. Faults are a `Restart`, which loses memory and callbacks and
keeps secure storage, and a secure storage that cannot be read
(`UnauthorizedUnread`) or cleared (`ClearFails`). Other devices log in, switch
and change the password; the refresh tokens of the model are those the app
presents.

| Run | Instance | What it shows |
|---|---|---|
| `Mobile_sessions` | three requests, two sessions, three tokens, two coordinators, two scopes, one change of the password, one fault | `OneWinner`, `OneSuccessor`, `ReuseEndsFamily`, `PasswordCutsOff`, `SwitchLeavesOne`, `StoredIsUsable`, `ReuseHasCause`; `KeepsFamilies` |

Why the bounds are enough: three requests are a login and two that meet, from two
coordinators or from the app and another device; two sessions are the old and the
new one of a switch or of two logins; three requests make at most three tokens.
The proofs of section 12 need none of these bounds for what the server guarantees.
Sets are symmetric: the
properties are invariants and one refinement, and no constant names a
member except `MobileScope`, whose set is not permuted. Deadlock is not checked:
every request is served once, and then the system may rest.

What the properties leave open, as the code does: `PasswordCutsOff` admits a
session that a login or a switch creates after the change of the password, although
it verified the old one; a session ended by `DisableAppMember` or `ResetByCode`
has a token that is unconsumed and unrevoked, which only the test on the session
in `Rotate` makes useless (`KeepsFamilies`). There is no liveness here: nothing retries, and each
request ends by its own statements.

## 7. Files, feedback and the deletion of accounts

Three modules, each extending the one before, over one set of tables and one
store. An upload is one row of `storage.upload_sessions`; the file that its
completion inserts and the key of its object carry its name. A plan says what is
uploaded: the kind (avatar, file of the console in parts, screenshot of a
feedback), the owner, the content, of which only equality matters.

| In the modules | In the code |
|---|---|
| `session`, `late`, `fileOf` | `upload_sessions`: status, whether `expires_at` has passed, `file_id` |
| `file`, `usage` | `files.status`, `file_usages` as pairs of a file and a referrer (avatar, release, feedback) |
| `objects`, `parts`, `partRow` | keys in the store, keys of parts, rows of `upload_parts` |
| `account`, `event`, `er`, `job`, `attempt` | the membership, `privacy_erasure_events`, `privacy_erasure_objects`, their River jobs |
| `call[c]`, `sweep` | a request in flight and its next step; where `Cleanup.one` stands |
| `CreateUpload`, `BeginAvatar`, `BeginPart`, `BeginComplete`, `CancelUpload`, `BeginDelete`, `BeginRelease` | what `modules/storage`, `modules/storageadmin` and the draft of a release read, or commit, before their first call of the store |
| `PutObject`, `PutFails`, `DropObject`, `ClearParts`, `DeletionFails` | calls of the store: with an error that comes before or after the bytes, deletions whose error is dropped |
| `CommitUpload` (`CompleteAvatarUpload`, `CompleteUpload`), `CommitRefused`, `CommitFails`, `CommitUnanswered`, `UpsertPart`, `DeleteFile`, `CreateDraft` | the transactions that follow; `Target` is the unique index that deduplicates, `AfterCommit` what is deleted then |
| `CreateFeedbackUpload`, `BeginUpload`, `CommitFeedbackUpload`, `CancelFeedbackUpload`, `BeginSubmit`, `CommitSubmit` | `modules/feedback`: the upload holds the row of its session until it commits (`Locked`), the submission commits on a snapshot |
| `SweepLook`, `SweepLock`, `SweepDelete`, `SweepCommit`, `SweepFails` | `Cleanup.one`: the snapshot of the SELECT, the lock with SKIP LOCKED, the store, the commit |
| `ConfirmAccountDeletion` | the transaction of `account_deletion.go`: who may (`MayDelete`), what it collects (`Collected`), what stops it (`Contended`, `Referred`), global or of the App |
| `StartErasure`, `EraseObject`, `MarkErased`, `CloseEvent`, `RecordFailure`, `InterruptErasure` | `ObjectErasureWorker.eraseObject` and River |
| `Expire`, `CrashCall` | the clock, the process |

`exposed`, `stray` and `cut` are history, and say what the properties except:
`exposed` the uploads that two actors worked on at once where the code has no
lock (two bodies for one session, `service.go:123` of `modules/storage`; a draft
over a deletion, `release.go:294`; a submission over the clean-up,
`cleanup.go:57`) or whose commit was not answered; `stray` the keys whose
deletion failed, or was forgotten, when no row named them any more; `cut` the
users whose event the worker could not close. Each exception is a behaviour of
the code, listed in section 11, and without it the property is violated.

| Run | Instance | What it shows |
|---|---|---|
| `Storage_files` | two uploads in seven plans (an avatar replaced, shared with another user, equal to a file of the console either way, two screenshots, a screenshot with the bytes of an avatar, a file uploaded twice), two requests, one fault | `TypeOK`, `UsedIsReadable`, `ObjectHasOwner`, `ErasedIsGone` |
| `Storage_cleanup` | two screenshots, two requests, two faults, two attempts | under fairness `ExpiredIsSwept`, `EventEnds` |
| `Storage_deletion` | three avatars of two users, one request, no fault | the finding of section 11 |

Why the bounds are enough: every race of these modules is between two actors over
one upload, with the sweep and an erasure as further ones; two uploads are what
deduplication, replacement and an event with two objects need; one fault
separates the bytes from their row, and the liveness run has two, so that an
attempt and its repetition may fail. The proofs of section 12 need no bound.

## 8. Ways to sign in

`LoginMethods.tla` is the members of one App. Codes, tickets, flows and accounts
of providers are rows that are created and used up, with an identity of their own.

| In the module | In the code |
|---|---|
| `member`, `signedIn`, `password` | `app.user_memberships`, users with a session of the audience `ak-mobile`, `iam.user_credentials` |
| `holder[v]` | the row of `app.user_login_identifiers` with the value `v` (unique, one of a type per user) |
| `binding[b]` | rows of `iam.app_oauth_accounts` |
| `enabled` | what the App has switched on: providers whose binding is enabled and whose configuration is active and ready, and the channels of `app.application_login_settings` by which its public codes go (none while `otp_login_enabled` is off) |
| `code`, `ticket` | `iam.verification_challenges` of the codes, and of `step_up` |
| `flow` | `iam.oauth_authorization_flows` |
| `call[c]` | a request between two of its transactions |
| `SendCode`, `WrongCode`, `OTPLogin` then `IssueMobileSession`, `RegisterWithOTP`, `ResetPasswordWithOTP` | `repository/identifiers.go`, with whom the services look up before (`Recipients`) and the channel they ask for (`Deliverable`), which a code for binding or for a step-up does not need |
| `CreateAdminUser`, `SetAdminUserStatus`, `ReplaceBindings`, `UpdateLoginSettings`, `PasswordLogin` | administrators, in `modules/appmanagement` and `repository/admin.go`; the login of `modules/iam` as far as it depends on these tables |
| `BeginStepUp`, `ConsumeStepUpCode`, `StepUpByPassword`, `IssueStepUp` | `StepUp` of `application/mobile.go`: read the identifier, consume the code, write the ticket |
| `Spend` with `ConsumeStepUpTicket` | `consumeStepUp`: the transaction that spends a ticket before the work of its request |
| `BeginVerify` and `UpsertIdentifier`, `BeginDeleteIdentifier` and `DeleteIdentifier`, `BeginSetPassword` and `SetPassword` | the two transactions of a request, or a read and a transaction |
| `AuthorizeLogin`, `AuthorizeReauth`, `BeginAuthorizeBind` and `AuthorizeBind` | the three modes of `Authorize` |
| `GitHubBrowserCallback`, `ClaimTicketFlow` | the browser's callback and the one of the app that follows it |
| `VerifyIdentity`, `ClaimNativeFlow` | `Callback` of the other providers; for a reauthentication Apple is told before the flow is claimed |
| `ResolveLogin`, `ResolveRegistration`, `ResolveBind`, `ResolveReauth` | `resolveIdentityAttempt` |
| `BeginUnbind` and `DeleteOAuthAccount`, `BeginDeletion` and `ConfirmAccountDeletion` | unbinding, and the deletion of the account as far as it touches these tables |
| `MethodLeft` | `usableLoginMethodCount` is at least one |
| `Fail` | a refusal, an error of a transaction or a provider, the death of the process |

A transaction is SERIALIZABLE, hence one step; one that refuses changes nothing
and its request ends. `used`, `twice` and `revoked` are history: codes, tickets
and flows that let something happen, whether one did so twice, accounts whose
authorisation Apple revoked.

| Run | Instance | What it shows |
|---|---|---|
| `Login_methods` | eight plays of one or two users, two addresses and a number, an account of Apple and one of GitHub, at most two codes, three tickets, two flows, two requests in flight, codes of two attempts | `TypeOK`, `AuthorisesOnce`; `LastMethodKept`, `AppleGoesRevoked` |

Why the bounds are enough: each property is broken by two requests of which one
acts between the transactions of the other, or by two that present the same
proof. A play gives exactly what the hazard in question needs: two addresses to
replace one by the other, an address and a number, or an address and an account,
to give up at once, a ticket for each of two requests and one to obtain them, two
flows so that an account is bound while another request deletes it, two users
after the same address or the same account. Codes, tickets and flows are taken in
the order of their numbers, requests in the order of theirs; the properties do not
tell them apart. Deadlock is not checked: everything may be used up. The proofs of
section 12 need none of these bounds.

What the properties leave open, as the code does: `LastMethodKept` excepts an
administrator who switches a provider off (`ReplaceBindings` looks at accounts
only when the binding is removed), and counts as the code does, which does not ask
for the channels (section 11). There is no liveness: nothing is retried, and
each request ends by its own statements.

## 9. Administration

The console of one tenant, in four modules that extend each other: `Trees` (rows
that name their parent), `Organisation` (units, positions, who is placed where),
`Access` (roles, menus, data scopes, who holds which role) and `Administration`
(members, the tenant, and the requests that do all this).

| In the modules | In the code |
|---|---|
| `Above`, `Below`, `Depth` | the recursive queries that walk up or down over rows that are not deleted; here least closed sets |
| `unitParent`, `unitStatus`, `positionStatus`, `userUnits`, `userPositions`, `positionUnit` | `org.units`, `org.positions`, `org.user_units`, `org.user_positions` |
| `roleParent`, `roleStatus`, `granted`, `roleMenus`, `scopeUnits`, `userRoles` | `iam.roles`, `iam.role_permissions` as far as they carry administration, `sys.role_menus`, `iam.role_scope_units`, `iam.user_roles` |
| `menuParent`, `menuStatus` | `sys.menus`: those of the tenant and the core menus it sees |
| `member`, `tenant` | `iam.tenant_members.status`, `iam.tenants.status` |
| `CreateUnit`, `UpdateUnit`, `MoveUnit`, `DeleteUnit`, `CreatePosition`, `UpdatePosition`, `DeletePosition` | `modules/org/repository/postgres.go` |
| `ReplaceAssignments`, `ReplaceRoles`, `CreateUser`, `DisableUser`, `EnableUser`, `Import` | `modules/useradmin` |
| `CreateRole`, `UpdateRole`, `DeleteRole`, `ReplaceRolePermissions`, `ReplaceRoleMenus`, `ReplaceRoleDataScope`, `CreateMenu`, `UpdateMenu`, `MoveMenu`, `DeleteMenu` | `modules/accessadmin/repository/postgres.go` |
| `AddMember`, `SetMemberStatus`, `UpdateTenant` | `modules/tenantadmin/repository/postgres.go` |
| `Authenticate`, then `Execute` | the session's check and `Service.authorize`, then the operation's own transaction; `pending[a]` is what lies between |

Every operation is one SERIALIZABLE transaction, hence one step, and an import one
step per row. What is not one step is the authorisation: a request that was
authorised is carried out although its sender has been suspended or demoted since,
so that two administrators may remove each other. `SuperAdmin` is the role with
all permissions that comes with the tenant and that no operation of `accessadmin`
changes; the core menus belong to no tenant and only the seed writes them. Rows
are deleted softly, so an identity is used once.

| Run | Instance | What it shows |
|---|---|---|
| `Administration_console` | six plays: three units (`Forest`), three roles (`Hierarchy`), three menus below two core menus (`Console`), two members with two units and a position (`Placed`), a unit, a role and a menu that refer to one another (`Scoped`), three members with a role (`Staff`) | `StructureSound`; `AdminLostByRolesOnly` |

Why the bounds are enough: a cycle that two moves close needs two rows, and one
that passes the test of either needs a third between them; three own menus below
two of the core exceed the depth of three in every way a move, a creation or an
update can; a deletion needs one row that uses what is deleted; the last
administrator needs two who remove each other and a third who is not one. A play
gives the rows of one question, because operations on units, roles and menus do
not read each other's rows except where `Placed` and `Scoped` put them together.
The proofs of section 12 need none of these bounds. Deadlock is not checked: a
disabled tenant authenticates nobody, and then nothing happens.

What the properties leave open, as the code does: `AdminLostByRolesOnly` excepts
`ReplaceRoles` (section 11), and says nothing of the tenant's status; a data scope
or a deleted role may go on naming what was deleted.

## 10. Fairness

Safety is checked and proved without fairness. The liveness properties assume

- `Delivery`: River goes on fetching and rescuing (`WF` of `Start` and `Rescue`
  per job), a worker that has a job goes on with `Work`, and an open fan-out
  transaction ends. River's client does so while a worker process runs, and the
  worker's statements have timeouts.
- `Publication`: the same, and time passes (`WF` of `Tick`).
- `Scheduler`: only that the loop scans with a fresh clock
  (`WF_vars(Scan(now) \/ Disable(now))`): it does every fifteen seconds, and a
  transaction that loses a conflict is tried again by the next scan.
- `Storage_cleanup`: a request that has begun goes on (`WF` of `Request(c)`, which
  excludes neither its failure nor its crash), the clean-up runs (`WF` of `Sweep`:
  `Cleanup.Run` every minute), River runs its jobs (`WF` of `EraseStep(u)`).

Nothing is assumed of operators, of faults, of expiry or of the hourly loop.

## 11. Where the code and its documents disagree

Each has a run in which TLC shows it (`PROJECT.json`, findings):

- `Delivery_retry_lost`: a retry by hand within a day of the job's completion
  leaves the delivery pending without a job (`operations.go:432`,
  `postgres.go:572`).
- `Storage_deletion`: a deduplicated upload leaves its session on the file of
  another user, whose deletion then fails on the foreign key every time
  (`account_deletion.go:505`).

Seen while modelling, in the models as the code has them, without a run of their
own:

- A push that was interrupted keeps the provider's result of an earlier attempt;
  when that was transient, the failure centre takes the push up again without an
  acknowledged risk (`operations.go:349`), which the runbook, 4, rule 4, excludes.
- A push the provider refused for good is put back by a retry by hand when the
  risk is acknowledged (`postgres.go:555`), and taken up by River's retry after a
  lost answer (`delivery_worker.go:230`); the runbook and the push architecture
  exclude both.
- A cancellation of a message, or the expiry of deliveries, settles them without
  a refresh of the run (`postgres.go:367`).
- A run is closed while pages of its message are still to be read
  (`delivery_worker.go:186`).
- A retry by hand is accepted for a publish or fan-out job whose task reads
  failed because a snooze was counted as a failure (`push_fanout_worker.go:48`).
- A scheduled run whose last statement is lost stays running without a job: a
  schedule that skips never runs again, and once River has deleted the job one
  that replaces fails in every scan, with the other schedules of the same
  transaction (`worker.go:75`, `worker.go:195`).
- A schedule that replaces and ignores misfires cancels its active run in a late
  scan and enqueues none (`worker.go:157`, `worker.go:192`).
- A resumption stores a next run of the cron it read before an edit replaced it
  (`application/service.go:222`).
- Two deliveries of a run that end together can leave it running: each refresh
  counts in a snapshot that is older than the other's result
  (`delivery_worker.go:177`).
- A refresh that counted before a page committed and waited for the row of the run
  closes the run after it, although the deliveries of the page wait
  (`delivery_worker.go:177`).
- An empty last page, or a page repeated after a lost answer, reopens a run that
  had ended (`push_fanout_worker.go:318`).
- With "Skip overlapping runs" the repetition of a failed attempt and the next
  occurrence execute at once (`worker.go:238`).
- Two bodies for one upload session, or a commit whose answer is lost: the request
  that believes it failed deletes the key that is the object of a ready file
  (`modules/storage/application/service.go:123`).
- A release is drafted over a file that is being deleted; the foreign key holds
  for a file that is deleted softly (`release.go:294`).
- A submission that commits between the snapshot and the lock of the clean-up
  loses its screenshot (`cleanup.go:57`).
- A part that arrives after the cancellation is stored with no row, without an
  error, and a deletion in the store that fails is not repeated: these keys have
  no owner.
- The second user of a deduplicated avatar cannot read it through the query of the
  own avatar, which asks for the owner of the file.
- Upload sessions of avatars and of the console are never swept when they expire;
  a clean-up whose oldest upload fails each time goes no further.
- A worker that dies between the mark of the last object and the event leaves the
  event open: the next attempt finds the object erased and ends
  (`object_erasure_worker.go:82`).
- What counts as a way to sign in does not ask whether the App has codes switched
  on (`usableLoginMethodCount`, `identity.go:367`; the switch is off unless set): the
  method that is left may not let the member in, although
  `docs/CODEX_DELIVERY_REPORT.md:151` promises a usable one. The integration test of
  the repository counts as the code does.
- Two requests that verify an identifier and both find none replace one another's
  without a step-up (`application/mobile.go:885`), which
  `apps/ak-mobile/design-system/pages/profile.md:10` asks for.
- Apple revokes an authorisation before the flow is claimed and before the Apple ID
  is compared with the account (`application/mobile.go:455`): a callback that is
  refused then leaves an account whose authorisation is gone.
- A member is disabled by one statement and signed out by another
  (`service.go:1656`, `service.go:1664` of `modules/appmanagement`).
- Each feature of the app refreshes through a coordinator of its own, so two 401s
  present one token twice and the server ends the session
  (`refresh-coordinator.uts:11`); `blueprint/mobile/docs/TESTING_QUALITY_GATES.md:40`
  promises one request.
- A refresh whose answer arrives after the sign-out stores its credential again
  (`mobile-auth-service.uts:45`); the server has ended that session unless the
  sign-out did not reach it.
- Replacing the roles of the last active super administrator may take the role away
  (`modules/useradmin/repository/postgres.go:315`); suspending, disabling and
  removing refuse that, as `server/openapi/openapi.yaml:3459` says of them.
- The parent of a role need only have a row, so a role may be put below one that was
  deleted (`modules/accessadmin/repository/postgres.go:157`).
- Deleting a role leaves its menus (`DeleteRole`), and a menu that such a role shows
  can then never be deleted; deleting a unit leaves the data scopes that name it.
- Who returns to a tenant holds the roles of before (`AddMember`).
- A disabled tenant can be enabled only by a request that was authorised before.

## 12. What is proved

TLAPS checks every proof to its last leaf; the theorems hold for every value of
the constants that meets the assumptions named in the modules (bounds are
naturals, attempts and page size at least one, rows and channels well typed).

**`DeliveryProofs`.** The inductive invariant `Inv` is `TypeOK` and `Ownership`,
whose parts are: at most one job of a delivery is live (`OneLiveJob`); a worker
that is busy has a running job (`BusyIsRunning`) whose attempt is counted
(`RunningIsCounted`); a claimed delivery is processing (`ClaimedIsProcessing`); a
possible delivery is on record (`ExposureOnRecord`); before the call nothing was
written (`UnwrittenBeforeCall`); and the recorded outcome tells whether something
was (`OutcomeTells`). The claim alone is not inductive: that a second worker
cannot take a delivery rests on River's uniqueness, and that no second call
follows rests on the risk the outcome leaves. From `Inv`: `TypeCorrect`,
`ClaimIsExclusive`, `NoResend`, `ExposureKept`, `SentStays`, and `PromiseKept`,
the refinement of `AtMostOnce`. `NoneOrphaned` adds `Link` between unfinished
deliveries and jobs. `RunIsRefreshed` is `RunFollows` for any bounds; it rests on
`Follows`: who refreshes works for a delivery of the run (`OfTheRun`); without
faults what is processing has its worker (`Attended`); and where one delivery
decides the run (`Decides`: it is alone in it, without faults, cancellation or
expiry), once it is settled the run is finished or a worker still owes the refresh
(`RefreshDue`), and what a refresh has read is still true when it is written
(`SnapshotFresh`).

**`PublicationProofs`.** The inductive invariant is `TypeOK`, `JobShape` (River's
counters), `RefreshFits` (a refresh belongs to a settled delivery, and one that
counted nothing waiting saw deliveries that wait no more), `Story` (which states
of message, run, recipients, push and deliveries go together) and `Chain`. `Chain` is the argument that no page is lost, for any number of devices
and any page size: a fan-out job follows pages that are complete, and one that is
done was the last page or leaves a later one to do. Theorems: `TypeCorrect`,
`PublishedOnTime`, `StoryHolds`, `CancelStays`, `ScheduledKeepsJob`,
`RunKeptOpen`, `EveryPageDone`. That the run is running while a delivery waits is
no invariant, which the refresh in two steps shows; `RunKeptOpen` proves the step
that breaks it to be the only one.

**`SchedulerProofs`.** `Base` is `TypeOK`, `JobShape` and `Agenda` (a next run is a
time, `since` is not behind it). On it rest: `FirstCopy`, which gives
`EnqueuedOnce`; `NoGapRows`, which with `NothingBetween` (from `CronAssumption`)
gives `NoOccurrenceLost`; `StaysDown`, which gives `ReplacedIsOver`: a job asked to
stop never waits again; and `Carried`, which gives `ActiveIsCarried`: a worker
closes its run before it returns, and a run whose job was asked to stop is not
taken up. Crashes and lost statements are in it (`WorkerCloses`): they leave the run
to the next attempt, and only a run of `cut` is excepted. `TypeCorrect` and `ActiveHasNextRun` follow from `Base`.

**`SessionProofs`.** Every step of the server does one of four things to the rows:
nothing (`Same`), ending sessions (`Ends`), creating one (`Creates`), exchanging a
token (`Exchanges`). The inductive invariant `IInv` is the types, `CallShape` (what
a request refers to exists, a refresh with a successor has consumed its token, a
switch that is over left one session), `OneWinner`, and `Rows`: `TokensTied` (a
token's session exists), `CutPast`, `OneSuccessor`, `ReuseEndsFamily`,
`PasswordCutsOff`. The lemmas `EndKeepsRows`, `CreateKeepsRows` and
`ExchangeKeepsRows` treat the four kinds once, `SendOutcome` and `ServeOutcome` sort
the actions into them one by one. `OneSuccessor` needs `ReuseEndsFamily` and
`TokensTied`: a new session has no token yet, and an active one has a token that
is live. Theorems of the server: `ServerTypes`, `RefreshHasOneWinner`,
`TokensFollowSessions`, `ReuseIsFinal`, `PasswordEndsOthers`,
`SwitchLeavesOneSession`, `RevocationIsFinal`. `FamiliesKept` is the refinement of
`TokenFamily`: the four kinds of steps map to a stutter, `End`, `Open` and
`Exchange`, and `OneSuccessor` with `ReuseEndsFamily` gives that what is exchanged
was the one current token. `AppRefinesServer` shows that the app is one of the
server's clients (`MSpec => Spec`), which carries all of them over to
`MobileSession` (`AppKeepsFamilies`); `MobileTypes` gives the app's own types.

**`MobileProofs`.** From `MobileAssumption`, for any coordinators, requests and
faults. `CredentialInvariant` is `MInv`, the types and the server's invariant, with
`Delivered`: coordinators wait for requests of their own (`OwnRequests`), requests
get different tokens (`OwnTokens`); the token of an answer that has not reached the
app is not stored, and nobody has presented it (`Undelivered`), so it is stored once
at most; whoever presented the stored token still waits for its answer, or the app
gave it up (`Presented`); what was consumed was consumed by a refresh that got its
successor (`ConsumedByRefresh`); and a token that two requests present was shared or
given up (`TwiceHasCause`). `StoredIsUsable` and `ReuseHasCause` are not inductive: the
server consumes a token long before the app hears of it, and only `Presented` ties
the two. Theorems: `CredentialUsable`, `ReuseIsCaused`.

**`StorageProofs`.** From `StorageAssumption` and `AttemptAssumption`, for any
uploads, users, plans, requests, faults and attempts. The inductive invariant
`IInv` is `TypeOK` and

- `Rows`: a file has the session that completed it unless an erasure took it
  (`FileHasSession`), bytes come after a session (`BytesHaveSession`), a ready
  screenshot that has not expired has its object (`ScreenshotKept`);
- `Requests`: what each request may rely on between two of its steps, whatever
  the others did: its shape (`CallShape`), that a request which stores bytes is
  alone with its upload and finds no file before its commit (`StoringAlone`,
  `StoringFresh`), what a cancellation, a deletion, a draft, an upload, a
  submission and the clean-up have established (`Cancelling`, `Deleting`,
  `Releasing`, `Uploading`, `Submitting`, `Sweeping`);
- `Erasures`: a job deletes what has no rows any more (`JobShape`), an erasure
  leaves no session in its scope (`EventShape`);
- `Owned`: who answers for the objects and the parts (`ObjectsOwned`,
  `PartsOwned`), which is finer than `ObjectHasOwner` because it names the
  requests that will delete or adopt them;
- `UsedIsReadable` itself.

None of the claims is inductive alone: that a deletion cannot hit a file in use
rests on what it saw (`Deleting`), that the clean-up cannot on `Sweeping` and
`Submitting`, that an erasure cannot on `JobShape`. One lemma per action
(`XKeeps`) has one step for each conjunct the action can disturb; the others
follow from the lemmas `XKept`, which name the variables a conjunct depends on.
Theorems: `Invariant`, `TypeCorrect`, `UsedStaysReadable`, `ObjectsHaveOwners`,
`ErasureIsComplete`.

**`LoginProofs`.** From `LoginAssumption`, for any users, values, accounts, plays,
requests, codes, tickets, flows and attempts. `Shape` is `TypeOK` with `FlowShape`
and `CallShape`: what the record of a request or a flow refers to exists and is of
its kind, at each step. `Steps` cuts `Next` into its cases, `AccountsMove`, `CallMoves`
and `UsesStep` say what any step may do to accounts, to a request and to the history,
so that each invariant is proved against a handful of moves and not against forty
actions.

- `LastMethodStays`: `MethodStep` goes through the actions that take something away;
  each repeats the count in its transaction, and the others keep or add
  (`Kept`, `Untouched`, `Inserted`); `SwitchStep` is a switch of the App, which takes
  no method unless it is of a provider.
- `AuthorisedOnce` rests on `SpentAndApart`: what was used is spent, a ticket that a
  request carries is spent and carried by no other request, and the flow a request
  resolves is claimed, unused and its own. That nothing is used twice does not follow
  from one step alone: the row is spent in one transaction and used in the next.
- `AppleToldFirst` rests on `ToldFirst`, which follows the revocation along its way:
  from the callback that asked for it, over its claim, the account it resolved, the
  ticket with the method of Apple, to the request that spent the ticket. `Rooted`
  and the shape of flows say that all of them name one account.

Theorems: `TypeCorrect`, `LastMethodStays`, `AuthorisedOnce`, `AppleToldFirst`.

**`AdministrationProofs`.** From `OrganisationAssumption`, `AccessAssumption` and
`AdministrationAssumption`, for any members and any rows. The trees come first:
`Acyclic` says that whatever rows are picked, one of them has its parent elsewhere,
so that no induction over paths is needed. `AddRow` and `FewerRows` keep it when a
row comes or goes. A move keeps it when the new parent lies outside what is moved,
by the test downwards of the units (`MoveBelowOther`) and by the test upwards of
roles and menus (`MoveNotIntoItself`); `MovedDepth` bounds how deep a row lies after
the move by what lies above the new parent and what lies between. The inductive
invariant `Sound` is `OrganisationSound` with `RolesSound` and `MenusSound`, which
strengthen `AccessSound`: every row of a role names a row of a role as its parent,
deleted ones included (the foreign key, without which a created role could be the
parent of another already); and the core menus lie where the seed put them (a moved
menu cannot push them deeper). `Structure` follows, and `AdminKept` from a case per
operation: only what makes a member inactive can take an administrator, and
`OtherAdmin` says that more than one was there. Theorems: `TypeCorrect`,
`Structure`, `AdminKept`.

The types of `Session`, `MobileSession`, `Scheduler` and `Administration` are proved
and not checked by a run of their own.

Only model-checked: the liveness properties (`Settles`, `ScheduleEnds`,
`EveryDeviceReached`, `DueIsServed`, `ExpiredIsSwept`, `EventEnds`), since the prover
treats neither fairness nor ENABLED. Induction over data and RECURSIVE operators are out of the prover's reach
too; the modules need neither, which is why pages are a chain of jobs and crons
a function.

## 13. What is not modelled

- Batches of `RetryTasks` with more than one item, lists, metrics and attempt
  history: reads, or the same step per item.
- Templates, bindings, localised payloads: data the properties do not tell apart.
- Recipients are one audience; their selection is a query.
- Several schedules in one scan: they meet only in the failure of the
  transaction, recorded above.
- The SQLite edition has no jobs.
- Logins by code or by an external identity (`IssueMobileSession`,
  `PrepareAtomicMobileSession`) create their session as `LoginCreate` of `Session`
  does; in `LoginMethods`, which says what they verify before, a user has a session or
  has none.
- Of the ways to sign in: expiry and the cooldown of codes (refusals), captcha and
  rate limits, the App's switch for registration, the session a ticket is tied to,
  the delivery of codes (`Delivery` has it), configurations of providers and
  their preflight, a binding that is removed or moved to another configuration (it is
  refused while accounts of the provider exist), and the accounts of the console
  (`modules/identitysecurity`), which follow the same pattern on tables of their own.
- Expiry of sessions and tokens is a refusal (`Fail`): no property compares times.
- Several users: every statement of `modules/iam` used here names one user.
- In the sessions, devices' names and audit rows: data the properties do not tell
  apart. The captcha and the failure counter of the login are not modelled.
- Of storage and feedback: downloads, lists, the storage configuration, replies and
  statuses of feedback, submissions with several screenshots (one is what the locks
  and snapshots are about), review and publication of releases, sessions for
  avatars that the console completes.
- Of the deletion of accounts: the verification code, the tables without files or
  ways to sign in,
  users who join an App again, and the projection of the jobs' attempts.
- Of the administration: sessions (`Session` has what ends them; here a member who
  may sign in does), single permissions and their ceiling (`granted` stands for those
  of the administration), codes and their uniqueness, versions of rows, which
  unit is the primary one, profiles and passwords, the deletion of users, block
  rules, and several tenants: every statement names one.
- The other components of the table: see the plan, and the notes in
  `PROJECT.json`.

## 14. Running it

    tlc -workers 4 -config Delivery_channels.cfg MCDelivery.tla
    tlapm DeliveryProofs.tla

and likewise for the other runs (`MCPublication`, `MCScheduler`, `MCMobile`,
`MCStorage`, `MCLoginMethods`, `MCAdministration`) and proof modules; every run ends within about two
minutes, and the proofs of `LoginProofs` take the longest.
