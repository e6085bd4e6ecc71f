# Verification of LearnGrid

LearnGrid is a learning-management system: ten Django services, each with its
own PostgreSQL database, behind an API gateway, with Redis for caches, locks and
security state, and Kafka for events. This directory holds TLA+ models of the
parts of it that are hard to test, the TLC configurations that check them on
small instances, and theorems about them that TLAPS proves for every instance.

All source paths below are relative to `backend/` of the repository.

## 1. Inventory

### 1.1 Components, their state and their operations

| Component | State | Operations that change it |
|---|---|---|
| auth-service, token sessions (`services/auth-service/apps/authentication/services.py`) | rows `accounts`, `credentials`, `refresh_tokens`, `token_blacklist`; Redis blacklist keys | login, OIDC login, refresh, logout, deactivate, update status, confirm password reset |
| auth-service, one-time secrets | `password_reset_tokens`; Redis keys for reset tokens, OTP codes and OIDC states | request and confirm reset, issue and verify OTP (not used by a view yet), start OIDC login and callback |
| auth-service, roles and permissions | `roles`, `role_permissions`, `role_assignments`; Redis permission cache | assign and revoke role, grant and revoke permission, check permission |
| user-service | institutions, departments, batches, profiles | create, update and deactivate a profile, each with a call to auth-service |
| course-service | courses, modules, lessons, topics, revisions; Redis catalog cache and structure lock | create, update, archive, reorder, publish, create revision |
| content-service | assets, versions, upload sessions, access grants; object storage; Redis | presigned and proxied upload, complete, publish, delete, version, signed access |
| enrollment-service | enrollments, status history, access grants | create, change the status, enroll a batch or cohort of students |
| progress-service | lesson, video, assessment and course progress, processed events | REST progress updates, event ingestion |
| assessment-service | quizzes, questions, attempts, answers, assignments, submissions | authoring, start, save, submit and auto-submit an attempt, save, submit and mark a submission |
| grading-service | grade records, history, manual reviews, publications, certificates | calculate, review, override, publish, evaluate, issue and revoke a certificate |
| notification-service | notifications, templates, preferences | ingest an event, mark read, preferences |
| analytics-service | event facts, aggregates, search records, report snapshots; Redis dashboard cache | ingest an event, upsert, generate a report |
| `shared/learngrid-events` | Kafka topics with their retry and dead-letter topics, committed offsets | publish, consume, retry, dead-letter, replay |
| `shared/learngrid-redis` | locks, rate-limit counters, JSON caches | acquire, release, count, get, set |
| `shared/learngrid-authz`, `-observability`, `-security` | none | HTTP authorization client, logging and metrics, start-up checks |
| frontend, gateway, Helm charts, scripts | browser session; configuration | only the course player is modelled, with progress |

### 1.2 How they interact

- A browser or another service calls a service over HTTP through the gateway.
  A view loads the objects it needs, outside any transaction, and passes them to
  a function of `services.py`. `ATOMIC_REQUESTS` is not set: a request is
  atomic only where a function says `@transaction.atomic`, and rows are locked
  only where it says `select_for_update`.
- Every service asks auth-service whether a token is valid and whether an
  account has a permission (`learngrid-authz`); auth-service caches permissions
  in Redis.
- A service publishes events after its transaction commits
  (`transaction.on_commit`); there is no outbox. Consumers of progress,
  notification and analytics read them with manual offset commits, retry
  through a retry topic and give up into a dead-letter topic.
- user-service creates and deactivates accounts in auth-service by HTTP;
  assessment and grading call progress-service and each other by HTTP.

### 1.3 What is hard

- **Interleaving**: requests run concurrently over read-committed transactions,
  most of them without row locks, on objects read before the transaction.
- **Partial failure**: PostgreSQL, Redis, Kafka and HTTP calls are separate
  steps; a request may stop between any two.
- **Delivery**: events are delivered at least once, may be retried, replayed
  and reordered, and may be lost between commit and send.
- **Time**: token lifetimes, Redis keys, attempt deadlines and the lock of a
  course structure expire while requests are under way.

`PROJECT.json` lists the hazards line by line.

### 1.4 What makes each component correct

- Token sessions: a refresh token is exchanged at most once; what is revoked
  stays unusable; logout ends the session; requests that wait for each other's row
  locks are known pairs.
- One-time secrets: a reset token is used at most once, and nothing is used that
  was not read while it was open; no window admits more requests than its limit.
- Permissions: a cached answer is what the database says, unless a change has yet
  to invalidate it or the check overlapped one; it expires in any case.
- Accounts and profiles: the two services agree which accounts are deactivated, and
  a failed creation leaves no usable account.
- Catalog: students see published courses only, and what a cache holds was true
  unless a write overtook the read that stored it; revisions are numbered without gaps.
- Content: an upload that counts as complete was verified and has a version, unless a
  client declared it complete; it is not brought back after its deletion; a link is
  justified and resolved once.
- Course structure: positions are unique and dense after a reorder; no sequence
  of legal calls makes a structure impossible to reorder.
- Enrollment: an access grant is valid only while the enrollment is active, and
  the history records the transitions that happened.
- Events: an event that was accepted is applied exactly once or is in a
  dead-letter topic; replay does not apply it twice.
- Progress: what was reached is not undone, the row of the course counts what is
  completed, and a completion is announced.
- Authoring and assignments: what is stored could be used, a quiz holds one list of
  questions, and nothing is turned in before the assignment opens or after it is shut.
- Notifications: one per event and recipient, and none for who opted out.
- Analytics: a cached dashboard shows the latest aggregate, the figures of a report
  agree with each other and are of its institution only.
- Attempts: at most one open attempt, no more attempts than allowed, nothing is
  saved after submission or after the deadline, a submitted score is final.
- Grades: the history accounts for every score, the published one included; a
  certificate rests on a completed course and published results, and a revoked
  one stays revoked.

## 2. Modules

### TokenSession

A *request* is a worker executing one operation; it is one database transaction.
Its reads see committed rows (READ COMMITTED), its writes stay in the request
record and become visible in the commit action, and the row locks it holds are
read off the request records (`HoldsAccount`, `RowFree`). Redis writes are
visible at once and survive a rollback (`Abort`). A *pair* is an access and a
refresh token issued together; its claims are the variables `owner`, `stamp`
and `issuedAt`.

| Code | Actions |
|---|---|
| `issue_token_pair_for_credentials` | `LoginRead`, `LoginLock`, `LoginCommit` |
| `refresh_token_pair` | `RefreshRead`, `RefreshLock`, `RefreshBlacklist`, `RefreshCommit` |
| `logout_tokens` | `LogoutRead`, `LogoutLock`, `LogoutBlacklist`, `LogoutCommit` |
| `deactivate_managed_account`, `update_managed_account` with status deactivated, with a new email or phone (`newKey`) or without | `DeactivateBegin`, `RevokeCredential`, `RevokeRows`, `RevokeCommit` |
| `confirm_password_reset`, its transaction | `ResetBegin`, then as above |
| `update_managed_account` with another status | `SetStatus` |
| `authenticate_access_token` | the predicate `AccessAccepted` |

The variables `parent`, `epoch`, `readEpoch`, `loggedOut`, `keyed`, `ended` and `tied`
are history: no action reads them except to update them.

PostgreSQL has two strengths of lock on an updated row. An update that leaves the
unique columns alone lets other transactions take the key-share lock that a foreign key
to the row needs; `SELECT ... FOR UPDATE`, and an update of the email or the phone, do
not (`BlocksKeyShare`). A refresh and a logout need it when they insert a blacklist
row (`KeyShareFree`), and hold it from then on (`NoKeyShare`). Audit rows refer to the account that acts and
are left out: they are inserted in the same transactions, so that they add waits of
the same kind for a holder of the key.

`Abort` lets a request fail at any step; `RedisCanFail` lets Redis go and come
back without its keys lost. `Operations` selects which operations a run
explores. Times are ticks, `TicksPerSecond` of them a second, because expiry is
cut to whole seconds in two places that need not agree.

### EventDelivery

One topic of one partition with its retry and dead-letter topics, and the two
consumers (`kafka_consume` on the topic and on the retry topic) of one service.
`service` says which: it is chosen in `Init`, and the handler follows it. The
worker `"rest"` is the REST endpoint that takes the same events.

| Code | Actions |
|---|---|
| `publish_event` after commit | `Publish` |
| `kafka_consume` started by an operator | `Start` |
| its loop, `consume_event` | `Take`, `Reject` (a malformed envelope), `Reroute` (retry or dead-letter topic), `LoseSend`, `Commit`, `Crash` |
| `kafka_retry_dlq` | `Replay` |
| `ingest_event` of analytics-service | `Check` with `AnalyticsHandle`: one transaction |
| `ingest_notification_event` | `Check`, `RecordNotification`, `PublishResult` |
| `process_progress_event` | `Check`, `RecordProgress`, `ApplyProgress`, `PublishResult`: three commits |
| REST ingestion views | `Ingest`, then the handler, then `Respond` |

Kafka itself is not under `src/`; `Start` and `Send` model it as the adapter
uses it: a consumer resumes at the committed offset, a rejected record raises
nothing. `kafka_consume` gives no `auto_offset_reset`, whose default is `latest`
(`kafka_retry_dlq` gives `earliest`), so that a consumer whose group has committed no
offset begins at the end of the topic. That is so when it first starts, and when it ends
with an exception or a crash before its first commit; `skipped` collects the events it
passes over. Rebalancing and partitions of one topic beyond one are left out: events
that share a key share a partition, and no property relates two keys.

### CourseStructure

Modules, lessons and topics share their position code, so one module has all
three; `kind` is chosen in `Init`. A request is a worker holding the row its
view loaded (`copy`); `Save` is the query that writes it. The table keeps the
unique constraint in `Write`, archived rows included. A reorder is
`EnterReorder` (Redis lock, then read), `AssignPositions` (its transaction, all
saves of both passes of `_assign_ordered_positions`, rolled back if one fails)
and `LeaveReorder`; `Expire` is the time to live of the lock.

| Code | Actions |
|---|---|
| views `get_object`, then `update_*` | `Load`, `EditUpdate`, `Save` |
| `archive_module`, `archive_lesson` | `Load`, `EditArchive`, `Save` |
| `publish_lesson`, `delete_topic` | `Load`, `Save` |
| `create_module`, `create_lesson`, `create_topic` | `BeginCreate`, `Insert` |
| `reorder_modules`, `reorder_lessons`, `reorder_topics` | `EnterReorder`, `AssignPositions`, `LeaveReorder` |

### QuizAttempt

Attempts of one student at one quiz. A request carries what it loaded in its
view or read at the start of its transaction; `raced` collects the attempts
whose requests overlapped, `reverted` those with an answer put back.

| Code | Actions |
|---|---|
| `start_quiz_attempt` | `StartLoad`, `StartCount`, `StartInsert` (unique attempt number) |
| `save_attempt_answers` | `SaveLoad`, `SaveCheck` (deadline), `SaveWrite` |
| `submit_attempt`, also as auto-submit | `SubmitLoad`, `SubmitScore`, `SubmitCommit` |
| `update_quiz_config`, `publish_assessment`, `close_assessment`, `archive_assessment`, `replace_quiz_questions` | `Configure`, `SetAvailable`, `ReplaceQuestions` |

Left out: essay questions, whose score is None until graded by hand; changes of
the time limit and of `available_until` after an attempt began (`PassDeadline`
may come at any time instead); the statuses cancelled and graded, which no
service sets.

### EnrollmentAccess

Enrollments of students of one course with their grant. Creating one is a single
transaction (`Create`, and each round of `RunJob`); changing a status is not, so
each query is an action.

| Code | Actions |
|---|---|
| `create_enrollment` | `Create`, `Enroll` |
| `create_batch_enrollment_job`, `create_cohort_enrollment_job`, `_create_many_enrollments` | `StartJob`, `RunJob`, `FinishJob` |
| `transition_enrollment` | `SaveStatus`, `RecordHistory` |
| `sync_access_grant` | `FetchGrant`, `SaveGrant` |
| `has_active_access` | the predicate `Access` |

Loading the row and saving its status are one action: only `from_status` of the
history entry depends on the copy, and it is left out. `torn` collects the
students whose status changes overlapped or were cut short.

### Grading and Certificates

`Grading` has the grade records of one student in one course, `Certificates`
extends it with the certificate; its `Next` composes the two, and progress-service,
by their variables. Requests about grades (`worker`) and about the certificate
(`clerk`) hold what their views loaded. They meet in `Passing`, which an
evaluation reads from the published results and the present maxima.

| Code | Actions |
|---|---|
| `upsert_grade_record` in `calculate_grade_from_quiz`, `create_manual_review` | `Get`, then `Insert` or `Save` |
| `complete_manual_review`, `override_grade` | `LoadChange`, then `CompleteReview`, `Override` |
| `publish_grade` | `LoadPublish`, then `FindPublished`, or `Mark` (the HTTP call) and `Publish` (the commit) or `RollBack` |
| `evaluate_certificate_eligibility` | `FetchProgress`, `ReadResults`, `StoreDecision` |
| `update_certificate_asset`, `revoke_certificate` | `Open`, then `Link`, `Revoke` |
| `recalculate_course_progress` | `Recalculate`, any change of the status |

The mark of a submission is visible before its result is: the transaction that called
assessment-service commits, or is rolled back, in a later step, after the publication of
the event. A call that fails is passed over, and what it does may come after an answer
that nobody waited for (`MayMark`).

`raced`, `orphaned` and `earned` are history. A certificate is represented by
whether it is revoked: the asset and the number distinguish nothing the
properties speak of, so `Link` ends its request without a visible change.
Saving writes back the loaded `published_at` too; timestamps are left out.

### Permissions, Provisioning, AccountSecrets; AccountServices

`Permissions` has accounts, roles and grants of auth-service and the cache in Redis.
`Provisioning` extends it with user-service: a *clerk* is a request for a profile,
which calls auth-service between its own steps; a call may be refused, do its work
and lose its answer (`divided`), or never arrive. `AccountServices` composes this with
`AccountSecrets`. The two share no tables or keys, so each behaviour exercises one
of them: the variable `part`, chosen in `Init`, says which.

| Code | Actions |
|---|---|
| `has_permission` | `CheckMiss`, `CheckRead`, `CheckStore` |
| `assign_role`, `revoke_role_assignment`, `grant_role_permission`, `revoke_role_permission` | `Assign`, `LoadAssignment` and `RevokeAssignment`, `GrantPermission`, `WithdrawPermission` |
| `invalidate_permission_cache` | `Scan`, `Delete`, `InvalidationFails` |
| `create_user_profile` | `BeginCreate`, `CallCreate` or `CallRefused`, `Store` or `StoreFails`, `Undo` |
| `update_user_profile` | `LoadProfile`, `SaveProfile` |
| `deactivate_user_profile` | `BeginDeactivate`, `CallDeactivate` or `CallRefused`, `SaveDeactivated` |
| `update_managed_account` called directly | `SetStatus` |
| institutions, departments, batches | `CreateInstitution`, `CreateSection`, `LoadUnit`, `UpdateUnit`, `ArchiveUnit` |
| `fixed_window_rate_limit` | `Incr`, `SetExpiry`, `WindowEnds` |
| `request_password_reset` | `BeginReset`, `SetResetKey`, `CommitReset` |
| `confirm_password_reset` | `ReadReset`, `CheckKey`, `MarkExpired`, `LockReset`, `DeleteResetKey` |
| `start_oidc_authorization`, `complete_oidc_callback` | `StartOidcAuthorization`, `GetState`, `PopState`, `Exchange`, `Validate`, `LookUpAccount`, `Link` |

**Refinement.** `OneTimeSecret` says what any secret that is used once promises: it
is issued once; a request that uses it was shown it while it was open; it is never
open again once used or given up. `AccountSecrets` implements it with reset tokens
and OIDC states (`Promise == INSTANCE OneTimeSecret WITH ...`). The phase of a reset
token is read off its row, that of a state off its Redis key, and the holders of both
are the requests between the check and the use; `ImplementsOneTimeSecret` is checked
over every step of the run, and proved step by step (`SecretsUsedOnce`). It does not
promise that a state is used *once*: get and
delete are two calls, so that two callbacks can both hold it. A reset token can be
held by two requests as well, but is used by one (`ResetUsedOnce`, the row lock).

### CourseCatalog, CatalogCache, Progress

The three are one chain: managers write courses, categories and tags
(`CourseCatalog`); students read them through Redis while revisions are recorded
(`CatalogCache`); the player of a student shows how many lessons the structure has,
and sends that number with the progress (`Progress`, whose `Next` composes them).
A worker runs one request of any of these. `overtaken` and `raced` name the requests
and keys during which another one wrote: what is stale must have such a reason.

| Code | Actions |
|---|---|
| `create_course`, `update_course` with `replace_course_metadata` | `CreateCourse`, `LoadForUpdate`, `SaveCourse` |
| `publish_course`, `archive_course`, `delete_course` | `LoadForStatus`, then `PublishCourse`, `ArchiveCourse`, `DeleteCourse` |
| writes of the structure | `Restructure` (the details are in CourseStructure) |
| categories and tags | `CreateCategory`, `CreateTag`, `LoadCategory`, `LoadTag`, `SaveTerm`, `DeleteTerm` |
| `invalidate_catalog_cache` after the commit | `Invalidate`, one key at a time, or `Stop` |
| cached list, detail and structure views | `AskList`, `AskDetail`, `AskStructure`, `ReadRows`, `ReadRest`, `StoreEntry`, `Expire` |
| `create_course_revision` | `LoadForRevision`, `NumberRevision`, `TakeSnapshot`, `InsertRevision` (unique number) |
| `StudentLearningPlayerPage` of the frontend | `Look` |
| `update_lesson_progress`, `update_video_progress`, `update_assessment_progress` | `PostLesson`, `PostVideo`, `PostAssessment`, then `SaveLesson`, `SaveVideo`, `SaveAssessment` |
| `process_progress_event` | `TakeEvent`, `RecordEvent`, `ApplyEvent` |
| `recalculate_course_progress` | `CountLessons`, `CountAssessments`, `GetSummary`, `SaveSummary`, `Publish` |

### Authoring, Coursework

`Authoring` has one bank, its questions and one assessment, a quiz or an assignment;
`Coursework` extends it with the submissions. A request keeps the copy its view
loaded, asks auth-service, and saves.

| Code | Actions |
|---|---|
| banks | `CreateBank`, `LoadBank`, `SaveBank`, `ArchiveBank`, `ArchiveQuestions` |
| questions, `validate_question_payload` | `LoadBankForQuestion`, `LoadQuestion`, `SaveQuestion`, `ArchiveQuestion`; `WellFormed` |
| `create_assessment`, `update_assessment` | `CreateAssessment`, `LoadUpdate`, `CommitUpdate` |
| `replace_quiz_questions` | `LoadReplace`, `DeleteLinks`, `CommitUpdate` |
| `publish_assessment`, `close_assessment`, `archive_assessment` | `LoadPublish`, `SavePublished`, `LoadClose`, `SaveClosed`, `ArchiveAssessment` |
| `save_assignment_submission`, `update_assignment_submission` | `LoadAssignment`, `CheckAvailable`, `GetSubmission`, `LoadDraft`, `SaveDraft`, `Log` |
| `submit_assignment_submission`, `_finalize_assignment_submission` | `LoadToSubmit`, `CheckAvailable`, `Finalize`, `Log` |
| `mark_assignment_submission_graded` | `LoadToGrade`, `MarkGraded`, `Log` |

A view loads the assignment, asks auth-service, user-service and enrollment-service,
and only then is the assignment checked to be available: by the row as it was loaded
(`copy`), at the time of the check. `settled`, `offers` and `offered` are history.

### ContentAssets, Inbox, Dashboards, Reports; EdgeServices

Content-service, notification-service and the two halves of analytics-service share
no state: `EdgeServices` composes them with a variable `part`, as AccountServices does.

| Code | Actions |
|---|---|
| `create_asset`, with a link or a registered object | `CreateLinkAsset`; `VerifyRegistered` (its size), `ScanRegistered`, `CreateRegistered` |
| `create_presigned_upload`, `complete_presigned_upload` | `CreatePresignedUpload`, `Put`, `BeginComplete`, `VerifyComplete` (its size), `ScanComplete`, `MarkComplete`, `FirstVersion` |
| `proxy_upload_asset` | `UploadObject`, `RecordUpload` |
| `create_content_version` | `BeginVersion`, `NextNumber`, `InsertVersion` |
| `update_asset`, `publish_asset`, `delete_asset` | `LoadAsset`, then `SaveUpdate`, `SavePublished`, `SaveDeleted` |
| `create_permission`, `grant_signed_access`, `resolve_signed_access` | `CreatePermission`, `LoadForLink`, `GrantSignedAccess`, `ReadLink`, `UseLink` |
| `ingest_notification_event` | `BeginNotice`, `FindRecipient` and `WordRecipient` for each recipient, `CommitNotice` or `FailNotice`, `Announce` |
| templates, preferences, marks as read | `CreateTemplate`, `LoadTemplate`, `SaveTemplate`, `SetPreference`, `OpenNote`, `MarkNote`, `ReadAll` |
| `cached_dashboard_payload` | `AskDashboard`, `ReadDashboard`, `StoreDashboard`, `ExpireDashboard` |
| `upsert_dashboard_aggregate` | `StoreAggregate`, `InvalidateDashboards` (inside the transaction), `CommitAggregate` |
| `ingest_event`, `create_usage_metric`, the search index | `IngestFact`, `CreateMetric`, `IndexResource`, `DropResource` |
| `generate_report_snapshot`, `create_report_snapshot` | `BeginReport`, `QueryFigure` for each figure, `StoreReport` or `FailReport`; `PostReport` |

The metadata of an asset are a free JSON field, `upload_status` in it included:
`create_asset` of a link stores what a client sends, and `update_asset` writes it over what
an upload has stored. `declared` notes that a client did so, and `putLate` that the URL of
an upload was used once more after the object was measured; what the properties say of
complete uploads excepts the two.

A figure of a report is the set of rows it is counted from, so that two figures
agree if their rows do. A metric, a wording or a question is one of a few values.

## 3. Runs

`tlc -config X.cfg MCmodule` runs one; `PROJECT.json` pairs each run with its
module, and each property with a mutation of the model that breaks it.

| Run | Property | What it says |
|---|---|---|
| `token_revocation` | `RotatedAtMostOnce` | a refresh token never has two successors |
| | `RevokedNeverRotated` | a refresh never exchanges a row whose revocation is committed |
| | `RevocationCutsOffOldCredentials` | a pair issued from credentials read before a revocation is refused after it |
| | `OnlyKeyLocksDeadlock` | two requests wait for each other's row locks only if one locked the key of the account and the other is to insert a blacklist row |
| `token_logout` | `LoggedOutAccessRejected` | the access token of a logout that succeeded is rejected, unless its key never reached Redis, or it is in its last second |
| `events_delivery` | `UniqueEventIdAppliedAtMostOnce` | where the event id is unique in the table, an event takes effect once at most |
| | `AtomicHandlerLosesNothing` | services that commit the record of an event with its effect lose no event the broker took, unless a consumer without a committed offset started behind it |
| | `QueuesAgree` | topics and offsets are well formed, and an event reaches the dead-letter topic only after all its attempts |
| | `EventuallySettled` | without malformed events, and but for progress-service, every event sent takes effect, is given up, is lost by the broker, or passed over by a first start |
| `course_structure` | `LeaseProtects` | until the lock of a reorder expires, nobody else releases or takes it |
| | `ReorderFitsBelowArchived` | a complete reorder fits if the archived rows are above its final positions |
| `quiz_attempts` | `AttemptsWithinLimit` | never more attempts than the highest limit the quiz has had, however many start at once |
| | `AttemptsAgree` | the score of a closed attempt is the sum of its answers, if its requests did not overlap |
| | `ClosedIsFinal` | a closed attempt and its answers do not change, if its requests did not overlap |
| `enrollment_access` | `AccessEndsWithEnrollment` | access is never granted past the end of the enrollment |
| | `SerialChangesAgree` | status, history and grant agree if status changes do not overlap |
| | `JobStatusTruthful` | a finished job leaves no student out, and reports success exactly if it enrolled them all |
| `grading_certificates` | `HistoryAccounts` | the history accounts for the score of a record and the one published, and chains if changes did not overlap |
| | `GradedMeansPublished` | a submission marked graded has a result, or a publication of it is under way or was rolled back after the call |
| | `CertificatesAgree`, `RevocationStays` | certificates are earned, exist for the eligible, and stay revoked |
| `account_services` | `CacheAgrees` | a cached answer is what the database says, but for the known races |
| | `AccountsAgree` | no usable account without a profile, none after its deactivation, both services agree, and a profile is in a section of its institution |
| | `LoginsGuarded` | a reset token is used once, no window admits more than the limit, counters expire unless their request stopped, and an external identity stays with its account |
| | `ImplementsOneTimeSecret` | resets and OIDC logins refine `OneTimeSecret` |
| `edge_services` | `AssetsAgree` | a complete upload was measured and scanned and has a version unless a client declared it complete, what is stored passes both unless it was put again after that, versions are numbered in order, a deletion is undone only by a request that loaded the asset before, a link is justified and resolved once unless two requests read it at a time |
| | `NoticesAgree` | one notification per event and recipient unless two handlers overlap, none for who opted out, none missing once announced, and an active template is not replaced by the default |
| | `DashboardsAgree` | a cached dashboard is the latest, unless a write overtook the request that stored it |
| | `ReportsAgree` | what a report lists it counts, its figures agree unless rows were written between its queries, and none is of another institution |
| `coursework` | `AuthoringAgrees` | what is stored was valid as a whole, a quiz has the last list that was sent and is not published without one, and what was archived stays so |
| | `SubmissionsAgree` | what is submitted has content, and the audit log tells the status |
| | `ShutTakesNothing` | nothing is turned in unless, since no request was in progress, the window of a row by which the assignment was published has been open: not before it opens, and not once it is shut and requests begun before have ended |
| `study` | `CacheTruthful` | what the catalog cache holds is what the database would answer, unless a write overtook it |
| | `CatalogAgrees` | cached lists show published courses only, revisions are numbered without gaps, links stay within an institution |
| | `ProgressAgrees` | the row of the course counts what is completed, a completion is announced, and covers all lessons when the player was right |
| | `OnlyOvertakenLose` | dates, positions, views, attempts and deletions are put back only by a request another one overtook, and a revision tells what was there |

`TypeOK` is a property of its own in four runs, and a conjunct of the properties above
in the others. A property named `...Agree(s)` is a conjunction:
each of its parts is defined and explained on its own just before it.

One run ends in a counterexample that contradicts a document of the repository, and
has a finding in `PROJECT.json`:

- `course_reorder_blocked`: an archived module keeps a position that a complete reorder
  needs; every later reorder fails on the unique constraint.

### Known divergences

Five more statements of the documents are defined beside the properties, and not met
by the code. Naming one of them in a cfg shows how:

- `LogoutEndsSession` (TokenSession; `docs/specs/001-authentication-lifecycle.md:24`):
  a logout that waits behind a refresh of the same token updates no row, reports
  success, and leaves the new pair usable.
- `NoEventLost` (EventDelivery; `docs/specs/020-kafka-eventing.md:16`): progress-service
  records an event before it applies it, in another commit, so that the retry of a
  failure between them is taken for a duplicate.
- `FailuresRetried` (EventDelivery; `docs/specs/020-kafka-eventing.md:16`): the consumer is
  created without `auto_offset_reset`, which the replay command sets to `earliest`
  (`kafka_retry_dlq.py:33`). What was sent to a retry topic before its consumer first
  ran, or first committed and was started again, lies behind the offset it begins at.
- `SavedAnswersKept` (QuizAttempt; `docs/specs/013-quiz-attempts-exams.md:17`): an answer
  saved during a submission is overwritten with the one the submission had read.
- `AccessOnlyIfActive` (EnrollmentAccess;
  `docs/specs/009-enrollment-access-management.md:24`): two overlapping status changes
  leave an active grant on an inactive enrollment.

Met while modelling, and visible in the guards of the models:

- A failed login writes its audit row inside the transaction that the exception then
  rolls back, although failed attempts are to be audited
  (`docs/specs/001-authentication-lifecycle.md:26`).
- A lesson that was completed goes back to in progress when it is viewed again,
  although updates are to be idempotent
  (`docs/specs/010-learning-progress-tracking.md:17`); its date of completion stays.
- The true-or-false question of the seed data stores `{"choice_id": "true"}`, which the
  serializer of updates would refuse; `StoredValid` excepts the seed data.
- An event for which no template is active writes the default wording over an inactive
  template and activates it; `ActiveTemplateKept` therefore speaks of active ones.
- On PostgreSQL no password reset succeeds: `confirm_password_reset` asks for
  `select_for_update().select_related("account", "account__credential")`, and `FOR UPDATE`
  is refused on the nullable side of an outer join. `ResetBegin` and `LockReset` model the
  transaction as it is written, with its lock on both rows; every behaviour without
  resets is among those checked.
- A client can declare an upload complete by its metadata (`declared`), and a presigned URL
  can replace an object that has been verified (`putLate`).
- A submission on its way is judged by the row of the assignment it has read, although that
  one has been closed, archived or moved to another window meanwhile.
- A notification whose announcement failed is not announced by the retry either: its
  recipients are found to have it.

### Bounds, and why they are enough

The proofs need none of these bounds to be small; the runs need them to finish.

- Two requests at a time everywhere: every hazard listed is a race of two, and
  each property is about one row or one pair of requests. Three pairs in
  `token_revocation` let a pair be issued, rotated, and rotated again.
- Times of one or two ticks put each lifetime before, at and after its end.
  In `token_logout` two ticks make a second, so that claims cut to seconds and stamps
  that are not differ, and Redis comes and goes. `LoggedOutAccessRejected` names the two
  ways out: a logout while Redis is away writes only the database row, and
  `is_token_blacklisted` asks the database only when Redis raises an error; and the
  key expires up to a second before the token.
- `token_revocation` has deactivations with and without a new email or phone, other
  updates of the status, and resets, which lock the account row along with the reset token:
  two requests are enough for two to wait for each other. Logouts are in
  `token_logout`, where nothing revokes; that a logout may be part of such a circle, and
  that no longer circle exists without a lock of the key, is shown by the proof.
- `events_delivery`: two events, one of which may be malformed, two attempts, two
  faults of a handler or a send, one crash, one REST ingestion, one replay: a
  failure on the last attempt, and a redelivery after a crash, both happen. Consumers
  start at any time, before or after events are there.
- `course_structure`: two rows, two scopes, three positions, one above what a
  complete reorder needs.
- `quiz_attempts`: one question, limits 1 and 2, one edit of the quiz.
- `enrollment_access`: two students, one job, three history entries, one crash;
  with 4.4 million states the largest run.
- `grading_certificates`: one record, up to three changes of it (no change begins
  after the second entry), two scores, one that passes and one that fails, and one
  maximum: what a stale evaluation decides differs from the present by the progress of
  the course, and by what has been published meanwhile. That a change of the maximum
  moves the percentage of a published score, and that overlapping calculations create
  two records of one submission, is covered by the proofs only.

- `account_services`: one account, two clerks, workers and askers; the parts take them
  from the same model values, so that one permutation serves both. One change of
  roles and two requests for profiles at a time (`MaxStarted`), with the calls between
  them; two secrets, four requests for them, a limit of one per window.
- `edge_services`: four requests on an asset, two of them at a time, so that a request
  can load before, and save after, an upload, its completion and its deletion; one
  event with two recipients, handled twice; two days of a dashboard of the platform and
  of a student, two requests and a write; two facts, a metric and a record of two
  institutions, two writes between the queries of a report.
- `coursework`: two questions in one bank, lists of two positions, one student, three
  requests, of which two overlap; three times with dates at the middle one, so that a
  window is not yet open, open, and over.
- `study`: two courses of two institutions with a category, its parent and a tag, one
  lesson and one assessment of the course that is studied, up to two published lessons
  in its structure, three events, three requests of which two overlap.

Each of the last four runs has been let reach every action of its parts, and each
part of its properties has been seen to fail on a mutation of the code it is about.

`CHECK_DEADLOCK FALSE` is set where the bounds, or a quiet system, leave nothing
to do; `grading_certificates` checks deadlock.

### Fairness

Only `events_delivery` has a liveness property. `FairSpec` adds weak fairness of
`Proceed` for the two consumers: `kafka_consume` is a loop that an operator
starts with a management command (`docs/DEVELOPMENT.md`) and keeps running, and
each step of it is enabled until it is taken. Nothing is assumed of producers, REST
callers, replays, faults and crashes; the latter two are bounded.

## 4. Proofs

| Module | Theorem | States |
|---|---|---|
| `TokenSessionProofs` | `TypeCorrect`, `RotationSafe`, `RevocationRespected`, `RevocationSafe` | the properties of `token_revocation` |
| | `LogoutRejects` | `LoggedOutAccessRejected`: Redis may fail, and a second have any number of ticks |
| | `LocksOrdered`, `DeadlocksNamed` | row locks are taken in an order, with one exception, which is the one circle of two requests: `OnlyKeyLocksDeadlock` |
| `CourseStructureProofs` | `TypeCorrect`, `LeaseSafe`, `ReorderSafe` | those of `course_structure` |
| `AssessmentProofs` | `AttemptsTruthful`, `LimitHolds`, `ClosedStaysFinal` | the properties of `quiz_attempts` |
| | `AuthoringSound`, `SubmissionsSound`, `ShutIsFinal` | those of `coursework` |
| `EnrollmentAccessProofs` | `TypeCorrect`, `AccessEnds`, `SerialSafe`, `JobsTruthful` | those of `enrollment_access` |
| `CertificatesProofs` | `TypeCorrect`, `HistoryTruthful`, `GradedPublished`, `CertificatesJustified`, `RevocationPermanent` | those of `grading_certificates` |
| `AccountServicesProofs` | `RecoveryGuarded`, `SecretsUsedOnce`, `PermissionsCached`, `ServicesTellTheSame` | those of `account_services`, the refinement of `OneTimeSecret` included |
| `ProgressProofs` | `CacheSound`, `CatalogSound`, `ProgressSound`, `LossesOvertaken` | those of `study` |
| `EdgeServicesProofs` | `GivenUpLate`, `AppliedOnce`, `NothingDisappears` | the safety properties of `events_delivery` |
| | `AssetsSound`, `NoticesSound`, `DashboardsSound`, `ReportsSound` | the properties of `edge_services` |

They hold for all values of the constants that satisfy the named assumptions of
the modules, which TLC evaluates in every run:

- bounds are natural numbers, and the markers `None`, `Nobody`, `NoWorker`,
  `NoJob` and `Gone` are none of the values they stand beside;
- `RowAssumption` of CourseStructure: the bound on positions leaves room for all rows;
- `CatalogAssumption`: the course of the seed data is there, with the lesson it has, so
  that `MaxLessons` is positive; a category has one parent at most;
- `ProgressAssumption`: the lessons and assessments of a course are finitely many, and
  a video has a last position;
- `MarkerAssumption` and `SubmissionAssumption` of the coursework, `NoneIsNoRow` of
  ContentAssets: the marker for a missing row is not a row, nor one of its values;
- `DashboardsAssumption`: the days of aggregates are `1 .. LastDay`, so that some days
  have a last one; `InboxAssumption`: an event names finitely many recipients;
- `ReportsAssumption`: the rows of an event fact, a metric and a search record are
  different rows.

No theorem assumes more than these: none restricts the operations of a specification, the
failures of Redis or the resolution of the clock.

For each specification, or each part of one whose parts share no state, one inductive
invariant is proved, by one lemma per action or group of actions, and each theorem
follows from it. It is `IInv` unless the list below names it. What the invariant adds to the property:

- *TokenSession*: what a request at each step has read and locked
  (`RequestShape`, `LockedRows`, `AccountLock`). A rotation is the only successor
  because the request holds the row lock from its re-read to its commit; a
  revocation cuts off old credentials because it stamps the account under the
  account's lock (`StampOrder`), and a pair's issue time is read no later than its
  credential was found unchanged. `ParentsRevoked` links the two.
  For logouts, `LogoutCovered` carries the key a request has written in Redis from its
  write to the commit and until the token expires (`Covered`), and `LogoutRecorded` the
  row that it has stored. For locks a request that waits for another has a higher `Rank`,
  which is how many row locks it has yet to take, because whoever holds rows needs no more
  of them (`LockShape`); but for an insert that waits for the key of the account, and so a
  circle of any length has one of those (`LockOrder`).
- *EventDelivery*: a consumer is at the committed offset, or where it started if there is
  none, and handles the message after it (`OffsetsKept`); what a message counts as attempts were failures
  (`AttemptsBacked`, `FailureCounted`); `RecordsKept` says how far the record of an
  event and its effect may be apart in each service; `NothingLost` strengthens
  `AtomicHandlerLosesNothing` to a message that its consumer is not done with, so
  that a commit takes away nothing.
- *ContentAssets* (`AssetsInv`): an asset, or the copy of one that a request loaded, that
  counts as uploaded was verified and has an object, or was declared so by a client
  (`Good`), and has a version or a completion that is to make one (`Backed`), so that a save of an old copy brings back
  nothing that never was. `ClientSound` says what each request has found out that still
  holds when it acts: its copy is not deleted, its number is at most the next, the rows
  it is to create are of an object that was verified. A link that no two requests read
  at a time has one request that resolves it, and is unused while that does (`LinksTurn`).
- *Inbox* (`InboxInv`): a handler that has dealt with a recipient has a notification to
  commit for it, or it is there, or the recipient opted out (`NobodyForgotten`), and what
  it is to commit is for recipients who wanted it (`MadeRightly`); two handlers of
  one event are noted (`HandlersApart`), so that one of them at most makes rows for it.
- *Dashboards* (`DashboardsInv`): what a request has read is the latest aggregate unless a
  write has committed since (`ReadCurrent`); of the keys that a write has dropped, what
  was stored until it commits was overtaken (`OnlyOvertaken`).
- *Reports* (`ReportsInv`): the rows a figure was counted from are of the scope
  (`Sourced`), and, since event facts and metrics are only ever added to, part of those of
  a later figure (`Growing`). Until a row is written a report holds what its queries
  would return now (`UpToDate`), and so all its figures are of the same rows
  (`Together`).
- *CourseStructure*: a request works on a row that was created, by an operation
  its kind has (`RequestsAllowed`), and only topics are deleted (`DeletedTopics`).
  `ReorderFits` follows from the unique constraint alone:
  the first pass moves rows above the greatest position of the scope.
- *QuizAttempt*: what a request has read fits the state (`Fits`): the limit it loaded
  is no higher than the highest, the number it counted is within it, a closed attempt
  that it still has was closed by another request and is in `raced`, and the answers
  it scored are all of the attempt's. `Total` is not opened: a score is the total of
  some answers, and the theorem says of which.
- *Coursework* (`CourseworkInv`): the content a request is to save was validated, and the
  assessment it read has the type that it still has (`AuthorFits`). The list of a quiz is
  the last that was asked for, and the one request that is replacing it has seen all its
  rows, unless two replacements overlapped (`OneReplacement`); a quiz that is published,
  or that a request is about to publish, has questions unless they were taken away from
  under such a request (`QuestionsLeft`). What has its last status
  *and* no request that carries an older copy stays so, and what was noted as final is
  of that kind (`FixedBanks` and its like, `SettledFixed`). A request that is to be
  checked holds to a row by which the assignment was offered, and one that was checked
  found its window open, so that `offered` holds while it lasts (`OffersKnown`). The audit log tells the
  status, or the one request about the submission is to write that it does, unless two
  of them overlapped (`LogFollows`).
- *EnrollmentAccess*: a fetched grant ends with its enrollment (`Changes`); a
  student whose changes did not overlap is changed by one request at most, and
  the tables agree as far as that request has come (`InStep`). `JobInv` says of a
  bulk job, request by request, which students of its list it has enrolled and which
  it has failed on; the ghost function `enrolledBy` tells a student of this job from one
  enrolled before it or by another, and no two requests run one job.
- *Certificates*: the score a publication carries is in the history
  (`PublishersAccounted`); the old score a request carries is the present one
  unless a change came between (`CopiesCurrent`); a submission that is marked has a result
  of one of its rows, or a publication between mark and commit; a row keeps its submission
  (`SameSubmission`); an evaluation that found the course completed, or decided
  for the student, was right at some earlier moment (`ClerksHonest`).
- *AccountServices*, secrets (`SecretsInv`): a window has admitted no more than it counts
  and a request about to set its expiry is the only one, and one it has not admitted yet
  (`Counters`); a secret that was used is not to be had again (`Secrets`), so that a
  request which still has one found it open before; a callback that found the account of
  the identity is to link the same one (`Links`). The refinement then maps each action
  to one of `Issue`, `Take`, `Use`, `Drop` and `GiveUp`, or to a stutter.
- *AccountServices*, permissions and profiles (`AccountInv`): a cached answer differs from
  the rows only if a request is on its way to delete it (`StoredAnswers`), and so does
  the answer of a check not yet stored (`ChecksRight`), with the overlaps of the
  known races excepted; of the two rows of an account that disagree, one request is
  at the step that makes them agree (`Rows`), unless a fault divided them, and it is the
  only one that creates this account (`Clerks`).
- *Progress*, the catalog (`CatalogInv`): what a request has loaded is what the database
  has, unless a commit overtook the request since (`Honest`); so a stored entry is the
  answer the database would give, or a request is about to delete it (`Entries`). The
  number a revision was given is taken or the next (`Revisions`), which with the unique
  constraint leaves no gaps. A term has one scope for all time (`Scoped`, an existential
  over a function that the proof carries along): the term as it is now does not suffice,
  because a request may save an old copy of one that was deleted.
- *Progress*, the student (`StudyInv`): the copy of a row that a request has goes on from
  the row, and what it counted is right, unless another request outran it (`Sound`);
  the total of lessons that the player saw last is the one in the structure while it
  is current (`Seen`).

Only model-checked: `EventuallySettled`. Liveness and `ENABLED`
are outside what the installed provers handle, and so is induction over data,
by which one would show what `Passing` sums or what the recursion over a list of
answers computes for every input; the proofs about certificates treat `Passing`
as a state predicate they need not open.

## 5. Not modelled

- Read-only queries and searches, pagination, wording of events and logs, formats of
  serializers. A refused request changes nothing and is a failing request.
- OTP codes (`issue_otp`, `verify_otp`): only tests call them so far.
- Editing grading rules: Certificates takes the threshold they give as a constant.
- Delivery attempts: in-app notifications are the only ones made, and their attempt is
  recorded with them.
- PostgreSQL, Kafka, Redis and the object store themselves: READ COMMITTED, row locks
  and unique constraints, one partition with committed offsets, keys that may be lost,
  objects that may be put at any time, as the code uses them.
- Clock skew between replicas, changes of a password within one millisecond,
  and reactivation of a disabled account, which revives the tokens issued before
  (TokenSession has deactivation by `deleted_at` and `status` only).
- `learngrid-observability`, `learngrid-security`, the gateway, containers, Helm charts
  and scripts: they keep no state the properties speak of. Of the frontend only the
  course player matters to another component, and is part of Progress.

## 6. Plan

In this order:

1. Abstract specifications: exactly-once-or-dead-letter delivery, which EventDelivery
   should refine for analytics; a session that is open, rotated or ended, which
   TokenSession should refine.
2. Grading rules, and OTP codes once a view uses them.
3. Compositions: `Certificates` with the `Progress` of the student instead of
   `Recalculate`, and `Coursework` with `Grading`, through marking a submission graded.
