# A verification of the ATS backend

TLA+ models of the resume-analysis backend in `src/`: a FastAPI service that
stores resumes and job descriptions, hands each pair to an external n8n
workflow for scoring and keeps what the workflow reports. TLC checks the
models on small instances; TLAPS proves the central results for every size.

## 1. Inventory

Several uvicorn workers (`entrypoint.sh` starts four) run the same handlers.
They share one PostgreSQL database, one Redis, one file storage, one mail
service and one n8n; they share no memory. A handler is a coroutine that gives
way at every `await`, so two requests interleave at every database or network
call, in one worker or in two. `core/database.py` gives each request one
transaction: it commits after the endpoint has returned, and rolls back on an
exception; with the FastAPI of `requirements.txt` that is before the answer is
sent. The isolation level is PostgreSQL's default, READ COMMITTED.

| Component | State | Operations | Hard part | What makes it correct | Module |
|---|---|---|---|---|---|
| Analysis orchestration (`services/analysis_service.py`, `n8n_service.py`, `api/internal/callback.py`) | `analyses` rows, the id sequence, n8n's executions | POST /analyses, webhook to n8n, callback from n8n, GET one / GET results | n8n is called inside an open transaction; late answers, lost and repeated callbacks, crashes, stale loads | results stay with their pair; what was answered is stored; no row regresses; POST is idempotent; an analysis that does not end has lost its report | `AnalysisRepository`, `AnalysisService`, `AnalysisBoard` |
| Resume library and file storage (`services/resume_service.py`, `storage/`) | `resumes` rows, audit entries, files | upload with deduplication, soft delete, get, list | the file is outside the transaction; check-then-write on the storage and on the unique hash | every row has its whole file; rows and audit trail agree; rows are permanent; every upload is answered | `ResumeLibrary` |
| Two-step login (`auth/router.py`, `auth/otp.py`, `services/email_service.py`) | one code per account in Redis | login, verify-otp | GET and DEL of a code are two round trips; mails that look failed; expiry; crashes | a spent code is gone; a login whose mail failed has taken its code back; single use | `OtpLogin` |
| Permission edits (`users/router.py`, `repositories/user_repo.py`) | `user_permissions` rows | PUT /users/{id}/permissions | DELETE and INSERTs of concurrent edits; row and key locks | no duplicate grants; an edit removes what it saw; every edit ends | `UserPermissions` |
| User administration (`users/router.py`, `repositories/user_repo.py`) | `users` rows | create, patch, deactivate; last_login_at of a verification | check-then-insert on the email; PATCH of a stale row; an actor who edits himself | one user per email; an edit writes what it was asked to and nothing else | `UserAdmin` |
| Access control (`auth/dependencies.py`, `rbac/`) | none of its own | token to user to permissions, per request | the row it loads stays in the session, and the endpoint may edit it | as user administration | in `UserAdmin` |
| Skill taxonomy (`taxonomy/`) | `skill_taxonomy` rows | create, patch, deactivate, list | a rename checks nothing; row locks and index waits cross | one skill per name; edits keep to their columns; every request ends | `SkillTaxonomy` |
| Job descriptions | `job_descriptions` rows | create, get | none: rows are only inserted | | in `AnalysisService` |
| Bootstrap and entrypoint (`entrypoint.sh`, `alembic/`, `tools/bootstrap.py`) | schema revision, `permissions`, first administrator | upgrade, seed, create, serve | the same scripts run by hand beside the container; it stops in the middle | a container that serves has schema, codes and a user; every container serves in the end | `Bootstrap` |
| Connection pool (`core/database.py`) | connections of each worker | checkout, return, time-out | POST /analyses holds a connection while n8n works, the callback needs another | no connection is lost; every request and callback ends | `ConnectionPool` |
| Audit log | `audit_log` rows | insert, list | none of its own: part of its caller's transaction | | in the callers |
| TypeScript SDK, Celery worker, health, configuration, logging, nginx, Docker, parsers | | | | | not modelled, see section 7 |

Interactions. `AnalysisService` reads what `ResumeLibrary` writes (a soft-deleted
resume is a 404; it keeps that as the set `live`) and reads the stored file.
n8n receives the id and the texts of a pair and posts the id back. The login
gives the token that every other endpoint asks for. Audit entries are written
in the transaction of the request they are about. Requests on the users are
served while the scripts of other containers and of the operator write the same
table: `Bootstrap` composes the two. POST /analyses and the callback of n8n draw
on one pool of connections: `ConnectionPool` has them from that side.

The hazards in this code, each at its line and with the properties that are
about it, are listed under `hazards` in `PROJECT.json`.

## 2. Modules

* `AnalysisRepository`: the row of `analyses` and the repository's methods as
  pure operators. `UpdateStatus` is the assignment of attributes on the loaded
  object, `Flush` what SQLAlchemy then writes: an UPDATE of the columns that
  differ from the loaded ones and of no other. The score and the JSON columns
  are one column whose value is the pair whose texts were scored, so a
  result on the wrong row can be seen.
* `AnalysisService`: the handlers. A `Requests` slot is one POST /analyses with
  its program counter, the pair it wants, and the row it inserted, which nobody
  else sees until `Commit`. The actions are the awaited calls of
  `create_analysis` in their order. The id sequence advances at `Create` and is
  not given back by a rollback. A `Callbacks` slot is one callback handler:
  `CallbackLoads` is `get_by_id`, `CallbackCommits` the update and the commit
  (the UPDATE locks the row, so nothing comes between them). n8n is external:
  `jobs` holds what it was started with and what it will report. After any answer
  but a 200 the report is lost or, where the workflow is set to retry (`MayRetry`), may be
  posted again; `LostReports` lets a workflow end without a report at all.
* `AnalysisBoard`: the abstract specification, what the API promises to a
  client: an entry appears once, is settled, keeps its pair and its result, and
  an id is told only when the board shows it. `AnalysisService` implements it
  under the mapping `BoardView` (committed rows, without timestamps and error
  texts) and `told <- acked`.
* `AtomicTable`: the abstract specification of a table with a unique column and of the
  POST, PATCH and DELETE requests on it. A session asks for one operation, which takes
  effect in one step or leaves no trace: a row appears under a key that no other
  row has, or a row changes in columns that this one request asked to change.
  `SkillTaxonomy` and `Bootstrap` (with `UserAdmin`) implement it. `PendingView`, made of
  `AskedFor`, keeps of a handler what its client asked for and hides what it loaded, what
  it holds and what it waits for. Grants that `UserPermissions` gives are edits from `Outside`.
* `ResumeLibrary`: uploads and deletes. A path is a content, which stands for the
  sha256, and an extension; a row is named by its content because `file_hash`
  is unique. `local` is the choice of `storage/factory.py`, made once: `LocalStorageService`, whose
  write creates a partial file first, or `S3StorageService`, whose objects appear
  whole. The INSERT waits for other transactions that insert the same hash, as
  a unique index does.
* `OtpLogin`: login and verification. Redis holds one code per account; a code is
  the number of the login that saved it. The mail service may take a mail and
  look failed.
* `UserPermissions`: edits of one user's permissions, down to what a READ
  COMMITTED DELETE does: it takes a snapshot (`Scan`) and then goes from row to
  row, waits for a transaction that has deleted the row, and deletes it if it is
  still there (`Delete`). The INSERTs go from key to key, wait for a transaction
  that has deleted or inserted the key, and fail if it is taken afterwards
  (`Insert`). Neither has an order that the code fixes, so edits can wait for each
  other in a cycle; `Deadlocked` finds it and `DeadlockDetected` ends one of them,
  as PostgreSQL does. A grant carries the number of the edit that inserted
  it, since a row that was deleted and inserted again is not in the snapshot.
* `UserAdmin`: the users table. A slot is one database session with its program
  counter. `Check` is the access check, which leaves the actor's row in the
  session; `FindTarget` is `get_by_id`, which returns that very row when actors
  edit themselves, since a SELECT does not refresh a loaded object; `Flush` writes the
  columns of the body that differ from the loaded ones (`Dirty`), and waits
  for a transaction that holds the row; `Insert` waits for one that inserts the address.
  `Regrant` is what an edit of `UserPermissions` looks like from here.
* `Bootstrap` extends `UserAdmin` with the processes that bring an installation
  up: the entrypoint of a container (alembic, seed, administrator, uvicorn, under
  `set -e` and `restart: always`), and the same scripts run by hand. The
  administrator is inserted by `UserAdmin`'s own `Insert`. Requests are received
  while some container serves. It starts from an empty database, from one of the
  revision before users, or from one with users and an older set of codes.
* `SkillTaxonomy`: creates, edits and deletes of skills, down to the order in which
  PostgreSQL locks the row (`Flush`) and enters the name into the unique index
  (`Rename`). Two renames can wait for each other; `Deadlocked` and
  `DeadlockDetected` are as in `UserPermissions`.
* `ConnectionPool`: SQLAlchemy's pool per worker, with sessions that check connections out and
  in, overflow, the pool's time-out, and the webhook call that keeps a connection. Of the data it keeps
  what decides how a callback ends: a callback whose request has not committed is a 404
  (`NotFound`), as long as n8n's webhook keeps that request from its commit. n8n
  may post again after such an answer or leave it (`Answer`).
* `AnalysisServiceProofs`, `AnalysisSerialProofs`, `ResumeLibraryProofs`, `OtpLoginProofs`,
  `UserPermissionsProofs`, `BootstrapProofs`, `SkillTaxonomyProofs`,
  `ConnectionPoolProofs`: theorems and proofs. `MC_Analysis`, `MC_Resumes`,
  `MC_Otp`, `MC_Permissions`, `MC_Bootstrap`, `MC_Taxonomy`, `MC_Pool`: instances for TLC.

Each module also holds variants of some of its operators ("Variant that ..."):
what the code would do with one plausible bug. They are part of no
specification; they are put in the place of the operator they vary to see that the
properties notice. `PROJECT.json` lists the pairs under `mutants`, and the lines of
the code that each definition stands for under `map`.

### Simplifications that hold for all modules

Requests that are refused before they change anything and reads that change
nothing are left out, except the refusals whose order matters (404s of POST
/analyses). Audit entries are modelled where a property is about them
(`ResumeLibrary`); elsewhere they are part of the commit. A crash ends one
handler; a worker that dies with several of them is several crashes. Tokens are
left out. Only `UserAdmin` has the access check; elsewhere every caller is
authorised. Each inductive invariant `IInv` begins with the type invariant of its
module, so a run that checks `IInv` checks the types too.

## 3. Runs

| Run | Instance | Shows |
|---|---|---|
| `analysis_safety` | 1 pair, 2 requests, 2 callback slots, 2 ids, jobs with two possible outcomes, late answers, retries, no crash | two handlers that loaded different versions of one row leave it coherent and never take it back; the inductive invariant; the refinement of the board |
| `analysis_serial` | 2 pairs, 1 request at a time, 1 callback slot, 2 ids, late answers, retries, lost reports, 1 crash, fairness | POST /analyses is idempotent for analyses that never failed, answered rows are stored, a result stays with its pair, a terminal status is final, the invariant `SerialInv` behind these; an analysis that does not end has lost its report |
| `analysis_stuck` (violation) | 1 pair, 1 request, n8n posts its report once, no failure of any kind, fairness | the report comes before the commit, is answered 404, and the analysis never ends |
| `analysis_race` (violation) | 2 requests for one pair | idempotency is lost when the two run beside each other |
| `users_bootstrap` | 1 container, 1 script run by hand, 2 request sessions, 2 addresses, 2 requests, 1 crash, three kinds of database to start from, fairness | addresses are unique, edits keep to their columns and take effect, a serving container is complete, it serves in the end, the inductive invariant |
| `taxonomy_concurrent` | 3 names, 2 skills to start with and room for a third, 2 slots, 3 requests, 1 crash, deadlocks, fairness | names are unique, edits keep to their columns and take effect, the refinement of the atomic table, all requests end, the inductive invariant |
| `pool_exhausted` | 1 worker, 3 POST /analyses with their callbacks, 1 pooled connection and 1 more, 1 failure, fairness | no connection is lost, every request and every callback is answered, the inductive invariant |
| `resumes_storage` | 1 content, 2 extensions, 2 uploads, 2 deletes, 1 crash or full disk, either storage with its errors, fairness | every row has its whole object, rows and audit trail agree, rows are permanent, every upload is answered, a truncated file of a stored row has an upload writing it and is complete again, the inductive invariant |
| `resumes_reupload` (violation) | an upload and a delete | a file cannot be uploaded again after its resume was deleted |
| `otp_concurrent` | 2 accounts, 2 logins, 2 verifications, 2 codes, 1 crash | spent codes are gone, a login whose mail failed has taken its own code back, the inductive invariant |
| `otp_double_submit` (violation) | 1 account, 1 login, 2 verifications | one code gives two tokens |
| `permissions_concurrent` | 1 user, 2 permissions, 3 edit slots, 3 edits, 1 crash, deadlocks, fairness | no duplicate grants, an edit removes what it saw, the inductive invariant, no edit waits for ever |

### Bounds

Counters are bounded by `MaxId` (the id sequence), `MaxCodes`, `MaxEdits` and `MaxCrashes`.
`MaxId` is modelled as an exhausted sequence (`CreateExhausted`), so the service
never stops because of it; at `MaxCodes` a login can only fail to save; at
`MaxEdits` clients stop sending edits, and the runs of `UserPermissions`
therefore do not check for deadlock: `EveryEditEnds` says that no edit is left
waiting. In `SkillTaxonomy` (`MaxRequests`) and `ConnectionPool` (each POST is sent once)
clients stop too, and the same holds with `EveryRequestEnds`. `users_bootstrap`
does check for deadlock: a script can always be run by hand once more.

Why the instances are large enough. A wrong result needs a second pair whose job
could report to a first pair's id: two pairs, two ids, and a crash that gives the
first one up (`analysis_serial`). A stale write needs two callback
handlers on one row, and payloads that set different columns
(`analysis_safety`). A failure of
idempotency needs two requests, or one request and an earlier one that crashed.
All of these at once - two pairs, two concurrent requests, two callbacks and a
crash - are beyond a run of a few minutes; the safety properties among them are
proved for any number of each (section 5).
The unique constraint needs two uploads of one content; the path clash
needs one content under two extensions; a wait that goes on for ever needs two inserts. A cycle of
waits among edits needs two permissions and at least two edits; three allow a wait
behind a wait. Codes of different accounts meet only if there are two accounts;
two codes are enough for an old and a new one. A lost update of a user needs two sessions
and one row, a race for an address two sessions, of which one may be the
bootstrap. A deadlock of renames needs two skills that swap names; the third name
gives them somewhere else to go. The circle of pool, callbacks and webhooks needs as many
requests as connections; a third one waits behind it. What does not depend on these
sizes is proved (section 5).

Resumes, requests, callbacks, uploads, deletes, logins and verifications are
symmetric; symmetry is used in runs that check no liveness property.

### Fairness

Liveness is checked under `FairSpec` only. A handler that is under way is weakly
fair: the event loop resumes it when its query returns, httpx gives up
after 30 seconds, and PostgreSQL resumes a transaction when what it waits for has
ended, or ends it when it waits in a cycle. A workflow of n8n does not stand still for ever: it goes
on to its report, posts it, or loses it (weak fairness per job). That a report arrives
is not assumed, nor that it is posted again: the workflow that the repository's
README documents is one HTTP Request node without a retry. `EveryReportedAnalysisEnds` therefore
says that an analysis ends or its report is lost, which is what this code can answer for: a
webhook that failed ends the analysis at once. The clients' documentation promises more,
and `analysis_stuck` refutes it. In `Bootstrap` Docker starts a container that has ended again
(`restart: always`, in the development file `unless-stopped`), and scripts and requests that are under way go on; nobody has to
run a script by hand. In `ConnectionPool` handlers go on or their time-outs end
them; that n8n posts a callback, or answers a webhook, is possible and never assumed. Nobody has to send requests,
and nothing has to crash.

## 4. Disagreements between the code and its documentation

* POST /analyses is documented as idempotent per pair; two concurrent requests
  create two analyses, and the pair is then answered 500 for good, since the
  idempotency query expects at most one row (`analysis_race`).
* Clients are told to poll until an analysis is done or failed. n8n is called before the row is
  committed, so its report can come too early and be answered 404; the row is then committed as
  processing, and nothing but a report ever ends it (`analysis_stuck`). The
  comment "fire and forget; failures handled in callback" has the same gap.
* The same file is documented to give the same resume; after a soft delete the upload is
  answered 500 (`resumes_reupload`). Two first uploads at once meet the same
  constraint.
* `verify_otp` calls a code single-use; two verifications can both pass between
  GET and DEL (`otp_double_submit`).

Seen while modelling, without a run of their own:

* Without any concurrency POST /analyses is not idempotent either when a webhook that n8n
  accepted is answered too late: the row is failed, the next POST starts a second
  analysis, both workflows report, the pair has two analyses that are done, and every
  later POST of it is a 500. `SamePairSameAnalysis` excepts rows that failed for a time, `TerminalIsFinal`
  the row of such a webhook.
* `set_permissions` says it replaces all permissions; two edits at once leave the
  union of their sets, since the DELETE of one does not see the INSERTs of the other.
* `docs/PRODUCTION_SETUP.md:197` offers `tools/bootstrap.py` to recreate the
  administrator; it does nothing once there is any user, so an administrator
  who was deactivated or demoted stays so. Nothing keeps the last administrator from
  being deactivated.
* A rename of a skill to a name that exists is a 500, where a create is a 409;
  `is_active` of a new skill is ignored; a PATCH cannot clear a category.
* An edit that asks for the value a column had when it was loaded writes nothing:
  a change that came in between stays, and a 200 shows it. `EditsTakeEffect` excepts
  that case. `updated_by_id` of a skill can thus name
  an earlier editor than the last.
* `docs/PROJECT_REPORT.md:140` says that every record of the audit log has the
  actor's device; what `users/router.py` writes names neither actor nor device. The
  same report (line 33) has a queue of analyses in Redis; there is none.
* The documented statuses are `queued`, `running`, `done`, `failed`, while clients
  see `processing` and never `queued`; a webhook that n8n accepted but answered
  too late is stored as `failed`, and the row may become `done` after a client
  has stopped polling.
* A write to the local storage that was cut off leaves a truncated file that every
  later upload of the content takes for complete, which is why
  `FileIsCompleteAgain` excepts crashes and `RowsHaveTheirFile` is claimed for
  object storage only.
* A verification deletes whatever code is stored at its second round trip, also
  one that a newer login has just saved. So does a login whose mail failed: the code it deletes
  may be the valid one that another login of the account has mailed meanwhile.
  `FailedLoginLeavesNoCode` says only that its own code is gone.
* Two deletes of one resume write two `soft_delete` entries, and the second moves
  `deleted_at`; `AuditMatchesRows` asks for an entry, not for one only, and
  `RowsArePermanent` for a row that stays deleted.
* The SDK's `login()` expects an `access_token`, while the endpoint answers `otp_sent`.

## 5. Proofs

| Module | Theorems |
|---|---|
| `AnalysisServiceProofs` | `SpecIInv`, `TypeCorrect`, `ResultsStayWithTheirPair`, `RowsAreCoherent`, `AcknowledgedIsDurable`, `NoRegress`, `Refinement` |
| `AnalysisSerialProofs` | `StatusesAreFinal`, `SpecSerialInv`, `RepeatsAreIdempotent` |
| `ResumeLibraryProofs` | `SpecIInv`, `TypeCorrect`, `AuditAgrees`, `ObjectsOutliveRows`, `RowsStay`, `TruncationIsTemporary` |
| `OtpLoginProofs` | `SpecIInv`, `TypeCorrect`, `SpentIsGone`, `UnsentIsGone` |
| `UserPermissionsProofs` | `SpecIInv`, `TypeCorrect`, `UniqueGrants`, `SnapshotIsGone` |
| `BootstrapProofs` (with `UserAdmin`) | `SpecIInv`, `UniqueEmails`, `Ready`, `OtherColumnsStay`, `AskedColumnsChange`, `Refinement` |
| `SkillTaxonomyProofs` | `SpecIInv`, `UniqueNames`, `OtherColumnsStay`, `AskedColumnsChange`, `Refinement` |
| `ConnectionPoolProofs` | `SpecIInv`, `Balanced` |

They hold for any sets of resumes, requests, callbacks, uploads, accounts and so
on, finite or not, and any bounds. The assumptions are those the modules name:
bounds are naturals, flags are Booleans, and `None` is no row, code, path, account or error text.
Besides, the tables that `Bootstrap` and `SkillTaxonomy` start from have unique
addresses and names, scripts and containers have sessions of their own, and the
requests of `ConnectionPool` are finitely many, since connections are counted.

The analysis service. That a result belongs to its pair is not inductive: the
callback carries only an id. The strengthening says that every id in use was
drawn from the sequence (`RowInv`), that the ids of open transactions are taken
but in no committed row (`OwnerInv`) and are all different (`OwnersAreDistinct`), and
that a job was started for the pair of the row with its id, in the table or
still in its transaction. Coherence and the absence of regress need to know
how old a callback's loaded row may be (`CallbackInv`): it may lack progress
that others made, never have progress that the table lacks. `FlushMerges` is the
lemma on dirty columns that makes a stale write harmless. The refinement maps `Commit` to
`Record`, `CallbackCommits` to `Settle` or a stutter, `Reply` to `Tell` or a stutter, and the rest to
stutters.

The serial case. Two promises hold only under conditions, and the theorems name them.
`OneStatusPerJob`: n8n has one outcome of a job to report (its repeats say the same).
`OneRequestAtATime`: there is one slot for POST /analyses; `analysis_race` shows that this one is needed.
Late webhook answers, lost and repeated reports and crashes are all allowed.
With the first condition a terminal status is final (`StatusesAreFinal`), for any number of requests and
callbacks at once: `StatusInv` says that a finished row has the one status of its job, or says
that n8n was unreachable (`GivenUp`). Only such a row, and only if n8n had accepted its
webhook all the same, may still take over a status. With the second as well POST /analyses is
idempotent for rows that never failed (`RepeatsAreIdempotent`). A late report makes a
failed row done, but its error text stays, so a row that failed for a time is told from one
that never did (`NeverFailed`). Of the latter a pair has one at most, in the
table or in the open transaction (`OneActivePerPair`). That is inductive only because a row
that failed never becomes such a row again, which rests on `StatusInv`.

The resume library. Whether a row has its object rests on the position of
the uploads that are under way: past `save` the object is whole (`ObjectInv`), and no
object is ever partial. That rows and audit trail agree rests on the unique
hash: an open insert is the only one of its content, and there is no row yet
(`InsertInv`). On local files the first part is false, so the invariant claims it for
object storage only. What holds on either storage is that a file, once opened, never goes
away, and that an incomplete one has an upload at its write or was cut off (`FileInv`);
`TruncationIsTemporary` follows for the files that rows name.

The login. That a spent code is gone needs to know that nothing can bring it back:
codes in use were issued (`IssuedInv`), a code is stored only for the account
it belongs to (`AccountInv`), and a verification about to give a token has
deleted its code (`VerifyInv`).

The permission edits. That grants stay unique when an edit commits needs to know
that the keys it inserted are no other edit's and that the rows with these keys are
among those it deletes (`KeyLockInv`). That the snapshot is gone needs to know that a row the
DELETE is done with is deleted by it or gone already, that two edits never
delete one row (`RowLockInv`), and that a row inserted later is another row
than any that was seen, since it has another number (`NumberInv`).

The users and the bootstrap. The invariant has two halves that the scripts connect. About the users
(`UsersInv`): what a session refers to exists (`SessionInv`), and an INSERT
that is not committed is the only one of its address and its id, and no row has
either (`InsertInv`); that is what makes the addresses unique when it commits. About
each script (`ScriptInv`): every position past the upgrade means that the
schema is at head, every position past the seeding that all codes are committed, and its
database session is inserting exactly when the script creates the administrator. `Ready` is
then the last position. A step of one half leaves the other alone
(`RequestMoves`, `ScriptMoves`). That edits keep to their columns rests on
`written = Dirty(body, loaded)`, kept from the flush to the commit.

The taxonomy. A rename holds its row before it enters its name, so the name that
must stay unique may be entered, given up or only asked for. `LockInv` says that a row is held once,
`NameInv` that a name which was entered belongs to no stored row but its own
and to no other transaction, and `HandlerInv` ties what is written to what was loaded.

The atomic table. Both refinements go by position: what a handler asks for does not
change from its first step to its last (`GettingOnIsHidden`), a rollback for whatever reason is a
`Drop`, and only a commit applies anything. That a commit adds no second row of a key is
`NameInv` and `InsertInv`, of the state before the commit. That an edit changes only what
it asked for is `UpdatedIsOverlay`: the UPDATE, applied to whatever row it finds, is
that row overlaid with the dirty columns, which are among those of the body (`DirtyIsAsked`).
In `Bootstrap` the administrator of `create_admin` is one more session that asks for a row.

The pool. That the counts balance is inductive once a session has one connection at
most: a callback is posted again only when the one before is over, and a
request starts its execution once (`JobInv`). `CheckoutStep` and `CheckinStep`
count the holders with the library's theorems on finite sets.

Only model-checked: the liveness properties (`EveryReportedAnalysisEnds`, `EveryUploadEnds`,
`EveryEditEnds`, `EveryContainerServes`, `EveryRequestEnds`, `FileIsCompleteAgain`), which the prover cannot treat. The safety
half of `FileIsCompleteAgain` is `TruncationIsTemporary`. Only proved: that `Bootstrap` implements the atomic
table. TLC agrees on the instance of `users_bootstrap`, but together with the liveness property
that run would take too long to be kept.

## 6. Plan

What could still be added, in this order:

1. Abstract specifications for the other components: a library of resumes that hides
   storage, lookups and locks; a code store per account; a counting semaphore for a
   worker's connections; a set of grants for `UserPermissions`.
2. Token expiry: a token outlives the deactivation of its user, and only the
   check of `UserAdmin` refuses it.
3. The audit trail of the endpoints other than uploads and deletes.

A composition of `AnalysisService` and `ResumeLibrary` would add little: a delete
leaves the file alone (nothing calls `storage.delete`), so an analysis under way
reads the same file before and after it. `live` in `AnalysisService` has what
remains.

## 7. Not modelled

The Celery worker has one ping task that nothing enqueues. Health, configuration and
logging keep no state. The SDK is a stateless wrapper of fetch: it neither polls nor
retries. The migrations are modelled by the relations they create; their columns
and constraints are in the models of the tables, and nothing runs a downgrade. nginx and
Docker files are declarative, except the restart policy (`Bootstrap`). The
parsers are calls into libraries: the models only say that extraction may fail.
`storage.delete` is called by nothing. JWT and password
hashing are cryptography; the models start after they have accepted the caller.
`require_role` guards no endpoint. The text and order of lists, and their paging, carry no state.
