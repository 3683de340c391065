# TLA+ models of express-core

express-core is an Express and TypeScript API with PostgreSQL (through Prisma) and Redis. This
directory holds TLA+ models of the parts where several requests, processes or retries meet, the
TLC runs that check them, and TLAPS proofs of what matters most. Paths below are relative to the
repository.

## Inventory

The API runs as several processes (PM2 cluster) and the worker as at least one. They share
PostgreSQL and Redis and nothing else: every interaction is a committed row, a row lock, a Redis
key or a BullMQ job.

| Component | State | Operations | What is hard | What makes it correct |
|---|---|---|---|---|
| Refresh sessions (`modules/auth`) | `refresh_tokens`: user, family, expiry, rotation time, sealed successor | login, refresh (rotation, grace window, successor walk, reuse detection), logout, revocation by password reset, password change and account deletion, expiry cleanup | parallel refreshes of one cookie, revocation against a rotation that is committing, deadlocks, times taken at the start of a request | one live token per login; a revocation leaves nothing behind; only the targeted login ends; lost races are not reuse |
| Outbox and relay (`modules/outbox`, `jobs/relay`) | `outbox` rows with status, attempts, lease | enqueue in the caller's transaction, lease, publish with timeout, retry, give up, prune | expired leases with the first relay still at work, additions that arrive after their timeout, crashes | each intent is published or dead-lettered, once, and eventually |
| Dead letters (`modules/dead-letter`) | `dead_letter_jobs` | record, prune, re-drive | two operators at once, retention in between, writes nobody awaits | one re-drive per row; no final failure is dropped silently |
| Email jobs (`jobs/workers`, `email`) | BullMQ jobs, `email:sent:<jobId>` markers | fetch, check marker, send, mark, retry, dead-letter | stalled jobs run twice, ambiguous timeouts, re-publishing | one mail per job id as far as the process can know |
| Process shutdown (`utils/graceful-shutdown`, `jobs/run-workers`) | shutdown step, exit code, pending dead-letter writes | signals, ordered steps, forced exit | work in flight at each step, failing steps | exit code 0 means nothing was cut off |
| Role cache and gates (`services/rbac-cache`, `middleware`) | access entries stamped with versions, tracking sets, profiles | resolve role, cache, invalidate, expire | read before a change, cached after it; steps that fail | a change applies to every request that starts after its invalidation |
| Users, roles, own profile (`modules/user`, `role`, `profile`, `utils/sluggable`) | users, roles, avatars on disk, cached profiles, activity log | register, create, update, delete, seed, with slugs, files, audit entry and invalidation | checks before the write without a unique index, partial edits of a row that changed since, files deleted before the commit, a swallowed audit failure, several Redis commands after the commit | clashes only where requests overlap; edits change what they sent; the log agrees with the row; caches do not outlive the data |
| Lists (`utils/paginator`) | none; a client holds a page number | page, total, next and previous links | two statements per response, rows that come, go and tie between pages | a walk lists what stands still, once |
| Email templates (`modules/email-template`) | `email_templates` | seed, edit with sanitizing and validation, render when a mail is sent | validated against a row that another edit changes; edited between intent and send | every mail has its link or code and no raw placeholder |
| Registration codes (`modules/otp`) | `email_otps`: code, attempts, verified, consumed | send, verify, register, cleanup | parallel guesses, a resend between two steps of a guess | guesses are bounded; one account |
| Verification and reset links (`modules/auth`) | `email_verification_tokens`, `password_reset_tokens` | register, verify, request, reset, cleanup | link read, then used later | one verification; deleted or used links do nothing |
| Scheduled maintenance (`jobs/cron`, `services/system.service`) | slot ids in the system queue, expired rows | enqueue per slot, batched cleanups with retries | several schedulers, restarts, delayed adds, local against UTC time, concurrent and limited batches | once per slot; no tick is lost to another; a completed cleanup left nothing it should have deleted |
| HTTP middleware, health, configuration | none shared | | | |

## Modules

Each module states at its top what it abstracts. Common conventions:

* an action is one SQL statement, one Redis command or one callback, together with the branch the
  code takes on its result; between two of them anything else may happen;
* a transaction's writes are invisible until its commit, so they appear there; the row locks it
  holds are in the handler's record, and a statement that needs a locked row is not enabled (READ
  COMMITTED: the statement then sees the row as committed by then);
* tokens, codes, mails and payloads are atoms; logging, wording and layout are left out;
* definitions marked "Mutant" are not part of any specification. They are plausible mistakes that
  the properties were tried against.

| Module | Models | Notes |
|---|---|---|
| `RefreshSessions` | `refresh-rotation.ts`, `refresh-successor.ts`, `auth.repository.ts`, `auth.service.ts` | `rows` and `tbl` are the table, `req[p]` a handler between two statements (`pc`), `clock` the time, `revoked` a history of revocations that reported success |
| `LoginSessions` | abstract: a login has a newest token, replaced only by fresh ones, and never comes back | implemented by `RefreshSessions` |
| `OutboxRelay` | `outbox.repository.ts`, `outbox-relay.ts`, `timeout.ts` | a lease may expire at any moment (`BecomeDue`), a timed-out addition may still arrive (`LateAdd`) |
| `OutboxIntent` | abstract: an intent is pending, then published or given up, for good | implemented by `OutboxRelay`, used by `MailDelivery` |
| `AccessCache` | `rbac-cache.service.ts`, `resolve-role.ts`, the gates, role, user and profile services | revisions stand for the contents of a row; any handler may fail between two steps; `raced` records that another request was about to cache an older profile when an update dropped the cached one |
| `RegistrationOtp` | `otp.*`, registration in code mode | one address; time is three events (cooldown over, code expired, window over) |
| `CredentialLinks` | link-mode registration, verification and reset links | one account; expiry of a link is an event |
| `JobWorkers` | `email.processor.ts`, `mailer.ts`, `worker-logging.ts`, `run-workers.ts`, `graceful-shutdown.ts` | BullMQ's part (locks, attempts, stalled jobs) is modelled from how it is used |
| `Accounts` | `user`, `role` and `profile` services, registration in link mode, `sluggable.ts`, `role.seeder.ts`, `admin-user.seeder.ts`, avatars, `logActivity` | one pipeline of steps for users and roles, whose optional fields are those of the services (a request body must name a role, `user.validation.ts`); a name is a sequence of words; `raced` records which committed changes overlapped |
| `Paginator` | `paginator.ts` as operators | `PagesPartition` is the reference they are checked and proved against |
| `Listings` | a client that walks through a list of users or roles while `Accounts` changes them | EXTENDS `Accounts` and `Paginator` |
| `Schedules` | `cron/index.ts`, `system.processor.ts`, the cleanups of `system.service.ts` and the repositories | time in hours; a table holds batches of rows by the hour they expire in; logouts, revocations and deletions of expired tokens take rows of `refresh_tokens` from a batch (`EndSessions`) |
| `EmailTemplates` | `email-template.*`, its seeder, the variables of `email.service.ts` | a text is the set of its placeholders; one kind of mail per behaviour |
| `MailDelivery` | outbox, email jobs, templates, dead letters and re-drive together | EXTENDS `OutboxIntent` (the relays by their promise) and `EmailTemplates` |
| `MC*` | instances for TLC with their symmetry sets | |
| `RefreshSessionsProofs`, `OutboxRelayProofs`, `AccessCacheProofs`, `MailDeliveryProofs`, `RegistrationProofs`, `SchedulesProofs`, `JobWorkersProofs`, `AccountsProofs` | theorems | `RegistrationProofs` extends `RegistrationOtp` and `CredentialLinks`, which share no name; `AccountsProofs` extends `Listings` |

How they fit together: `AccountOps` of `RefreshSessions` are the last statements of
`CredentialLinks!MarkUsed` and of the user and profile services of `AccessCache`; `Accounts` has
the rows these services write, `AccessCache` what they do to Redis afterwards, `RefreshSessions`
what they do to sessions. What producers enqueue becomes a row of `OutboxRelay`; what `OutboxRelay`
publishes is `JobWorkers!Add`. `MailDelivery` puts both together: it takes the outbox as
`OutboxIntent` promises it, which `OutboxRelay` is proved to implement, and a job as `JobWorkers`
leaves it: sent, failed, sent and failed, and, since other jobs push an ended one out of Redis and
a later addition then creates it again, also failed and then sent. So a behaviour can go from a
business change through giving up, dead letter and re-drive to the mails.

## Runs

`tlc -config <run>.cfg <module>`. All runs say `CHECK_DEADLOCK FALSE`: the system may go quiet
(no client sends anything) and bounded instances use up their tokens, codes or revisions.

| Run | Instance | Shows |
|---|---|---|
| `sessions_account` | 3 tokens, 2 refreshes, an account operation, a login, an admin edit, time 0..2, grace 1, no expiry | `OneLivePerFamily`, `LostClaimIsNotReuse`, `RevocationFinal`, `OnlyTargetedLoginsEnd` |
| `sessions_live` | 2 tokens, a refresh, a logout, a login, time 0..4 with expiry at 3 and grace 1 | `SuccessorKept`, `ImplementsLoginSessions`, and under fairness `RequestsEnd`, with lock waits and deadlocks between a reuse revocation and a logout |
| `sessions_two_logouts` | two logouts and a rotation | **violation** of `RevocationFinal` |
| `outbox_lease` | one row, 2 relays, 3 attempts, 2 faults | `OneDeadLetter`, `NotGivenUpEarly`, `ImplementsIntent`, and under fairness `IntentsResolved` |
| `access_cache` | a user and a role, a gate, an administrator, 2 requests for the user's profile, each may fail | `EnforcedAtOnce`, `UpdateReturnsNew` |
| `access_tracking` | a gate and an administrator, without failures and with tracking sets that outlive what they track | **violation** of `CachedUsersTracked` |
| `registration_otp` | a sender, 2 guessers, 2 registrations, 2 codes | `GuessesBounded`, `OneAccount` |
| `credential_links` | 2 links, 2 requests of each kind | `VerifiedWithOneNotice`, `UsedLinkIsClosed`, `OlderLinksEnd`, `DeletedLinkSetsNothing` |
| `job_workers` | 2 processes, a job added up to twice, 2 attempts, one tolerated stall, 2 faults | `SentOnce`, `DeadLetterLedger`, `CleanExitIsQuiet`, and under fairness `JobsEnd` |
| `accounts` | any 2 requests, seed runs or walks on 2 seeded roles and a user, 2 names whose slugs nearly clash and one that leaves nothing for a slug, 2 emails, 2 permissions, failures at every step | `KeysUnique`, `NoStrandedUsers`, `AvatarServed`, `LogDescribesRow`, `EditsKept`, `WalkListsAll` |
| `schedules` | 2 schedulers, 2 workers, hours 0..3 with days of 2 hours, 2 ticks, 1 fault or ended session, 2 attempts, 2 batches | `OncePerSlot`, `TicksDistinct`, `CompletedIsClean` |
| `delivery` | 3 outbox rows, one business change, 2 operators, 2 editors, all 4 kinds of mail, 3 events, a failed job created again once | `MailedOnce`, `StoredSendable`, `MailsComplete`, `RedrivenOnce` |

`RefreshSessions`, `OutboxRelay`, `AccessCache` and `MailDelivery` also have a type invariant,
`TypeOK`, in their run; the types of `RegistrationOtp` are part of the invariant of its proofs. The
module of `outbox_lease` is `OutboxRelay` itself.

Why the bounds are enough. The hazards are races between two or three parties over one row, one
family, one code or one job; the instances have that many parties and as many fresh tokens or rows
as their interleavings can use up. Where more parties could matter, the theorems below hold for
any number. `outbox_lease` has one row because rows share nothing but the pass that holds them,
and the theorems cover the rest. The clock of `sessions_account` reaches 2 so that a token can be
reused after a grace window of 1, the one of `sessions_live` reaches 4 so that rows also expire
and are cleaned up. `sessions_account` has no expiry because `RevocationFinal` fails with it (see
the first finding). Retry limits are small but above 1, so that a retry, the last attempt and the
attempt after a fault all occur. `accounts` starts from a seeded database, so that two requests
have rows to collide on: each property is about two requests that overlap or about one that finds
what an earlier one left; all pairs of operations occur, with every combination of fields sent.
`MaxRequests` counts walks too, so a walk meets one change. In `schedules` two ticks are enough for
two schedulers in one slot, one scheduler restarted in a slot, or two slots; hour 3 is beyond the
retention of an hourly job, so that its id can be forgotten. `late` allows an addition that arrives
more than a slot length after its tick; the hours of the run do not reach a job that is added again
near the end of a slot whose start was its first tick (local time set forward), the theorem does.
In `delivery` three rows allow a
letter of a re-driven row to be re-driven again; edits, re-drives, sends whose success was not
noticed, and markers, letters and jobs that disappear share `MaxEvents = 3`: enough for a failed job
to be forgotten, created again and mailed, and its letter re-driven and mailed, with one more event
beside it. A row's failed job leaves Redis at most `MaxAgain = 1` times.
In `access_cache` two owner requests are what it takes for one to cache an older profile next to the
other's update; one user and one role are enough, since nothing relates two users, and a user who
moves to another role differs from one whose role changes only in what is tracked.
In `schedules` a fault is a failed command, a restart or rows of refresh tokens deleted by others:
one of them, in a batch that was just selected, already cuts a cleanup short.

Several properties say under which overlap something may go wrong and that it may not otherwise:
`raced`, `unasked`, `strays`, `lost` (`Accounts`), `raced` (`AccessCache`), `late`, `collapsed`,
`shared`, `limit` (`Schedules`), `slips` (`MailDelivery`, `JobWorkers`) are histories that no step
depends on. They state exactly what the missing unique indexes, the unconditional deletions of
files, the cached reads without a version and the missing acknowledgements cost. `short`
(`Schedules`) and `again` (`MailDelivery`) are read as well: a batch of which others took rows is
not full, and a job that failed for good is created again at most `MaxAgain` times.
`unasked` holds the users whose address was last changed without looking it up: by a profile edit,
or by an `updateUser` that sends the address it read although the row has got another one since
(`modules/user/user.service.ts:135` compares with the row it read; three requests show it). The
dead-letter ledger of `JobWorkers` is kept per process and job.

`LostClaimIsNotReuse` needs `TxLimit <= Grace`: the request that lost compares its own start with
the winner's. Prisma ends an interactive transaction after 5 seconds, so the property rests on
`REFRESH_GRACE_SECONDS` being at least 5; the configuration accepts 1 to 4 as well.

## Fairness

* `RefreshSessions`: a handler keeps executing (weak fairness). A statement that waits for a row
  lock gets it eventually; since others may take it first, this is strong fairness, which
  PostgreSQL's queue of waiters justifies. The server aborts a transaction of every deadlock.
* `OutboxRelay`: the interval timer starts passes for ever, a pass keeps executing, a lease runs
  out because time passes. Faults are finitely many.
* `JobWorkers`: processes keep executing and are restarted by their supervisor; the stalled check
  keeps running; a waiting job is fetched if some process keeps coming back to fetching (strong
  fairness, since a process that is shut down stops fetching). Sends end: ZeptoMail requests have
  a timeout of 15 seconds, SMTP relies on Nodemailer's own timeouts. Signals may come for ever;
  crashes, lost locks and failed writes are finitely many.

## What is proved

TLAPS checks these for every value of the constants allowed by the named assumptions.

* `RefreshSessionsProofs`: `TypeCorrect`, and `OneLiveToken`: a login never has two unrotated
  tokens. `OneLivePerFamily` is not inductive: between the claim and the insert a request holds a
  token that is about to be rotated. The inductive invariant `IInv` adds that every row was issued
  and has a family (`RowsKnown`, `FamilyKnown`), that locks are held on existing rows and by one
  transaction (`HeldRows`, `HeldOnce`), and that a request about to insert holds the lock of its
  unrotated token (`ClaimLocked`). The insert then replaces the only live row of its family, and
  nobody else can have touched that row.
  `JInv` adds what each handler knows (`Sound`): which requests stand where (`KindOf`), that the
  token presented belongs to its family and user (`Presented`), how its clock reading relates to
  the times in the table (`Timed`, `Judged`), what it has locked (`Locks`) and what it is aimed at
  (`Aimed`: a DELETE after a row is also after the row it succeeded); and that exactly the rotated
  tokens have a successor, of the same login and expiring no earlier (`Heirs`, `HeirsRotated`). From it follow `SuccessorsKept`, `OnlyTargetedEnd`,
  `SessionsRefinement` (the sessions implement `LoginSessions`) and, for `TxLimit <= Grace`,
  `LostClaimsForgiven`.
  `TransactionalRevocationFinal` is `RevocationFinal` for any number of account operations, reuse
  revocations and rotations at once, when there is no logout and nothing expires
  (`Logouts = {}`, `MaxTime < TTL`). Both hypotheses are needed: the first finding is a logout, and
  with expiry TLC shows a row deleted as expired while a revocation waits for it, which hides its
  successor in the same way. `FinalInv` says that a login belongs to one user (`FamilyUser`), that a
  revocation reports only logins its WHERE clause matches (`Doomed`), and that, while a pass has
  deleted nothing, every row of a login it covers is one it holds or will visit, or belongs to a
  login of which it will still find a row (`Complete`): so a pass that matches nothing left nothing.
* `OutboxRelayProofs`: `TypeCorrect`; `DeadLetterOnce`: a row is FAILED exactly with one dead
  letter; `IntentRefinement`: the relays implement `OutboxIntent`. The invariant adds
  `PassSound`, that a pass about to mark a row published has seen its job in the queue. Finalising
  updates test `status = 'PENDING'` in the same statement, which makes every other step a stutter
  of the abstract specification. `GivenUpInTime`: a publishable row is given up only after
  `MaxAttempts` failed publishes, although a relay compares the attempts it read at its claim. The
  invariant `Budgeted` counts the attempts recorded together with the relays that are about to
  record one (`Erring`); it needs finitely many relays.
* `AccessCacheProofs`: `TypeCorrect`, and `ChangesEnforced`: no request that starts after a change
  was invalidated decides on older data. The invariant says of every handler and every cache entry
  that its stamp tells the truth: data carried with the current versions is at least as new as the
  last acknowledged change. Reading the versions before the row, and stamping the entry with the
  versions read, is what keeps it. `UpdatesReturned` is `UpdateReturnsNew` for any number of
  overlapping requests for one profile. `Safe` says of an update that has dropped the cached profile
  that the cache holds none older than its change and that no request is about to store one; a
  request that reads the row from then on reads the change, one that reads the cache does as well,
  so it stays so. `Fresh` adds what the update itself carries. When the DEL found a request that had
  read the profile before the change and had yet to store it, the property makes no promise: that is
  the one order that hides the update (see below), and an update whose handler dies answers nothing.
* `MailDeliveryProofs`: `TypeCorrect` (rows, jobs, markers, letters and stamps go together),
  `TemplatesSendable`, `CompleteMails` and `LettersRedrivenOnce`. The template part needs that what
  an editor is about to write is sound field by field (`SoundEdit`): an edit was validated merged
  with a row that may have changed since, but whether a text is sound depends on that text alone,
  so it stays sound whatever it is merged with. Rendering then finds a value for every placeholder
  because the catalog's variables are the ones `email.service.ts` passes (`AllowedProvided`). The
  re-drive part needs that no two letters are stamped with one row (`Distinct`): a stamp names a
  row that was never recorded before, and older stamps name recorded rows.
  `MailedOncePerChange` bounds the mails of a business change over all rows its re-drives made. The
  invariant `CountInv` counts the `ChancesOf` a change: a row's own job, unless it has failed for good
  since it was created (`Own`), and each letter that may still be re-driven. A failed job passes its
  chance to the letter of that failure, written or lost; a letter passes its chance to the row it is
  re-driven to, and a row given up to its letter. Only a job created again after it had failed, whose
  letter stays, and a job added to a row given up make one more (`ExtraOf`, `Budget`). A mail that
  is not a slip is told of by the marker of a job that has not failed since (`SentOrSlipped`); a
  marker that is gone, and a mailed job that fails, have slipped. Nothing is assumed finite: at any
  time finitely many rows were recorded (`Finite`).
* `RegistrationProofs`, registration codes: `GuessesLimited` and `SingleAccount`. For the guesses the invariant counts
  attempts that are reserved and not yet compared (`InFlight`) together with the comparisons made;
  both stay within what the code was granted (`Counted`), where a code that was replaced or deleted
  counts as used up. For the account it says that verifications are numbered as they happen
  (`Stamped`), that the lock belongs to the one registration about to create (`Creating`), and that
  once there is an account no pending registration holds the ticket of the row's verification
  (`Spent`): a later verification gets a number no earlier ticket has. The assumptions are
  that the three kinds of requests are disjoint and that verifications are finitely many.
* `RegistrationProofs`, links: `VerifiedOnce`, `UsedLinksClose`, `DeletedLinksSetNothing`,
  `OlderLinksEnded`. The invariant says that handlers only meet links that were issued (`Working`),
  that a live verification link belongs to an unverified account (`LinkUnspent`), that a request
  about to issue a link has deleted, or seen used or deleted, every link it found (`Swept`), and that
  the resets made through a used link together with those still under way (`Using`) are at most one
  more than the overlaps counted at its first use (`Closing`). Resets are finitely many.
* `JobWorkersProofs`: `LedgerBalances` (every final failure is a dead letter, one being written, or
  one lost with its process or a failed INSERT), `CleanExits` (exit code 0 leaves nothing in
  flight) and `MailedOncePerSlip`. `SInv` says that a process works on a job and takes a failure for
  final exactly when BullMQ does (`Working`), that the holder of a lock works on that active job
  (`LockHeld`), that a shutdown without an error has passed only steps that were over (`Quiet`), and
  that the ledger balances for each process and job (`Settled`). For the mails `Budget` counts the sends
  made, the processes that may still send although they lost the lock (`Zombies`), and one more
  while the job can still be sent by its holder (`Open`). Processes are finitely many.
* `AccountsProofs`: `EditsAreKept`, `LogAgrees`, `NobodyStranded`, `AvatarsServed`,
  `KeysStayUnique`, for any names, addresses, permissions and number of requests. The invariant
  `Base` says of a request that it carries out the plan of its operation (`Planned`) and that in its
  transaction the row it will commit is the committed row with what it sent (`Placed`); that no two
  transactions hold one row (`Alone`); and that ids not given out are empty (`Blank`). Steps are
  classified once (`Starts`, `Advances`, `Ends`, `Commits`, `GrantPermissions`), and each theorem
  adds what its property needs:
  `RolesInv` that nobody is put on a role that never existed and that a deletion, once it has
  counted, knows everybody who came to the role since (`Assigned`, `Counted`); `AvatarsInv` that a
  file belongs to one row or one request and is cut only for a change (`Owned`, `CutForChange`,
  `OldOwned`, `UploadKept`); `KeysInv` that whoever has the slug or address a request was told is
  free was committed since (`SlugAsked`, `EmailAsked`); `NamesColumns` that log entries name columns
  of the row. `SeedAssumption` says that the super-admin role's slug is not the slug of the seeded administrator's name.

  `PagesAlwaysPartition`: for every query string and number of rows each row is on exactly one page
  and a page has consecutive rows. `WalksListAll` is about the walks of `Listings`, for any tables
  and changes. Its invariant `ListInv` measures a row by its `Place`, the number of rows ahead of
  it. While rows only come, no place decreases, so every row that was there from the start and has
  a place before the page is collected (`Collected`); when nothing changes, the responses are the
  pages of one list and repeat nothing (`Undisturbed`). Without those limits both fail, as
  `WalkListsAll` says.
* `SchedulesProofs`: `SlotsRunOnce`, `TicksStayDistinct`, `CompletedRunsAreClean`, for any number of
  schedulers, workers, ticks and hours. `SchedulesInv` says that a job that ran is still known to
  the queue or its slot began more than two slot lengths ago (`RunSound`: jobs are kept that long,
  so whoever adds it again is late), that a worker has an active job with statements left
  (`WorkerSound`), and that no two have the same job (`Apart`). `Midnights`: while local time is UTC
  daily ticks are at the start of their slot, so two ticks of a slot are one. `CleanInv` says that
  the tables a run is through with hold nothing that had expired when it started (`Cleaned`) and
  that the batch a DELETE selected is still there (`Picked`), unless it reached its limit, another
  run of the job was at work, or others took rows of a batch the run had selected in that table:
  only `refresh_tokens` has other deleters, and only a batch between its selection and its DELETE
  counts, so every other logout and revocation is covered.

The other named assumptions say that `Null` is none of the values it is told apart from, that the
kinds of requests are disjoint, that limits are positive (`MaxRows` at least 2: the seeded database
has two roles), and of which type the given data is: the rows of the tables to clean up
(`DataAssumption`), the order of names and the sizes a client may ask for (`ListingsAssumption`).

Model-checked only: the liveness properties `RequestsEnd`, `IntentsResolved` and `JobsEnd`, since
liveness and `ENABLED` are out of the prover's reach. Every invariant and every other action or
refinement property of a passing run is proved; `RevocationFinal` and `LostClaimIsNotReuse` are
proved under the hypotheses named above, and `CachedUsersTracked` is false.

## Findings

1. `sessions_two_logouts`: a revocation repeats its DELETE until it matches nothing. When another
   deleter removes the rows it waits for, its DELETE matches nothing although the successor of a
   rotation in flight has just appeared. It reports success while that successor is live. Two
   logouts show it; a logout next to an account operation, or a refresh that deletes the token
   because it has just expired, have the same shape.
2. `access_tracking`: between the DEL and the SREM of a role change a user may be cached again;
   the SREM then drops it from the tracking set.

Seen while modelling, without a run of its own:

* a login compares the password and inserts its session in no common transaction, so a session
  opened with the old password survives a password change; a password set by an administrator
  revokes no session at all (`modules/auth/auth.service.ts:161`, `modules/user/user.service.ts:160`);
* a profile read before an update and cached after its DEL is what the update returns and caches
  again (`modules/profile/profile.service.ts:153`): `UpdateReturnsNew` says that no other order does;
* a batched cleanup takes a batch that is not full for the last one, so a logout or revocation that
  deletes one row of the batch the cleanup has just selected leaves the rest of the expired refresh
  tokens to the next hour (`modules/auth/auth.repository.ts:262`): `CompletedIsClean` excuses that
  table then;
* a job that failed for good and was pushed out of Redis is created again when its row, still
  pending, is published again (`jobs/relay/outbox-relay.ts:48`). It is mailed, and so is the re-drive
  of the letter its failure left; `MailedOnce` allows one mail more for each such job. The header of
  `outbox-relay.ts` (lines 13-15) argues with the sent marker, which only a mailed job has;
* two resets that read one link before either commits both succeed, two concurrent reset requests
  leave two valid links: `UsedLinkIsClosed` and `OlderLinksEnd` say that nothing else does;
* a name of nothing but marks gives a new row the empty slug, while an update to it keeps the old slug
  (`modules/user/user.service.ts:173`);
* slugs are unique among active roles only while requests do not overlap, although
  `modules/auth/auth.repository.ts:77` relies on it; an owner may take an email that is in use;
* an avatar is deleted before the change that replaces it is committed;
* when an outbox row was given up although its job was added late, re-driving its dead letter mails
  again (`MailedOnce` allows one mail more for each such row);
* between the commit of a role change and its version bump a failure leaves gates on the old role
  until their entries expire;
* an uncaught error during a shutdown does not change its exit code.

## Not modelled

Request parsing, headers, rate limits, health checks and configuration are library configuration or
plain I/O, without state that two requests share. Of the paginator the building of URLs and of
relational search conditions is left out, of the seeders the choice of seeders on the command line,
of uploads the type and size checks. The API process's shutdown has the same loop as the worker's
with three steps. The browser's cookie jar (responses arriving out of order) and the expiry of the
sent marker after a day are left out. The activity log is modelled where it is written; reading it
is a list like the others. The test runner and release scripts are development tooling.

## Plan

1. Done: sessions, outbox, access cache, registration codes, links, email jobs; accounts with slugs,
   seeders and lists; schedules; templates and delivery.
2. Done: proofs of every safety property that a passing run checks.
3. Next: `RevocationFinal` with a logout that has no other revoker of the same login beside it.
