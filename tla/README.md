# Verification of the conservation approval platform

TLA+ models, TLC runs and TLAPS proofs for the platform in `src/`: a Go backend
(gin, gorm, MySQL, Redis) that keeps four kinds of business records - artifacts,
treatment plans, material tests and stage approvals - with optimistic versions,
status graphs, roles and an audit log, and a Vue client that works on them.
Paths below are relative to `src/backend/internal/` unless they begin with `src/`.

## 1. Inventory

| Component | State | Operations | What makes it correct |
|---|---|---|---|
| Stage approvals (`service/`, `handler/`, `repository/stage_approval.go`) | rows with status, version, fields, deletion mark; append-only opinions | create, update, transition, delete, get, list | moves along the graph; decided by reviewers only; fields fixed after draft; one opinion per transition; opinions agree with the row |
| Artifacts, treatment plans, material tests (`service/artifact.go` and its two twins) | rows as above, no opinions | the same | moves along the graph; one winner per version |
| Audit trail (`service/security.go`, `repository/security.go`) | append-only entries | append; list, summary, history | every entry is about a stored write; every status change has one |
| Status graphs, roles (`constants/status.go`, `middleware/auth.go`) | none | `CanTransition`, `RequireMinimumRole` | |
| Start-up (`database/database.go`, `src/backend/cmd/server/main.go`) | the seed rows | connect with retries, migrate, seed table by table, ping Redis, serve, shut down | resumes an interrupted seed; comes back after every stop |
| Rate limiter (`middleware/ratelimit.go`) | counters per client, route and minute, in Redis or in the process | count, fall back, clean up | at most the limit per window and backend; refusals are earned; the map does not leak |
| Authentication (`middleware/auth.go`, `service/security.go`) | none on the server but the secret | log in, check a token, guard a route | nobody is served long after losing the role |
| Lists (`repository/base.go`, `handler/system.go`) | none | clamp, count, select a page | every row is on one page; reading on misses nothing |
| Browser client (`src/frontend/src`) | stored session, one list per entity | log in and out, load, create, transition | one login at a time; the server does what was confirmed, once; nothing waits for ever |
| Configuration (`config/config.go`) | none | read the environment, validate | what is read is what is announced and used |
| Routing, request context, scripts | none | | |

**Interaction.** A request passes the request context, the limiter, the token check
and the role guard of its route; its handler binds the input and calls one service
method; that makes two to four separate database calls - `Get`, the guarded
`UPDATE` or `DELETE`, the audit `INSERT`, a closing `Get`. Nothing locks a record
between two of these calls. Requests share only the tables.

**What is hard.** (1) The steps of different requests interleave between any two
database calls. (2) The whole row that was read is written back. (3) The write
is guarded by the version the *client* names, not by the version of the row that was
read. (4) The audit entry is written after the commit, outside the transaction, and
on create and update its failure is discarded. (5) A database call can fail before or after it
took effect; the process can stop anywhere. (6) Deleting is soft: the row stays, and
keeps its code in the unique index. (7) Nothing is read in a snapshot: summaries, pages and
timelines are several queries. (8) The limiter and the client live with answers that are late or lost,
and with a clock that turns while they work. (9) The browser shares one stored session among tabs and shows
lists that are stale by the time they are clicked. `PROJECT.json` lists each hazard at its line.

## 2. Modules

| Module | Stands for |
|---|---|
| `Workflow` | the four status graphs, `CanTransition`, role ranks |
| `Service` | what the four services share: operations, answers, the guarded UPDATE/DELETE, route guards, which operations report a failed audit |
| `Lifecycle` | **abstract specification**: what the platform promises of a record - `Register`, `Edit`, `Move`, `Remove`, each one atomic step |
| `StageApproval` | the approval service, one action per database call of each handler |
| `ApprovalReads` | `StageApproval` composed with readers (`Get` and `List`: rows first, opinions second) |
| `Registry` | artifacts, plans and tests: one program, three status graphs |
| `Boot` | the life of the server process: connecting, seeding, Redis, serving, restarts |
| `RateLimiter` | the request limiter: servers that share Redis, each with a map to fall back on |
| `RetryAfter` | a client that obeys the refusals of the limiter, with delays of any length, at the resolution of ticks |
| `AuditTrail` | `SummarizeAudits` and `EntityHistory` beside writers of entries |
| `Paging` | clamping and offset arithmetic on integers of a given width; its one variable is what is asked for |
| `Listing` | a client reading a list page by page while others write; uses `Paging` |
| `Access` | login, token, role guards, beside account changes and restarts with another environment; uses `Workflow` and `Configuration` |
| `Session` | the session of the browser client, several tabs |
| `Desk` | the entity page and its store beside the server; uses `Service` and `Workflow` |
| `Configuration` | operators: what `Load` makes of an environment, and whether `Validate` accepts it |
| `StageApprovalProofs` | of `StageApproval`: types, freshness of reads, the refinement of `Lifecycle` |
| `ApprovalHistoryProofs` | of `StageApproval`: who decides, what the audit log tells; versions, opinions and answers, most of it for all clients |
| `ApprovalReadsProofs`, `RegistryProofs`, `BootProofs`, `RateLimiterProofs` | of the module each is named after |
| `FrontProofs` | of `Access` (with `Configuration`), `RetryAfter` and `Session` |
| `ViewsProofs` | of `Paging`, `Listing`, `AuditTrail` and `Desk` |
| `MCStageApproval`, `MCApprovalReads`, `MCRegistry`, `MCBoot` | instances for TLC: symmetry sets, in `MCBoot` the tables |
| `MCFront` | one run for what stands before the handlers: the limiter with two servers and with one, an obedient client, the entry |
| `MCViews` | one run for what users are shown and act on: summaries, histories, two lists, page arithmetic, the workbench |

`MCFront` and `MCViews` extend the components they check, whose variables and constants have names of their own. Their parts share no state and no
step: each behaviour belongs to one part, chosen at the start, whose next-state action is the component's with a bound or two beside it, while the
variables of the others rest in an initial state of theirs. What the runs check are the components' own properties, the very definitions that the theorems of
section 4 are about.

### How the request models correspond to the code

`phase[r]` is where the goroutine of request `r` stands: `idle`, about to make the
guarded `write`, about to insert its `audit` entry, about to make the closing read
(`reply`), or the answer it gave (`ok`, the error codes of `handler/errors.go`, or
`lost` when the process stopped first). `current[r]` is the local variable `current` of the
service method, `input[r]` the bound request. `commits` is a history variable.

| Action | Code |
|---|---|
| `TurnAway` | the role guard, JSON binding, a failing first query |
| `Create` | `Create`: validation, the unique index, the INSERT |
| `UpdateRead`, `UpdateWrite` | `Update` up to, and with, `repository.Update` |
| `TransitionRead`, `TransitionWrite` | `Transition` up to, and with, `TransitionWithOpinion` (one transaction: row and opinion) |
| `DeleteRead`, `DeleteWrite` | `Delete` |
| `Audit` | `security.Audit`; the entry is inserted, whether or not the server hears so |
| `Respond` | the closing `Get` |
| `DatabaseError` | any later database call fails without effect |
| `Crash` | the process stops: all requests in flight are lost, the tables stay |

Each write has a second outcome: durable, but the server did not hear of it. For the writes to the record that is
answered 500; for the audit insert it is what a failed insert is (`AuditFailed`): answered 500 where the service reports it, and passed over on
create and update. A refused request is one step, because nothing was written and the answer depends on one read.

The business fields are abstracted to the request that wrote them last; field lengths
and blank fields to an always possible refusal. `Input.role` is the role in the
token. A request that asks for a status outside the graph is refused like one the graph
does not allow, so targets range over the statuses of the graph. A record's code stands
for its id: a code is never free again.

`AheadVersions` says what clients do. The client of `src/frontend` sends back the version of
a row it was shown; then a named version was stored before, and the set is `{}`. The API
does not enforce that: any positive number is accepted. With a non-empty set, clients also name
versions they have not seen, such as the one a transition in flight is about to store.

In `Registry` one record stands for the table (the services never relate two records) and
`kind`, chosen at the start, says which of the three it is.

### How the other models correspond to the code

*Limiter.* A request is `counting` (its key, with the minute, is built), `fallback` (Redis gave no answer:
refused, unreachable, or executed and unheard), `counted`, and answered. `local[s]` is the map of server `s`;
an entry with count 0 is no entry. A counter in Redis may expire from the second minute after its own on, which is what
`EXPIRE` with two minutes promises when the last `INCR` was in its own minute. `RetryAfter` leaves open whether a request finds the budget used up, and
looks at the arithmetic of the answer: the request is counted (`Ask`), the answer is computed at two later readings of the clock (`Refuse`), it
arrives (`Hear`), and the client waits (`Return`). Nothing bounds the delays between these; Redis alone may take seconds to fail.

*Audit log.* A writer has begun, has stamped its entry (`time.Now()` in `Audit`), and has inserted it: other writers
run between any two. `Queries` is the order of the five queries in `SummarizeAudits`. Instants are numbers (`instant`),
several entries may share one, and `ReadHistory` picks any order that `created_at DESC` allows.

*Lists.* `stamp` is `updated_at` or `created_at`. `Firsts(n)` are the sets of rows that may come before place `n+1`, so a database
that breaks ties differently in each query is covered. The lists are read without a status filter; a search decides the set of
rows once. `Places` follows gorm, which leaves out an offset that is not positive.

*Access.* Time is in ticks, `PerSecond` of them to a second, since `TOKEN_TTL` may be any duration while `exp` and the announced `expires_in` are whole seconds.
A token is its user, its role, the secret that signed it and its expiry; its lifetime and the tick of its signing are kept for the properties.
`held` is a history variable: when a user last had a role. The program itself never changes an account: `ChangeAccount` is an operator at the database.
`Restart` is an exit and a start with one of `Environments`; while an environment that `Validate` refuses is in force, nothing is answered.

*Client.* In `Session` the promise `authentication` is a state (`null`, `pending`, and in a mutant `rejected`) with the navigations
that wait for it. In `Desk` the request of a load or of a transition is one step at the server, whose answer arrives later,
fails, or was never sent; `dialog` is the `pending` of the page, and `left` is a history variable: the calls whose dialog has been closed. `Accepts` is the server's decision, composed from the operators of
`Service` and `Workflow` that the request models use.

## 3. Runs

| Run | Instance | States | Shows |
|---|---|---|---|
| `approval_honest` | 1 approval, 3 requests, 3 roles, `AheadVersions = {}` | 434,553 | types; `StatusMatchesLatestOpinion`, `DecisionsAreReviewed`, `AuditsAreTrue`, `ApprovedIsFinal`; the inductive `ReadsAreFresh`; `RefinesLifecycle` |
| `approval_ahead` | the same, `AheadVersions = {2, 3}` | 1,271,714 | what survives clients that name unseen versions, and so holds of `approval_honest` too: `SerialVersions`, `AnswersTellTheEffect`, `NobodyElseDecides` |
| `approval_reads` | 2 writers, 1 reader, admin | 11,747 | a page's timeline is complete up to its row and explains its status |
| `registry_honest` | 3 requests, each of the three kinds | 378,804 | the same questions for the simple services |
| `boot_kept` | 2 tables, 3 attempts, 2 failures each of the server, the database, Redis and the start-up time, one seed row per table never deleted | 25,649 | every serving process has its tables seeded; deleted rows stay deleted; it always comes back |
| `front` | the parts of `MCFront`, listed below | 1,228,667 | `SharedBudget`, `LocalBudget`, `RefusalIsEarned`, `FewStaleBuckets`; `RefusedTwiceAtMost`, `NoLongerThanNeeded`; `ServedOnARecentRole`, `TokensLastAsTold` |
| `views` | the parts of `MCViews`, listed below | 1,801,012 | `SummaryIsBracketed`, `HistoryRespectsRealTime`; `NothingIsSkipped`, `PagesAreFull`, `PageShowsItsRows`; `AcceptedAsConfirmed`, `FreshOffersAreAccepted`, `ClosedDialogIsDone` |
| `session` | 2 tabs, 4 tokens, 2 waiting navigations | 489 | `LoginsAreShared`, `NobodyWaitsInVain`, `NavigationsEnd` |
| `approval_frozen` | 2 requests, `AheadVersions = {2}` | violation | finding 1 |
| `approval_audited` | 1 request | violation | finding 2 |
| `registry_graph` | 2 requests, `AheadVersions = {2}` | violation | finding 3 |
| `boot_emptied` | all approvals may be deleted | violation | finding 4 |

| Part | Of run | Instance | States |
|---|---|---|---|
| `shared` | `front` | 2 servers, 1 client, 3 requests, limit 1, 3 minutes, one lost answer, a restart each | 701,004 |
| `alone` | `front` | 1 server, 3 clients, clean-up from 2 entries on, 3 minutes, one lost answer | 191,893 |
| `obedient` | `front` | quarter seconds, minutes of 60 s, delays of 0, 1, 2, 5 and 241 quarters | 91,163 |
| `entry` | `front` | 1 operator or admin, 2 requests (logins or others), half seconds, 4 environments (tokens of 1.5 s and of 0.5 s, another secret, one that is refused), 4 ticks, 1 account change, 1 restart | 244,607 |
| `summaries` | `views` | 2 writers, 2 actors, 1 type, 3 instants | 287,547 |
| `histories` | `views` | 2 writers, 1 actor, 2 types, 4 instants, limits 1 to 2 | 49,986 |
| `records` | `views` | 3 rows and a new one, pages of 2 | 219,701 |
| `entries` | `views` | 4 entries and a new one, pages of 2 | 12,750 |
| `pages` | `views` | every page and size of 7 bits, 25 rows | 16,384 |
| `bench` | `views` | 2 calls, 1 load, every table and role, versions to 3 | 1,214,644 |

**Bounds.** Every request is served at most once, so three requests bound the
versions, the opinions and the audits: nothing else is capped. Three requests give every pair of
overlapping writes plus one that moves the row between or after them; the seeds start the record
in each state the database can be seeded with. One approval suffices for TLC because
no operation touches two, and the proofs hold for any number.
`Boot`: `MaxAttempts = 3` instead of 20 (the loop is uniform), `MaxStops` bounds kills and outages.
`RateLimiter`: with a limit of 1, two requests reach it and the third exceeds it; three minutes are needed for a counter to expire
(`Lifetime`) while a late pipeline is about; `CleanAt = 2` instead of 512 lets the clean-up happen. `AuditTrail`: the summary
needs one entry between any two of the five queries, and two writers give two such moments; the same two writers overlap or follow each other
in every way, before a history that shows one entry or both. `Paging`: with 7 bits the products leave the width many times over, to negative and to positive
numbers; sizes are to the width as they need to be for every branch. `Listing`: three rows and a new one, or four entries and a new one, in pages of two make a reader cross a page
boundary twice while a row is moved, added or removed at each stage. `RetryAfter`: delays below a second, above it, and above a minute, in any combination, until two and
a half minutes have passed. `Access`: half seconds tell a lifetime from the whole seconds it is cut to; the clock passes the end of a token, also of one that was signed
after a change or a restart. `Session`: two tabs are enough for one to log out under the
other, and there are more token names than can be held at once. `Desk`: `MaxVersion = 3` leaves two moves to whoever makes them. In
`Desk`, one record stands for the table, since no operation of the page relates two.

**Deadlock** checking is off in the request runs, since all requests may have been served; in the boot runs, where a full
instance has nothing left to register; and in `front` and `views`, whose parts end with their requests, rows or clock, or are single
states. Nothing in the code waits for a step of another actor that might never come: the only lock is the limiter's mutex, taken alone.
**Symmetry** permutes requests, logins and other visits, writers and calls, never a set out of which an instance chooses a member; no run with
symmetry checks liveness (`RefinesLifecycle` and the action properties are safety properties).

**Fairness.** In `Boot`: weak fairness of the process' own steps (it is one
goroutine), of `Start` (the container runtime's `restart: unless-stopped`) and of each
dependency coming up (the same policy). `ComesBack` is `[]<>(server = "serving")`: outages, kills and starts that run out of their
time are bounded by `MaxStops`, so the run says that after the last one the process gets to serve; it does not say that a start is ever fast enough.
In `Session`: the browser settles a login, with an answer or with an error (weak). Nothing is asked of the user, who may
never click again, or of the server, which may refuse every login. So nothing is said of a session that comes back; what the code does promise is that
nobody waits for a login that is not in flight and that the next who needs one sends it (`NobodyWaitsInVain`, safety), and that whoever waits gets an end of it (`NavigationsEnd`).

**Assumptions about the surroundings.** The clocks do not run backwards, and the servers that share a Redis agree on them. Redis keeps its counters over its own restarts. A Redis
pipeline ends within a minute of the building of its key, and a login within `LoginTime` in `Access` (the time limits of the clients and the server
are seconds). The API does not see client addresses behind the proxy unless `TRUSTED_PROXIES` is set, so
all browsers behind one proxy are one key of the limiter. `/healthz` and the login are not limited.

**What the properties do not say.** A minute that is counted partly in Redis and partly in maps admits up to the limit once for Redis and once for
each life of each server: `SharedBudget` and `LocalBudget` bound the parts, and nothing in the code bounds the sum. `SummaryIsBracketed` puts each number between the states of the log at the beginning and the end of the summary; it does not relate
transitions to the total, since there the code can indeed show more transitions than entries. `NothingIsSkipped` excepts deletions, and audit
entries of one instant: there the code does lose rows. `PageShowsItsRows` excepts offsets beyond the largest integer: such a page shows the first
rows, or arbitrary ones. `AcceptedAsConfirmed` holds although the list may be filled by the older of two loads; the version that is sent along makes up for it.
`ServedOnARecentRole` bounds how long a token outlives its role; there is no revocation. `TokensLastAsTold` is to within a second, and that is the code: both
the announced lifetime and `exp` are cut to whole seconds. So a `TOKEN_TTL` below a second passes start-up (`Validate` does not look at it), is announced as 0, and
gives tokens that may be dead at once; the `entry` part contains that. `ClosedDialogIsDone` lets the end of a call close a dialog that is not its own: when the user has
cancelled the dialog of a call in flight, and a load has taken the spinner away, a second dialog can be opened, even confirmed, and the first call clears `pending`
when it ends (`EntityPage.vue:47-48`). The second call still takes its course, and `AcceptedAsConfirmed` holds of it. The client never renews a token that
expired or was refused (`api/client.ts`): a stored session that no longer works stays until the user presses the button.

### Findings

1. *Fields of an approval under review can be rewritten.* `Update` checks the draft lock on
   the row it read, then writes where `version =` the version the client named, and never
   compares the two. A request that names version 2 while a transition 1 -> 2 is committing gets through
   with the row of version 1, and puts back its status as well. `service/errors.go:10` and
   `src/README.md:36` promise otherwise. `DecisionsAreReviewed`, `StatusMatchesLatestOpinion`,
   `AuditsAreTrue` and `ReadsAreFresh` fail under such clients for the same reason;
   `NobodyElseDecides` is what is left of the review rule.
2. *A status change can lack its audit entry* (`src/README.md:35`): the entry is a separate insert after the commit.
3. *The simple services let an update undo a transition*, whatever the graph says (`dto/artifact.go:5-6`); the cause is that of 1.
4. *A table whose rows were all deleted stops every later start*: the seed counts
   rows that are not deleted, and its insert meets their codes in the unique index.

1 and 3 need a client that names a version it was not shown. Comparing `current.Version` with
`ExpectedVersion` after the first `Get` would remove both, and would make `Fresh` an invariant for all clients.

## 4. Proofs

Eight modules prove the following for all values of the constants. Every safety invariant and every action property that a run checks is the conclusion of a
theorem; the two liveness properties are not. What a constant must be is an `ASSUME` of the module that declares it, which TLC evaluates on each run; the last column
names what a theorem assumes besides. Two of them are more than types: `RetryAfter`
takes a minute to be whole seconds, and `Listing` that a table has no more rows than the largest integer. *Honest clients* means `AheadVersions = {}`: clients name only versions they were shown. The proofs cite nothing but the
definitions of the models and the theorems of the library about functions and finite sets.

| Module | Theorem | Statement | Assumptions |
|---|---|---|---|
| `StageApprovalProofs` | `TypeCorrect` | `Spec => []TypeOK` | |
| | `FreshReads` | `Spec => []ReadsAreFresh` | honest clients |
| | `ApprovalsFollowTheLifecycle` | `Spec => RefinesLifecycle` | honest clients |
| | `ApprovedStaysApproved` | `Spec => ApprovedIsFinal` | honest clients |
| `ApprovalHistoryProofs` | `AuditsTellTheTruth` | `Spec => []AuditsAreTrue` | honest clients |
| | `ReviewersDecide` | `Spec => []DecisionsAreReviewed` | honest clients |
| | `VersionsAreSerial` | `Spec => []SerialVersions` | |
| | `ReviewersHaveTheLastWord` | `Spec => []NobodyElseDecides` | |
| | `AnswersAreTrue` | `Spec => []AnswersTellTheEffect` | |
| | `OpinionsAgreeWithRows` | `Spec => []StatusMatchesLatestOpinion` | honest clients |
| `ApprovalReadsProofs` | `TimelinesAreComplete` | `ReadsSpec => []TimelineIsComplete` | |
| | `StatusesAreExplained` | `ReadsSpec => []StatusIsExplained` | honest clients |
| `RegistryProofs` | `TypeCorrect`, `VersionsAreSerial`, `AnswersAreTrue` | as for approvals | |
| | `RecordsFollowTheLifecycle`, `EntriesAreTrue` | as for approvals | honest clients |
| `BootProofs` | `TypeCorrect`, `DeletedRecordsStay`, `ServersAreSeeded` | `TypeOK`, `DeletedStaysDeleted`, `ServesSeededTables` | |
| `RateLimiterProofs` | `SharedBudgetHolds`, `LocalBudgetHolds` | `LimiterSpec => []SharedBudget`, `[]LocalBudget` | |
| | `RefusalsAreEarned` | `LimiterSpec => []RefusalIsEarned` | finitely many requests |
| | `StaleBucketsAreFew` | `LimiterSpec => []FewStaleBuckets` | finitely many keys |
| `FrontProofs` | `RolesAreRecent`, `TokensKeepTheirWord` | `AccessSpec => []ServedOnARecentRole`, `[]TokensLastAsTold` | |
| | `RefusedAtMostTwice`, `SentAwayBriefly` | `RetrySpec => []RefusedTwiceAtMost`, `[]NoLongerThanNeeded` | |
| | `OneLoginAtATime`, `NoLoginBlocks` | `Spec => []LoginsAreShared`, `[]NobodyWaitsInVain` (of `Session`) | |
| `ViewsProofs` | `PagesShowTheirRows` | `PagingSpec => []PageShowsItsRows` | |
| | `PagesKeepTheirPromise`, `ReadersMissNothing` | `ListingSpec => []PagesAreFull`, `[]NothingIsSkipped` | |
| | `HistoriesKeepTheOrder` | `HistorySpec => []HistoryRespectsRealTime` | |
| | `SummariesAreBracketed` | `SummarySpec => []SummaryIsBracketed` | |
| | `AcceptedMovesAreConfirmed`, `OffersAreAccepted` | `DeskSpec => []AcceptedAsConfirmed`, `[]FreshOffersAreAccepted` | |
| | `DialogsCloseWhenDone` | `DeskSpec => ClosedDialogIsDone` | |

**Approvals, honest clients.** The refinement mapping is the table itself: `book <- rows`. All reads, audits and
answers are stutters; each of the four writes has to be one lifecycle step. That is not so in an arbitrary
state: a write stores the status or the fields of `current[r]`, the row as it was *read*. The needed
strengthening is `Fresh(r)`: a request about to write names a version no later than the one it read, and while the
row still has that version, it is the row read. When the version check succeeds, the named version is the stored one; since
versions only grow, the version read equals it too, so the row read is the row stored, and the checks made on it
hold of the stored row. `Fresh` is preserved because every write raises the version (so the antecedent becomes false
for every other reader) or marks the row deleted (which changes neither version, status nor fields). `ApprovedIsFinal`
follows from the same invariant: `approved` has no successor in the graph and is not editable.

`DecisionsAreReviewed` is inductive given `Fresh`: the edge and the role were checked on the row read, which is the
row replaced, and `approved` and `rejected` are entered from `review` alone. `AuditsAreTrue` is not inductive: an entry
is written a step after the commit, from the local variables of the request. The strengthening is `AuditsAreDue`: a
request about to write its entry has a commit with the statuses the entry will name. A write establishes it
(by `Fresh`, the status read is the status replaced); nobody but the request changes its local variables,
and `commits` only grows. `StatusMatchesLatestOpinion` needs that opinions are of the past: no opinion names a version later than its row has, so
the one that comes with a transition is the latest, and an update, which raises the version without an opinion, is admitted only in
`draft` and leaves the status that the latest opinion names.

**Approvals, all clients.** Without `Fresh`, a row may get back what it was. What still holds is about versions: `VersionsInv` says that each version after
the first has its commit, made by one request, and that commits are of the past; a write stores the named version plus one only where the
row has the named version. `NobodyElseDecides` adds `Checked`: a request about to transition was checked for its role against its target, and a request
about to update holds a row it found editable; so an update can undo a decision but not make one. `AnswersTellTheEffect` adds `Outcome`: where a request stands, and
its answer, determine which commits and which audit entries it has left, which no other request changes.

**Readers.** Readers write nothing. The rows of a page are held from the first query on, and then the opinions are read.
Whatever a writer adds in between is for a version newer than the row was, so what the page holds stays explained: each transition up to the row had its
opinion in the table when the row was read, and opinions are never taken away.

**Artifacts, plans and tests.** The same arguments, for three graphs at once; the book of the lifecycle is the row under its kind. A status need not be
compared with the graph when it is updated, because the row that is put back is the row that is replaced.

**Start-up.** `SeedComesFirst`: a table is unwritten or its seed is stored in one piece, live or deleted - clients reach a table only through a process that
serves. `Progress`: how far this start has come says which tables are seeded. Together they give `ServesSeededTables`.

**Access.** `HeldInv`: a user's account of now is among the roles held now, and no role was held in the future. `RecentInv`: a login in flight read an account
within the last `LoginTime`, a token was signed within `LoginTime` of its role being held, and its `exp` is the second in which its lifetime ends; a request that passed
the token check did so before that second, one that was turned away did so after it or under another secret. `ServedOnARecentRole` follows, as `exp` is cut down and never up.
`TokensLastAsTold` compares two cuts: `(signed + ttl)` to whole seconds in `exp`, and `ttl` to whole seconds in what the login announces. Each loses less than a second (`Seconds`),
so `exp` is within a second of what was announced, on either side.

**Limiter.** The budgets are proved by counting. `Told`: a number that a request was told is at most what the counter of its backend, window and (for a map) life of
its server shows, unless that minute is over. `AllApart`: the numbers told under one counter are pairwise different; a new one is above all others. So the requests
admitted, each told a number up to `Limit`, inject into `1 .. Limit`. For refusals the other direction is needed, `Covered`: a counter stands for as many requests that
it counted, lost answers included; sets of counted requests only grow, and the clean-up, expiry and crashes only lower counters. `StaleInv` adds
that no bucket is of a future minute: the one step that counts in a map either finds it small or cleans it, and leaves fewer than `CleanAt` buckets of past
minutes; a tick ends the minute that the property is about.

**Retry-After.** `WaitsLongEnough`: a minute that refused once lets the client resume no earlier than within its last second, and one that refused twice no earlier than
its end - so there is no third time. The wait is whole seconds, at least one: rounding down loses less than a second (`WaitBounds`), and the second refusal falls in
that last second. None of this uses how long counting, answering or travelling take: a delay moves both the readings of the clock and the moment of return, and a refusal that
is written after its minute has ended sends the client into a later one, which is late enough (`ResetsKeepOrder`).

**Session.** `SharedInv`: the promise, the flag of the page, the request in flight and the navigations that wait are one: either there is no promise, no request and nobody waits, or
one request is in flight behind the promise. Whoever needs a login finds the one under way, and however it ends all of them end together. Both properties read off it.

**Pages.** `PageOfRow`: row `i` is on page `p` of size `n` exactly when `(p - 1) * n < i <= p * n`. As long as the offset keeps within the width of an int, `Wrap`
leaves it alone, the second clamping finds nothing left to clamp, and `LIMIT` and `OFFSET` select these rows.

**Lists.** `FullInv`: what was counted is there until something is deleted, so the rows found fill the page. For `NothingIsSkipped`, rows are counted *before* a row: `SkipInv` says
that, while nothing is deleted, a row that was left alone and not yet shown has at least as many rows before it as the reader has skipped. Rows that arrive or are touched go to the
front, so that number only grows; a page shows every row with that many rows before it, so a row that it leaves out has a whole page more. At the end
there is no such row, for not so many rows exist. Where two audit entries share an instant, they have no settled order, and the argument ends: so does the property.

**Summaries.** `WritesInv`: entries are never changed or removed. So the entries that a query sees include those of each earlier query (`SummaryInv`). `TotalOfGroups` is the lemma behind the
sums: however a finite set is grouped, the groups together count as much as the set - each group is numbered from 1, and an element is its group and its number, a
bijection. `SummaryInv` keeps, as a witness, the set of entries that each of the five queries saw, with the sets at the beginning and the end around them: five growing sets. All
results grow with the set (`ResultsGrow`: total, groups, transitions and distinct actors) and no other writer changes the result of a set (`ResultsStay`), which gives both
bounds of every number, and the order between the numbers. That there are finitely many entries is part of the invariant, not an assumption.

**Histories.** An entry is stamped after its request began and before it was answered (`WritesInv`), and nothing newer than a listed entry is missing before it
(`HistoryInv`): the list is the beginning of a sequence of all entries found, and `SeqsCover` says that such a sequence has each of them.

**Workbench.** `KnownInv`: whatever the page once read of the record - in its list, its dialog, its loads and calls - has an earlier version than the row, or the same version and the same status.
So a move whose version matches starts from the status that was shown. It uses that version up (`MovesInv`), so nobody makes it again. `ReloadInv`: the load at the end
of a call finds what the call made, or something later. `DialogInv` says what is left of the tie between a call and its dialog: a call whose list is being loaded has had its move made,
and as long as its dialog has not been closed, the dialog on the page is its own. `FreshOffersAreAccepted` is a fact about the tables: `PagesFollowTheGraphs`, each status leads to the one listed after it, but for
approved approvals, where the page offers nothing.

**Only model-checked**: the liveness properties `ComesBack` and `NavigationsEnd`, since liveness under fairness is beyond the prover. That the four violated properties are
violated is shown by TLC alone.

## 5. Plan

Done, in this order: `Workflow`, `Lifecycle`, `StageApproval` with its runs and proofs, `Service` (shared with) `Registry`, `Boot`,
`ApprovalReads`; then `RateLimiter`, `RetryAfter`, `AuditTrail`, `Paging`, `Listing`, `Access`, `Session`, `Desk` and `Configuration`; then
the proofs of section 4, from `StageApproval` outwards to the last of the safety properties. What is left to do:

1. a table of several records in `Desk`, where the dialog that a call closes may be that of another record;
2. an abstract log that `AuditTrail` and the audits of `StageApproval` and `Registry` implement;
3. the safety half of `ComesBack`, as `NobodyWaitsInVain` is for logins: whatever keeps a start from serving has a step that ends it.

### Not modelled

- Token signing and password hashing: library calls; `Access` models their outcome.
- Request context and panic recovery (`middleware/request.go`): a recovered panic answers 500 like a failed database call, which every request model
  has; identifiers, headers and logging keep no state.
- Health, overview, session and runtime: each reports reads that are independent of one another and changes nothing.
- In the client: the creation of a demonstration record (one POST, then a load like any other), the audit page and its charts, formatting, components.
- Schema migration, the scripts and the deployment files, except for the restart policy, which is the fairness of `Boot`; the MinIO container, which no code in
  `src/` talks to.
