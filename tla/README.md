# Ekon inventory system: TLA+ models, checks and proofs

Ekon keeps the stock of a shop. Its server (`src/backend`, TypeScript on
PostgreSQL) owns an append-only ledger of stock movements, the balances
projected from it, physical counts, the catalog of merchandise and its
lifecycle, and the people who may act. A browser client (`src/frontend`)
sends it commands over HTTP, keeps copies of what it reads, and lets somebody
retry a command whose answer was lost. Command-line tools migrate the schema and
make and restore backups.

The code is sequential to read and concurrent to run: every request is a
database transaction at READ COMMITTED, requests overlap, connections die, and
clients repeat themselves. What makes it correct is where it claims operation
ids, which rows it locks, in which order and in which mode, and what it reads
before and after it has the lock. The browser is concurrent in its own way: an
answer comes back to a screen that has moved on, was left, or belongs to somebody
else by now. That is what these modules model.

## Inventory of the system

| Component | State | Operations | Hard behaviour | What makes it correct |
|---|---|---|---|---|
| Posting engine (`inventory/ledgerService.ts` and its repositories) | `operations`, `inventory_movements`, `inventory_balances` | post, reverse, look up a completed operation, replay | concurrent first movements, retries, reuse of an id, two reversals of one movement, a dying connection | at-most-once posting, unbroken chains, balance = ledger, floor at zero, one reversal per movement |
| Stock command services (`receivingService`, `removalService`, `adjustmentService`, `reversalService`) | none of their own | receive, remove, adjust, reverse | a settled command asked about later; merchandise archived between check and write | repetitions are answered before the present is asked; the lifecycle is judged inside the transaction |
| Merchandise lifecycle (`catalog/lifecycleService.ts`, `domain/lifecycle.ts`) | `lifecycle_status` of products and variants | set the status of a product or a variant, eligibility for a command | archiving against postings, two levels of status, lock order | archiving strands no stock, only legal transitions, no deadlock |
| Physical counts (`inventory/countService.ts`, migration 0013) | `inventory_count_lines` | record, reconcile, list | two decisions on one count, the shelf moving on, repetition of one's own decision | a count and its movement settle together, once; evidence is never rewritten |
| Movement history (`movementHistoryService.ts`, `historyCursor.ts`) | none (reads) | a page of the feed | rows inserted between two pages | nothing twice, nothing skipped |
| Current stock view (`inventory/service.ts`) | none (reads) | balances per variant and location | several reads that are not one snapshot | only operational merchandise, every unit visible |
| Catalog creation (`catalog/service.ts`) | products, variants, brands, classification values | create a product with its variants, list the catalog | SKU collisions inside a transaction, two requests bringing one new brand or value, a listing of five statements | products whole or absent, one brand per name, unique SKUs, no fault without a cause |
| Bootstrap and users (`identity/bootstrapService.ts`, `userService.ts`) | `users` | first owner, create user | two first-run screens at once | one first owner |
| Sessions (`identity/authService.ts`, `enforcement.ts`) | `sessions` | log in, authenticate, log out | deactivation during log in, expiry, token collision | a session opens only for an active user and only while it lives |
| Browser client (`frontend/src/lib`, `app`) | the open form, its operation id and frozen request, cached reads | draw an id, send, retry, invalidate, refetch | lost, cut and late answers, a form that is left or reloaded meanwhile | one operation id per command, a retry is a repetition, copies know the browser's own movements |
| Sign-in (`frontend/src/auth`) | the answer to `me`, why nobody is signed in, the cookie all tabs share | open, sign in, sign out, first owner, end of a session | late answers of an earlier session, two tabs, lost sign-outs | "signed out" is true, nothing of an earlier session is shown |
| Screens (`frontend/src/screens`) | what is typed, the failure on screen, pages of history | edit, submit, retry, start anew, load more | callbacks of a form that has gone, a question changed while a page is awaited | each form keeps the client's promises in its own way |
| Migrator and boot (`platform/db/migrator.ts`, `readiness.ts`, `main.ts`) | `schema_migrations`, the schema itself | apply what is pending, check the version | two runners, a failing migration, a server of another build, a file that turns up late | in order; a server that is pinned has its schema |
| Backup and restore (`cli/`) | files, the backup state file | dump, verify, publish, prune, restore drill | dying between two steps | nothing unverified is called a backup, the last good one survives |
| System status, shared schemas, audit, deployment | - | - | - | reads, shapes, a README, archived scripts |

Interactions. A stock command asks the posting engine for a completed operation,
then gives it a command and a precondition; the engine runs the precondition,
which locks catalog rows, inside its own transaction. The lifecycle workflow
asks inventory, inside *its* transaction, which variants hold stock. A
reconciliation runs the engine's transaction body inside its own. The history
reads what the engine commits. All of them meet only in PostgreSQL rows: there
is no state in server memory that two requests share. The screens meet in the
query cache of one tab, the tabs in the cookie of one browser, and a browser meets
the server in requests that may be lost, answered late or answered twice.

Lock order. Count line (reconciliation only), operation claim, product, variant,
balance. A lifecycle change takes product, then its variants by id, and reads
balances without a lock. Entering a product takes brand, classification values
in the order of the request, product, SKUs.

## Modules

| Module | Stands for |
|---|---|
| `Ledger`, `LedgerProperties` | the posting engine, statement by statement; its invariants and the inductive strengthening `IInv` |
| `StockBook` | the abstract promise, a book of stock entries, one per command, atomic and at most once; `LedgerProperties` maps `Ledger` to it |
| `CommandPromise` | the promise to a client, whatever its command is: recorded and answered as if at one moment, told what came of it, refused only while not recorded; `LedgerProperties` and `CountsProperties` map to it |
| `LedgerProofs` | theorems about `Ledger` for all constants |
| `Lifecycle`, `LifecycleProperties` | archive safety: lifecycle changes against postings |
| `FiniteSums` | lemmas about least elements and sums over finite sets, for the proofs that count or sort |
| `Counts`, `CountsProperties`, `CountsProofs` | recording and reconciling physical counts against stock commands |
| `History`, `HistoryProperties`, `HistoryProofs` | paging through the ledger while it is written |
| `Identity`, `IdentityProperties` | first owners, accounts, sign-in and the admission of requests |
| `Backup`, `BackupProperties` | backup runs, retention and the record of the last run |
| `Catalog`, `CatalogProperties` | entering merchandise, statement by statement, and listing it |
| `MerchandiseProofs` | the theorems about the catalog: `Catalog` and `Lifecycle` |
| `Browser` | one browser: a form, its request, the reads it keeps, a bad connection, and the promise of the server |
| `Forms`, `FormsProperties`, `FormsProofs` | the eight forms and dialogs that send a command, on top of `Browser` |
| `SignIn`, `SignInProperties` | who is signed in, in the tabs of one browser that share a cookie |
| `AccessProofs` | the theorems about who gets in: `Identity` and `SignIn` |
| `HistoryScreen` | the screen that pages through the history, with the one property it is checked for |
| `Migrate` | migration runners and servers that boot, with what they promise |
| `IsoWeek` | the week key retention groups by, a pure function of a date |
| `Restore`, `RestoreProperties` | a restore, beside the service that writes and the backup runs of `Backup`, which it extends |
| `OperatorProofs` | the theorems about the operator's tools: `Backup`, `Restore` and `Migrate` |
| `MCLedger`, `MCLifecycle`, `MCCounts`, `MCHistory`, `MCHistoryScreen`, `MCIdentity`, `MCCatalog`, `MCForms`, `MCSignIn`, `MCMigrate`, `MCRestore` | small instances for TLC; `MCRestore` has the backup runs in it |

### How the models correspond to the code

*Attempts and stages.* In `Ledger` and `Counts` an attempt is one HTTP request
with one transaction; `pc` names the statement it is about to run. In
`Lifecycle`, `Identity` and `Backup` a transaction, task or job is a slot that is
used again and again, so its histories have no bound. A client's retry is
another attempt with the same operation id; `Requests` lets clients reuse an id
for another body.

*One action per statement that matters.* A statement that can wait, read what
others commit, or fail is an action. `LookUp` is `findCompletedMovement` on the
pool; `Claim` is `INSERT ... ON CONFLICT DO NOTHING`, which waits for an
uncommitted row of the same id; `LockBalance`, `CreateBalance` and
`RelockBalance` are the three statements of `lockOrCreateBalance`; `Write` and
`Reject` are the arithmetic and the inserts; `Commit` publishes the movement,
the balance and the operation together. Statements that only touch rows
the transaction holds are part of the action next to them, because nobody else
can observe or disturb what lies between.

*PostgreSQL.* `claimant`, `holder`, `lineHolder`, `sharers`, `held` and
`tableLock` are locks and uncommitted rows. A waiting statement is an action that
is not enabled. `FOR UPDATE` waits and then reads the newest committed row;
`FOR SHARE` admits other readers; a row that is not committed is not seen. The
unique and foreign keys of migrations 0005 and 0012 are not guards of the
model: they are `SchemaKeys`, so it is proved that the engine's locks alone keep every insert clear of them. Likewise the insert of a bootstrap
has no uniqueness guard, which `NamesAreUnique` shows it does not need.

*Failure.* `Abort` may end any transaction at any statement (statement timeout,
lost connection, dead process); `Commit` may lose its answer. `Rollback` is
`withTransaction` re-throwing. In `Backup` and `Restore` the constant `Faults`
says what a run of TLC lets fail: the directory, the tools, a disk operation, a
removal, the record, the machine. In `Catalog` a transaction may lose its
connection, and a deadlock detector ends one of those that wait for each other.
In `Migrate` runners break off anywhere and the database goes away and comes back.

*Files.* `Backup` has one function per kind of file: under the partial name,
under the finished name, its `.sha256`. A content is the state of the books that
was dumped, or `Cut` (being written), `Junk` (not an archive) or `Absent`.
`pg_dump` and writing `last-backup.json` take two steps, because another process
or the end of the machine can come between. Stamps count the ticks of the clock;
two runs never share one, and the clock is not set back. A day has
`TicksPerDay` stamps and a week `DaysPerWeek` days; that real weeks also part
the days into runs without shared keys is `WeeksAreTheKeys`.

*Databases.* In `Restore` the live database and each displaced one hold a state:
a number the shop's commits have reached, `Empty` (just created), `Half`
(`pg_restore` is not done) or `NoBooks` (there is none). The service is not
assumed to be stopped: `Commit` goes on whenever the live database is usable.

*People.* In `Identity` a task is an HTTP request or an operator command.
Verifying a password is the time between `FindLoginUser` and
`GenerateSessionToken`. Ids are fresh, names and tokens are chosen from small
sets, so a name or a token may be taken. No code deactivates a user or changes a
role yet, but migration 0007 and the comments expect it: `Deactivate` and
`SetRole` are an administrator at the database. One capability stands for all,
since its grants are rows no code writes.

*Catalog.* A request holds a brand, classification values and variants as they
were typed; `Identity` says which spellings are one. A unique key another
transaction has written and not committed is waited for; once it is over, the
insert finds the row or makes its own. A SKU that is taken costs an attempt under
the savepoint and nothing else. `at` names the next statement, `own` holds the
rows not committed, and the listing reads in five steps, each of its own moment.

*Browser and forms.* `form` is the form on screen with the id it drew, what it
holds, the request it would repeat and the failure it shows. `flight` is its
request; when it is left or the page reloads, the request becomes `orphan` or
`late` and may still arrive. `Serve` is what `CommandPromise` says of one request:
the same answer for the same id and body, a refusal for another body, and a fault
that says nothing. That the engine and the counts keep this promise is checked and
proved (`KeepsPromise`); that a sign-in is asked for first, and that a choice may be
refused which the shop offers no more, is `Serve`'s own. The promise leaves one thing
open that `Serve` does not need: a decision on a count under an id that holds *another*
body may be told of a conflict before it is told of that body.
The forms differ in what the code lets each do: receiving and removal freeze a
failed attempt and offer to send it again (`RetrySameReceipt`,
`RetrySameRemoval`), dialogs and counts stay open under the id they drew, a
product and an account carry none. The cache holds two copies, the choices of the
receiving screen and the balances; a copy is trusted until it ages or a command
invalidates it. Callbacks run although their form has gone (`OrphanSucceeds`,
`OrphanFails`), as TanStack Query runs them.

*Sign-in.* Each tab has its answer to `me` and a reason why nobody is signed in;
the cookie belongs to all of them. A request carries the cookie of the moment it
is sent, and its answer comes at any time, or never. An answer that is cut off may
have set the cookie all the same. Reads are aborted with the
session that opened them, writes are not. `left` and `signIns` are kept for the
properties.

*History screen.* `first` is the cached first page of each question, `pages` and
`cursor` what "load more" appended, `loading` the page being awaited.
`AskForMore` and `MoreArrives` are the two halves of `loadMore` around its await.

*Migrations.* A checkout is any set of files, some of them edited: nothing in the
code insists on numbers without gaps. What `loadMigrations` refuses to load (a
misnamed file, two of one number) is not a checkout. Every file commits for itself,
so `RunSql` puts it in force and `RecordVersion` inserts the row after it. A process
runs again from whatever is checked out by then. A server has a pin
(`EXPECTED_SCHEMA_VERSION`) or, as development and tests may, has none; the pin is
set on its own and need not be the newest file. Without one `main.ts:36` asserts
nothing and the server serves on any schema, as `config/index.ts:219-220` says it
would; the properties speak of pinned servers only. `stray` remembers, for a
finding, what a run committed and did not record.

*Data.* Request hashes are equality of bodies. Quantities are small integers
under `MaxQuantity`, the ceiling of the integer column. Ids of movements and
counts are the identity of the attempt that mints them, except in `History`,
where they are ordered. Whether a location is open is left out, because no code
path changes one. In `Ledger` and `Counts` the lifecycle precondition passes or
refuses freely; `Lifecycle` gives it its meaning.

*History.* `RecordedAt` is the clock before the claim, `Mint` the UUIDv7 after
the precondition, `LockShelf` the turn on the balance row. The clock may stand
still, so positions can tie in time, and never runs backwards; ids of the one
server process ascend.

*For the properties only.* `preceding` and `owed` of `History`, `owed`,
`discarded` and `spoiled` of `Restore`, the field `late` of a request in `Identity`, `lost` of
`Catalog`, and `goalOf`, `told` and `doubt` of `Browser` remember what the code
does not.

*Defect operators.* An operator named `Defect...` is a plausible mistake in the
definition after it. No specification uses one. Each stands ready to take that
definition's place and make one named property fail, so every property is known
to be able to fail.

## Runs

| Run | What it shows | Bounds |
|---|---|---|
| `ledger` | `ChainUnbroken`, `ProjectionIsLedger`, `AppliedOnce`; `RefusedForCause`; that the engine implements `StockBook` (`ImplementsStockBook`) and `CommandPromise` (`KeepsPromise`) | 4 attempts over ids that may be repeated or reused, one shelf, a receipt, an issue and reversals of anything, deltas 2 and -1, ceiling 3 |
| `lifecycle` | `NothingStranded`, `NoDeadlock`, `MovedWhilePermitted` | 3 transactions at a time, one product, two variants, a shelf each |
| `counts` | `SettledTogether`, `StockIsExplained`, `ExpectedIsCurrent`; that counts implement `CommandPromise` (`KeepsPromise`); and the liveness property `Answered` | 3 attempts on ids that may carry a stock command, a recording or a decision; a ceiling of 2 |
| `history` | `NothingTwice`, `NothingSkipped`, `LaterCommandsAreNewer` | 3 writers, 2 shelves, 2 clock values, pages of 1 or 2, three filters |
| `history_screen` | a divergence, see below | 3 movements on 2 shelves, one to a page, 2 further pages |
| `identity` | `NamesAreUnique`; `FirstOwnerOnly`, `SessionsAreGranted`, `OverIsOver` | 2 tasks, 2 users, 2 names, 2 roles, 1 token, 2 attempts at a token, 3 clock values |
| `restore` | `FinalIsComplete`, `RecordIsHonest`, `CoverageIsKept`, `WeeksAreIsoWeeks`, `NothingDestroyed`, `WayBack` | 2 overlapping backup runs, one restore at a time, 3 stamps on 3 days in 2 weeks, tagged or not, 1 day and 2 weeks kept, two states of the books, every fault; dates of 2024 to 2030 |
| `catalog` | `CreatedWhole`, `FailsForCause`, `ListingIsWhole`, and the liveness property `Answered` | 2 requests out of 10, one listing, 3 SKUs, 2 attempts at one, 1 lost connection |
| `forms` | `NothingTwice`, `NeverContradicts`, `StockKnowsOwnMovements`, and the liveness property `SettlesInTheEnd` | 8 plans of one or two forms, 2 bodies, 2 ids, 2 things to do, 1 late request, 1 change of what the shop offers |
| `signin` | `SignedOutIsRevoked`, `ShownIsHers`, `NeverGreetedAsNew` | 2 tabs, 2 sessions, 3 requests under way, 3 page loads |
| `migrate` | `InOrder`, `ServesItsSchema` | 3 migrations, one of which can run twice, 2 runners, 1 server pinned to 2, to 3 or not at all, 4 checkouts (all files, one of them edited or none; without the last; without the second), 4 runs and boots, 2 faults |
| `migrate_rollback` | a divergence, see below | as `migrate` |

Type invariants are part of the proofs where there are proofs (see below).

Why the bounds are enough to be interesting: three attempts are a winner, a
loser and a bystander of any race over an id, a count or a row; a fourth allows
a retry behind a race, or two reversals behind two postings. Deltas 2 and -1
under a ceiling of 3 make the floor, the ceiling, a partly issued receipt and an
exact emptying all reachable. One shelf is where everything contends; the two
variants of `lifecycle` are what a lock cycle would need. Two clock values and
three movements give ties and inversions, and pages of one and two put every
boundary between every two rows. Two tasks are a bootstrap and whatever
overlaps it, or a sign-in and the request of another session; one token makes
every second sign-in collide. Three days in two weeks let a backup be kept for its
day, for its week alone, or not at all, and two runs prune from listings of
different moments while a restore names one of the files. The years 2024 to 2030
begin on every day of the week, with leap years and a year of 53 weeks among
them. Two requests that name two classification values in both orders, and two
variants each with three SKUs, are what a circle of waits needs; two attempts at a
SKU let the last one fail. Two ids let a command be begun anew after the first, and
one late request is what overtakes a retry. Two tabs and two sessions are the
next person and the tab left open; three requests are a sign-out, a sign-in and
the late answer of something before. Three migrations have one before and one
after the one that fails, or that turns up late, and four runs are a failure, its
repetition, a second runner and a boot. Symmetry is used only in runs without liveness, over values that
occur alike.

`Terminated` lets exactly the finished states of a run stutter, so that any other
stop is reported as a deadlock. `counts`, `restore`, `signin` and
`history_screen` say `CHECK_DEADLOCK FALSE` instead: the first ends the same way,
and the others stop when their bounded clock or page loads have run out.

*Fairness.* `counts` assumes weak fairness of the statements of each accepted
request: the server runs what it accepted, PostgreSQL grants a free lock. Nothing
makes a request arrive or a connection fail. Weak fairness is enough because the
number of requests is finite, so a lock cannot be taken away from a waiter for
ever; with an endless stream of competitors, PostgreSQL's queues would be the
argument. `Answered` there covers the longest chain of waits of the system: count
line, claim, balance. `catalog` assumes the same of each request, and of the
deadlock detector; its `Answered` shows in addition that retrying SKUs comes to an
end. `forms` assumes that whoever waits for a removal presses the button that is
offered and that the page hears of every end of a request (weak fairness), and of
a server and a connection tried again and again only that they work now and then
(strong fairness). Under less, a retry may simply never get through. What the
property adds is that the screen offers a way on from every outcome it does not
know.

### Where the code differs from its comments

* `migrate_rollback`. `migrator.ts:9` says each file is applied inside its own
  transaction, and line 148 that one which failed was rolled back. Every file in
  `backend/migrations` has its own `BEGIN` and `COMMIT`, so its `COMMIT` ends the
  runner's transaction and the row in `schema_migrations` is written alone. A
  failure between the two leaves a migration in force that every later run trips
  over. Until somebody repairs it by hand, the previous build boots (the highest
  recorded version is its own) on a schema that is already the next one's.
* `history_screen`. `HistoryScreen.tsx:58` says rows of two questions would be "a
  feed that is true of neither". `loadMore` appends what it awaited to whatever
  question is on the screen by then, and goes on from the old question's cursor.

The following were met while modelling. The first five are within what the models
do; no run of its own stops at them.

* `main.ts:21` says a half-deployed instance must not accept a single write, and
  `migrator.ts:187` that the schema check at boot is there for that. The check compares
  the highest recorded number with the pin. When a file numbered below one already
  applied turns up (two branches merged in the other order), a server that has it and
  is pinned to the highest number serves without it until a runner comes by, which then
  applies it on top of the higher ones. What rules this out is a convention, a new
  migration is "numbered after the last one" (`local-development.md:75`), that neither
  `loadMigrations` nor `scripts/check-conventions.mjs` checks. Under it the property
  `NeverHalfDeployed` is proved (`ByConventionNeverHalfDeployed`); without it, TLC
  finds such a server when it is added to the invariants of `MCMigrate.cfg`.
* `countService.ts:193` says the shared lock lets nothing move the shelf between
  reading it and recording the count. That holds where a balance row exists
  (`ExpectedIsCurrent`). On a shelf that was never stocked there is no row to
  lock: a first receipt can commit in between, the count is recorded against an
  expectation of zero, and accepting its variance books the receipt a second time.
* `cli/README.md:68` says every backup run is recorded. `mkdir` stands before the
  `try` (`backup.ts:73`): with the drive not plugged in, the record and the status
  screen go on reporting the run before.
* `restore.ts:81` verifies the archive first, so that a bad one is not discovered
  after the live database was renamed. Nothing holds the archive in between: a
  backup run that prunes may remove it.
* `authService.ts:142` says the capabilities a login answers with are those the
  next request will resolve. They are the present grants of the role that was
  read before the password was verified.
* `operations.ts:6-18` says an operation id survives a reload. No screen calls
  `loadOrCreateDraft`, `saveDraft` or `clearDraft`; a reload forgets the attempt.
* `ReceivingScreen.tsx:624-636` takes a recorded receipt whose answer cannot be
  read for a definite failure and offers only a new receipt. Removal treats the
  same answer as unknown and offers the repetition.
* `ConfirmDialog.tsx:51` says the dialog stays while its command is in flight;
  Escape and the backdrop close it. The late `onDone` of the one that was closed
  closes whichever dialog is open by then.
* `lib/removal.ts:240` calls a refusal definitive. It is one of the attempt it
  answers: an earlier one of the same id that was given up may arrive when the shop
  offers the choice again, and is recorded behind the refusal on screen. A new
  removal, or a new receipt, is then a second one.
* `NewProductForm` warns after an answer nobody received, and leaves its create
  button usable; the repetition is a second product.
* Two products that name two *new* classification values in opposite orders
  deadlock, and one of them is answered with an internal error
  (`FailsForCause` states this exception). So do two that draw each other's SKUs.
* A 401 that comes late to a write of an earlier session ends the session of
  whoever is signed in now. A sign-out whose answer comes after the next sign-in
  clears the cookie and shows "signed out" while the new session lives on at the
  server. Two tabs share the cookie, and each keeps its own answer to `me` for as
  long as it is open.
* A first-run screen that is refused because somebody else has set up the shop
  says so and stays; `SetupOwnerScreen.tsx:302-309` expects the next `me` to
  change it, and only a reload asks.

And some things no comment denies. The position of a movement in the feed is
taken before its transaction waits for its turn, so two overlapping commands on
one shelf can appear in the opposite of their order in the chain; commands that
do not overlap appear in order (`LaterCommandsAreNewer`). The first page of the
history is read again under the pages appended to it whenever the window regains
focus, and the row that newer movements push off it is then on neither. A nightly
backup between a failed restore and its repetition dumps the half-restored
database and counts it as a good backup. `WayBack` therefore speaks of runs in
which nobody has restored from such an archive (`spoiled`). It is not enough to ask
that none is on the drive: the archive can be restored, and pruned later.

## Proofs

TLAPS proves the following for every value of the constants that satisfies the
named assumptions.

**`LedgerProofs`** (a natural ceiling, nonzero integer deltas, `Null` distinct
from data). `EngineInvariant` establishes `IInv` (in `LedgerProperties`). None of
the interesting invariants is inductive alone: that
a chain does not fork rests on the writer holding the balance row *and* on the
row it read being still the committed one (`LockInv`); that an operation posts
once rests on an open transaction being the only claimant of an id without a
committed row (`ClaimInv`); that a reversal takes back exactly one movement
rests on what the attempt learnt when it read the original (`JobInv`) and on the
stored reversals (`UndoInv`). The proof goes variable by variable: lemmas say
which actions change a variable and how, then one step per action and conjunct.
From it follow `TypeCorrect`, `ChainIsUnbroken`, `PostedAtMostOnce`,
`AnswersAreTheMovement`, `NoInternalError`, `KeysNeverViolated`, the action
properties `StockMovesOnlyWithLedger`, `RefusalsAreForCause`,
`RepeatsAreAnswered`, and `EngineImplementsBook`: every step is a step of
`StockBook` or leaves the book alone.

*What a client may build on.* `EngineKeepsPromise` and `CountsKeepPromise` show that
every step asks, answers one request, or is none for the clients of `CommandPromise`.
The step that matters is the refusal, which may only come while the command is not
recorded. In the engine an open transaction is the only claimant of its id
(`ClaimInv`), so nobody has recorded it. A decision on a count may be refused before it
has claimed anything; there it is the two tables that agree: if this decision were
committed, the count would name it (`SettledTogether`), and `alreadySettled` would
have answered instead. A commit is one step, so a lost answer leaves a client two
cases and no third. And whoever is told that a command is recorded, first or later, is
told of the same row: the movement, the count, or the count that was decided. The part
about repetitions is also stated without the abstract specification, as
`RepeatsAreAnswered` and `RepeatedDecisionIsAnswered`; the runs check it within
`KeepsPromise`.

**`MerchandiseProofs`, creation** (any finite number of requests at once, any requests
whose lists are lists, any SKUs). A transaction is described statement by statement
(`Proceeds`): what it has resolved is committed or its own and has the key it was asked
for, its own rows say that it wrote them, and its product is the one it was asked for as far as
its variants go. Nobody else's statement disturbs that (`StaysPut`), because what is
committed only grows. SKUs differ among all that is written, committed or not
(`SkusDiffer`): who inserts one has waited for every other transaction that holds it.
`ProductsAreCreatedWhole` and `ListingsAreWhole` follow. `FaultsHaveACause` is about
circles of any length: nobody in one waits for a brand, because a transaction that does
holds nothing yet; who waits for a SKU is held up by somebody who has placed one already
and waits for another; and of those that wait for a value, the one that waits for
the last in the common order waits for somebody who waits for a later one still. The
run has two requests; three of them with pairwise different orders that make a circle
are what the order, instead of a crossing of two, is there for.

**`MerchandiseProofs`, archive safety** (disjoint kinds of rows, comparable variant ids).
`LifecycleInvariant` establishes `IInv` (in
`LifecycleProperties`): incompatible locks never coexist, a posting that was
told its merchandise is eligible holds the two rows that keep this true, an
archiving transaction owns every variant at stake and knows them empty, and
archived merchandise has empty shelves. `StockIsNeverStranded`,
`StockMovesWhilePermitted` and `TransitionsAreLegal` follow, and
`NeverDeadlocked` from the lock order product, variant (by id), balance.

**`HistoryProofs`** (writers, shelves, filters and page sizes of any number). Ids come
from one counter and times from one clock, so no two rows share a place, and what was
committed when a writer began is behind it (`CommandsKeepTheirOrder`). `ORDER BY` is a
`CHOOSE` among the arrangements of a finite set; that there is one, and that it holds
every row, is proved by least counterexample with the newest row in front
(`OrderedExists`, `OrderedShape`). Of the reader the invariant says that the cursor is the place
of the last row given out, that what it has runs from newer to older, and that what is
owed and unread is older than the cursor. A movement that commits meanwhile may lie
on either side of the cursor and disturbs none of this: `NothingIsReadTwice`,
`NothingIsSkipped`.

**`AccessProofs`, identity** (tokens, names and users of any number; every task and row
different from `Nobody`). The inductive invariant says of the task that holds the
table lock that what it found when it looked is still so: the table empty, or no
owner active, and then the name free. This holds because whoever else writes
`users` waits for the lock (`WritersWait`). Of a request it says that a session
that was over when it was sent is over still, because users stay, sessions are
only ever revoked (`SessionsStay`), and the clock is read before the statement.
`UsernamesAreUnique`, `OnlyFirstOwners`, `SessionsOnlyGranted` and
`WhatIsOverStaysOver` follow. The last needs users who are not
activated again, which no code does.

**`CountsProofs`** (attempts of any number over any ids, shelves and requests).
`CountsInvariant` follows the locks as `LedgerProofs` does, with one more: the row
lock on the count line. What makes the invariants inductive is what an attempt that
holds the line knows of it (nobody has settled it, and its variance is the one read),
and that the operation named by a settled count stands, for this count and with
this movement. `DecidedWithItsMovement`, `EveryUnitIsExplained`,
`RepeatedDecisionIsAnswered` and `ExpectedStillStands` follow. The shared lock of a
recording is what the last one rests on.

**Sums.** `ProjectionIsLedger` and `StockIsExplained` add up sets of any size, and the
folds of the library have no theorems that these provers could use. `FiniteSums`
characterises a sum by the recursion it is folded with and proves by least
counterexample, on the cardinality of a finite set, that the recursion has one
solution, so that a sum grows by what is added to the set and is not changed
elsewhere. `BalanceIsTheSum` is then one step: a commit adds one movement and its
delta to the balance. `ReversalsAreWhole` needs no more than that a movement has at
most one reversal.

**`OperatorProofs`, backups and restores** (any number of overlapping backup runs, of restores in sequence,
of stamps and faults). What is
under a partial name a run has verified is still whole when it renames it: names
differ because stamps do, so no other run writes there. `FinishedIsComplete`
follows, and survives a restore beside it (`CompleteBesideRestores`). The name a
live database gets was free when it got it, and what is live until `pg_restore` has
ended is nobody's books; so every state somebody may miss stays in the cluster
unless it was named (`NothingIsDestroyed`). `ThereIsAWayBack` needs to know that
before a restore's rename the live database is a state of the books or a displaced
one is, and that what is loaded from an archive is one unless `spoiled`.

*Retention* is a loop over the directory, newest first. `PruningLeaves` replaces it
by a closed form, proved over any listing by least counterexample: what stays is
what is tagged, and the newest file of each recent day and each recent week. What a
run dooms may be removed much later, when other runs have published and pruned.
The invariant (`KeepInv`) is that it is still replaceable then: a newer file of its
day is there, or enough later days have one, and so for its week. Publishing makes
files only more replaceable, and removing one replaceable file leaves the others so,
because whatever stood for them has a newer stand-in that nobody has
doomed. `WhatCountsIsKept` (an action property) and
`TheRecordCanBeBelieved` follow: the newest file is never doomed. The record's own
file may be, by a run that published a newer one; what the record says then still
holds, because the newer one is there.

*Weeks.* `WeeksAreStandard` is about `isoWeekKey` alone, for any range of years: a day
has exactly one year, because there is a first year that is not over before it and
years of 365 or 366 days do not overlap; its Thursday and the first Thursday of that
year are a whole number of weeks apart, so the rounding is exact.
`WeeksAreTheKeys` is what retention takes from it: with weeks of seven days, two
backups are of one `Week` exactly when they have one key.

**`AccessProofs`, sign-in** (any number of tabs, sessions and page loads). Sessions only go
from unused to alive to over, and the cookie, a tab or a request under way names only
sessions that have begun. A tab says "signed out" only after the answer to a sign-out
that carried its session, and by then the session is over (`SignedOutMeansRevoked`).
A read is answered only to the sign-in that asked (`NothingIsLeftForTheNext`),
because the end of a session takes its reads with it; a tab asks "who is this" once,
when it opens, so the answer cannot come after a sign-in (`TheReasonIsGiven`).

**`OperatorProofs`, migrations** (any number of runners, servers, migrations, runs and
faults). `InOrder` alone is not inductive: a runner works from a list it read
before others went on. What it read is still recorded (`ReadIsRecorded`), what is
recorded is in force (`RecordIsTrue`), and whoever is at a file has every lower file
of its checkout recorded (`AtItsTurn`), because the row before was its own or was on
its list, and rows are never taken away. `MigrationsAreInOrder` follows, of the files
a runner has: a lower file that only turns up later is not among them. Whatever is in
force came with a build all of whose lower files are recorded (`EachOnItsBuild`), and
with it `ServersHaveTheirSchema`: a pinned server stands on everything that *some*
build has up to the pin, so no run that broke off half-way passes for a whole one.
That this is its *own* build needs `NumberedAfterTheLast`, an assumption about the
checkouts that `ByConventionNeverHalfDeployed` states and no code checks: if one
checkout has a file and another has a higher one, the other has that file too.

**`FormsProofs`** (any plan of forms, any number of ids, of requests given up and
of changes of the shop). The proof follows requests, not forms. A request is
*known* while something still holds it: the form that would send it again, the
request in flight, one whose form has gone, one given up, or the books. It is
*possible* while it is recorded or may yet be. Known requests of one id are of one
kind, and where the screen freezes its attempt they are the same
(`KnownInv`); so what the books hold under the id of a receipt or a removal is
what any late copy of it asks for (`RepeatsAgree`). Possible requests of one goal
are the command of the open form, or the goal is in doubt, or they make one account,
and the server takes a name once (`GoalsInv`, `NamesInv`): `NothingIsRecordedTwice`.
A draw is what the last one stands on, since the id of a new form is in no request that
is known. `BalancesKnowOwnMovements` is inductive with the reads under way: a
copy becomes trusted only by a read that began after the last command this browser
heard of, because hearing of one drops the reads that began before. TLC has
checked the same invariant with two changes of the shop in place of one (3,038,493
states).

**Only model-checked.** Liveness and fairness are beyond the prover (`Answered`,
`SettlesInTheEnd`). Every other property of a passing run is a theorem.

## Not modelled

Hashing, formatting and validation of requests (the models start from requests
that passed, and forms from "is it complete"); prices, names and display labels;
the reading of cookies, rate and size limits; screens that only show what was read
(catalog, inventory, home, lists of counts and movements), layout and translation;
system status; the archived deployment scripts. The current stock view is taken as
one read, although the service puts it together from several. Of backup and
restore: archives from outside the backup directory, diagnostics, and the restore
drill, which works on a scratch database of its own (two drills at once would
share its name).

## Plan

1. `StockView`: the current stock picture assembled from separate reads, checked
   together with `History`, which reads the same tables.

Each module joins the existing runs where the question is the same one, so that
the project keeps one run per question.
