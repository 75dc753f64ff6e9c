# PumpOS: formal models and proofs

PumpOS is a multi-tenant ERP for fuel stations: a TypeScript monorepo (`packages/core`
use cases, `apps/api` HTTP routes and PostgreSQL repositories, `packages/ui`, `apps/mobile`,
`apps/desktop`). This directory holds TLA+ models of its core logic, TLC configurations that
check them on small instances, and TLAPS proofs of the main results.

Run everything from this directory:

    tlc -workers 2 -config MCShiftLifecycle.cfg MCShiftLifecycle
    tlapm ShiftLifecycle_proofs.tla

## 1. Inventory

| Part | State | Operations | Correct when |
|---|---|---|---|
| Business Days (`station-ops/business-days`) | one row per station and date: OPEN, CLOSED | open, close, lazy creation by a Shift or a back-office entry, write gate | a closed day never reopens, holds no running Shift, and its sales and stock are sealed |
| Shifts (`station-ops/shifts`) | OPEN, CLOSED, LOCKED; assignments, nozzle readings, handovers, summary | open, hand over, close, reopen, lock, refresh | one Shift runs; what is derived from a Shift (summary, postings, movements) exists exactly while it is settled, and matches its rows |
| Shift money (`compose-shift-sales`, `shift-recon-sql`, `product-cash-drawer`, `drawer-reconciliation`, `shift-close-cash`) | figures frozen in handovers and in the summary | what a Drawer should hold, what the office should hold, payment split, cash posted | an Attendant is charged with what the Drawer lacked; no cash is counted twice; the split adds up to the sales but for what is known to be missing |
| Credit and OMC card sales (`crm/credit-sales`) | customer ledger rows, on a Shift or a day | record, void | ledger, summary and day report list the same rows; late entries are flagged |
| Retail (`retail`) | sales, merchandise handovers | record, replace, delete | only in a running Shift of an open day |
| Fuel (nozzle readings, stock counts, decantation) | opening and closing readings, stock movements, tanker lines PENDING or MEASURED | read, hand over, close, dip, unload, measure | readings chain from Shift to Shift; the book is the tank up to what was not booked yet; each tanker is counted once |
| Day report (`reporting/dssr`) | one snapshot per day | generate, regenerate | exists exactly for closed days and lists what was recorded in time |
| Ledger posting (`apps/api/src/infra/ledger-posting`) | ledger entries by reference | post and reverse a Shift close | a Shift's cash is posted once |
| Transactions (`apps/api/src/infra/transaction`, repositories) | PostgreSQL, READ COMMITTED; row locks, one advisory lock per station | begin, lock, read, commit, roll back | each request is atomic and ends |
| Idempotency and keyed saves (`apps/api/src/infra/idempotency`, `packages/ui/src/office-records`) | `idempotency_keys` rows; the app's unsettled keys and each drawer's session key | reserve, find, release, complete; next, settle, hold | a retried or re-entered record is recorded once, and is never forgotten |
| Demo lifecycle (`apps/api/src/services/demo`) | organisation and user rows; logins at the auth provider | create, invite, reset, extend, delete, (de)activate the owner, nightly job | rows and logins stay together, every demo goes in the end |
| Desktop updater (`apps/desktop/src/updates`) | the coordinator's phase, the plugin's update objects, the version on disk | check, download, install, relaunch, postpone, dismiss, retry | what is shown is the case, no version goes back, a question is answered |
| Purchasing, office records, organisation access, station setup, reports, UI cache, screens | rows of their own, or none | see `PROJECT.json` | not modelled, section 6 |

How they interact: a route authorises, opens a transaction (`runInTransaction`), may take the
station's advisory inventory lock, and runs one use case; the use case locks Station ->
Business Day -> Shift (`lockForWrite`) or the Shift alone, checks statuses, writes, and appends
events; the route adds ledger postings or a summary refresh in the same transaction. The hard
behaviour is in (a) long sequences of legal requests (reopen, late entries, regeneration, a dip
between two tankers), (b) requests that overlap while they wait for locks, (c) retries, and
(d) operations over two systems with no transaction across them: the database and the auth
provider, the coordinator and the updater plugin. `PROJECT.json` lists each hazard at its line.

## 2. Modules

| Module | Models | Abstraction |
|---|---|---|
| `StationContract` | what the books promise: one Shift at a time, Shifts stay on their day, sealed days keep their stock | abstract specification |
| `ShiftLifecycle` | Business Days, Shifts, handovers, sales, dips, summary, postings, credit entries, DSSR snapshot of one station | one action = one committed transaction |
| `ShiftTransactions` | the same requests statement by statement: locks, waits, stale reads, rollback, deadlock abort; forced reports | one Business Day, several clients |
| `DrawerCash` | the money of one Shift: handovers, close, posting, payment split, late rows, reopening, next to the cash itself | amounts are single rupees |
| `FuelStock` | one nozzle and its tank: readings, Sale movements, dips, tankers, next to the fuel itself | amounts are single litres |
| `KeyedSave` | drawers, their key store, the network, the idempotency middleware around one command | one kind of record at one station |
| `DemoLifecycle` | the platform's demo operations and the nightly job, commit by commit and provider call by provider call | what is seeded is left out |
| `DesktopUpdater` | the update coordinator, its awaits, the operator's buttons, the plugin, app restarts | progress and wording left out |
| `Sums`, `SumLemmas` | totals over rows, as a set function's sum; the facts about them that the proofs need | sums are over finite sets |
| `..._proofs` | theorems about the module named | TLAPS |
| `MC...` | instances for TLC | |

`ShiftTransactions` INSTANCEs `ShiftLifecycle` (refinement), which INSTANCEs `StationContract`
(refinement). `DrawerCash` and `FuelStock` take one aspect of a close each, which
`ShiftLifecycle` only counts (`booked`) or names (`posted`). Each action carries the name of the
use case it translates; `map` in `PROJECT.json` gives the lines.

`ShiftLifecycle`: `dayStatus`, `status`, `shiftDay` are the status columns and the foreign key;
`assigned`, `handed` the Drawers (Attendant and dispenser) of a Shift; `booked` how often the
readings were booked as Sale movements; `summary` the credit entries the stored
`shift_summaries` row lists; `posted` whether SHIFT_CLOSE ledger entries exist; `entry` the
`customer_transactions` rows; `dssr` the entries the day's snapshot lists; `dips` the Shifts a
`stock_variances` row names. A summary, a posting or a snapshot is the set of rows it was
computed from, which is what staleness is about.

`ShiftTransactions`: a transaction holds the first `pos` locks of its `Plan`; `Conflict` is
PostgreSQL's: FOR UPDATE conflicts with everything, FOR KEY SHARE only with FOR UPDATE. A
close's `read` is taken in `StartLoad`, before its Shift lock, because the statement's snapshot
is older than its wait. A forced report (`GenerateDssr` with `force`) locks nothing: it reads in
`ReadDay` and stores what it read later. Saving a snapshot is a delete and an insert under the
same id, with no unique constraint on station and date, so two saves can collide on the id;
`Collide` lets any report fail that way, which is more than can happen. Commit makes all writes visible and frees the locks; a
refused request rolls back.

`DrawerCash`: `pumped`, `received`, `slips`, `chits`, `dropped` are what happened at a dispenser
(DU); `metered`, `rows`, `product`, `handover`, `summary`, `posted` are what the office's tables
say. A handover freezes what its Drawer should hold; nothing refreshes it when a row of that
Drawer comes or goes afterwards. The ghost `stale` names the Drawers that happened to, `missing`
what a Drawer lacked at its handover (cash kept back, an undeclared drop, a chit nobody entered).
`Outdated(d)` is by how much a Drawer's frozen expectation differs from the one today's rows give,
`OnOwnTerminal(d)` what its Attendant sold by card on their own terminal.

`FuelStock`: `meter`, `tank`, `pumped` are the physical side, `opening`, `closing`, `testing`,
`log`, `book` the tables. An honest operator reads the true level and the true meter. The code
knows sales to Shift granularity and says so (`measurement.ts:147`); the ghost `quirks` records
when that approximation (`unread`), or a tanker measured ahead of an older one (`overtaken`),
affected a figure, and the exactness properties are about histories without them.

`KeyedSave`: a drawer (`body`, `current`, `waiting`) sends its body under the key `KeyFor` picks:
its session's, else an unsettled one of the app-wide store (`pending`, `held`) that the server
may hold for the same body, else a new one. A request (`job`) passes the stages sent, running or
finding, executed, answered; `row` is its key's `idempotency_keys` row. The request hash is the
body itself. The client may give up at any stage (`Drop`) while the server goes on. `Edit` changes
a form's body and keeps its session's key whatever the new body is, as `current ??=` does
(`submitKeys.ts:64`). What an operator does is assumed where no code decides it: they stop
entering a record once it is saved and do not save it while a save of it is under way. `mishaps`
remembers which faults happened, so that each property says which ones it withstands. Two ghosts
name the records that may land twice all the same: `forgotten`, those of the keys the store let go
because it was full (`MaxHeld`), and `strayed`, those a form sent under its own key although
another key was kept for them. `Replay` leaves out the 409 answers for a key used by another path
or another actor (`idempotency.ts:137-161`): one scope of the store is one kind of record, one
station and one login's app.

`DemoLifecycle`: `org` is the organisation's row with its users, `login` what the auth provider
has. Every operation is a `call` that goes from `step` to `step`, one commit or provider call at a
time. `Fault` is a provider that refuses, an answer that is lost, a failing statement, a profile
that cannot be read, or a Worker that is killed; `left` remembers the organisations over which an
operation broke off with nothing in the code to mend it. Admins switch an owner whenever they like,
several at once and beside the nightly job; `raced` remembers the organisations whose owner was
being reactivated while a stop of theirs was still under way. Assumed: an admin sees a demo
only once its create has committed, and a create does not last until the next day.

`DesktopUpdater`: each await of `coordinator.ts` is two actions, and clicks fall in between. A
button is pressed only where `UpdateNotice` or the status bar shows it (`Buttons`). `object` are
the plugin's update objects, `running` and `disk` the two versions; the plugin installs only what
it has downloaded. The one readiness provider answers in the same turn, so no click and no other
answer falls between the question and its answer (`Turn`). Nothing keeps a second relaunch from
starting while one is awaited: the buttons stay, and `ClickRelaunch` may be repeated. The
ghost `overtaken` is set when one of several relaunches has failed while another was still to answer.

## 3. Runs

| Run | Checks | Instance |
|---|---|---|
| `lifecycle` | the summary and the day's snapshot follow the credit entries; sealing, finality, handovers; `StationContract` with one open Shift | 2 Shifts, 2 days, 2 Drawers, 1 entry, 1 sale, 1 seller |
| `transactions_race` | consistency under races of all requests; canonical lock order; a verdict reached under locks stands until the commit; every request ends | 2 clients, 4 requests each, 1 Shift |
| `transactions_refine` | each transaction is one lifecycle step | 2 clients, 3 requests each, 2 Shifts |
| `drawer_cash` | Attendant and office variance, cash counted once, what the payment split misses | 2 DUs, 2 Attendants, 2 rupees of sales, 1 drop, float 0 or 1 |
| `fuel_books` | readings chain, sales follow meters, book follows tank, tankers counted once | 2 Shifts, 2 closes each, 2 tankers, 2 litres pumped, 1 tested |
| `keyed_save` | one effect per key and per record, no record forgotten, nothing called saved that is not | 2 drawers, 2 records, 2 requests at once, 2 keys |
| `demo` | rows and logins together, no ban outlives its stop, expiry respected, every demo goes | 1 demo, 2 requests at once, terms of 1 and 2 days, 1 fault of any of the five kinds |
| `updater` | phase names the call, offers are held, no process downgrades, silence and answers | 3 versions, 3 update objects, 2 calls, macOS and Windows |
| `lifecycle_rebooked`, `transactions_stale_cash`, `fuel_overtaken`, `drawer_split` | one disputed statement each, which the code violates (section 4) | an instance that shows it |

Every property of a run that expects no violation is also a theorem (section 5), the three
liveness properties excepted; a run checks it on an instance one can look at, and its mutants
in `PROJECT.json` show which mistake in the code would break it. The type invariant is checked in the
runs of `KeyedSave` and `FuelStock` and a theorem for every module, as are three further invariants
of `ShiftLifecycle` that TLC agreed to before they were proved (`OneOpenShift`,
`AccountsMatchStatus`, `SnapshotIffClosed`). The inductive invariants `FuelInv`, `CashInv`,
`AccessInv`, `OneThing` (until overtaken), `Found` and what `FoundInv` adds to the types hold on
the runs' instances too, as TLC confirms when given them.

Bounds.

- Lifecycle: two Shifts and two dates give every relation between Shifts (same day, earlier day,
  late opening of an earlier date); two closes per Shift (`MaxCloses`) include a re-close, which
  `Scope` allows to one of the Shifts. What a summary or a snapshot lists is decided entry by
  entry, so one entry, on time or late, on either Shift or on a day, shows what several would
  (the theorems are about any number). Symmetry over Shifts, entries and Drawers is used; the
  properties are invariants, action properties and a refinement, none of them liveness.
- Transactions: two clients suffice for every pairwise race and for a wait cycle; four requests
  each (`MaxRequests`) open, hand over, close, reopen and report while the other client records,
  voids, deletes and closes the day.
- Drawers: every figure is a sum of amounts with coefficients 1 and -1, so single rupees show
  what amounts do, as long as each source can be zero or not beside every other. Two DUs held by
  any of two Attendants give one Attendant with two DUs and two with one each.
- Fuel: `MaxShifts`, `MaxCloses`, `MaxTankers`, `MaxPumped`, `MaxTests` bound counters. The
  CONSTRAINT `Scope` of `fuel_books` does not explore on after a state with a quirk, or with both
  Shifts reopened: the properties say nothing beyond. Two tankers wait for one dip;
  a Shift between them sells.
- Keyed saves: two requests at once let a retry overtake the request it repeats, two keys let a
  record get a second one, two drawers share or race for a held key. `MaxKinds` allows one kind of
  fault per history. `Scope` allows a second key only in histories without a lost commit or a
  401, and does not explore on where two of these meet: a fault, a key let go, a record that strayed; nor
  where a record whose key was let go is saved again (the theorems have no such scope).
  `MaxHeld` is 1 (20 in the code), so that a second key in doubt pushes the first one out and the
  documented soft bound is reached; an app restart, which empties the store, is not modelled.
  The run is symmetric in drawers, records and requests, that of the drawers in Attendants.
- Demos: `MaxExpires` and `MaxDay` make every demo overdue in the end, and the day stays at `MaxDay`
  from then on. Two requests let a create, a delete or a switch of the owner meet a switch, and
  both meet the job. One fault per history breaks each operation at each of its steps; a second
  one could only break a rollback, which leaves the organisation to the exception the properties
  state (`left`), or break an independent operation. The theorems allow any number.
- Updater: three versions leave room for an update and a manifest rolled back below it. Two calls are
  two relaunches, the only calls that can overlap; a third object makes sure that a new offer finds
  one that no call is about. No symmetry here and in `demo`, which check liveness.

Deadlock checking is off in the transaction runs, whose clients stop when their requests are used
up, in the keyed run, which stops when the keys are used up and everything is saved, and in the
fuel runs, which stop when the Shifts and tankers are used up.

Fairness. `RequestsEnd`: WF of `Serve(t)`, the server continues a transaction it has begun (an
HTTP handler runs to its end). Clients are never obliged to ask. A transaction waiting for a lock
is served when the lock is free because each client has a bounded number of requests; no queue
order of PostgreSQL is assumed. `DemosGo`: WF of each step of an operation and of the job
(the runtime runs to its end what it does not kill), SF of `Tick` (time passes whatever admins
do, and the trigger fires daily). `AskedIsAnswered`: SF of `CheckReturns` (strong because a
readiness question shuts it out for a turn) and WF of the readiness answer. That the network
call behind a check ends is an assumption about the plugin.

## 4. What the code does otherwise than stated

With a run, quoted in `findings` of `PROJECT.json`:

- `MeteredSalesBookedOnce`: a re-close books the metered Sale movements a second time.
- `CounterCashIsCounted`: the close's one-statement load is older than the wait for the lock, so a
  counter sale that commits meanwhile is missing from the posted cash.
- `LaterTankerCountedOnce`: a tanker measured by its own after dip while an older one is pending is
  counted again in the older one's receipt.
- `SplitAddsUp`: a card or UPI product sale on an Attendant's own terminal is in the card total they
  declare but not in what the Drawer should hold, so it shows as a surplus and the split lacks it,
  with no stale Drawer (`compose-shift-sales.ts:89`).

Met while modelling, without a run:

- Locks. `CloseShift` and the voids start at the Shift row, and the foreign keys of their inserts
  then lock its parents; gated writes come from the other side. PostgreSQL aborts one
  (`DeadlockAbort`). Deleting a merchandise handover checks and deletes without a lock, so it can
  follow the close; a summary may keep a row that is gone (`SummaryMatchesTables` allows that much).
- Reports. `routes/dssr.ts` calls a stored snapshot immutable and `PRODUCT.md:68` too; `force`
  replaces it, and may do so without a late credit that commits meanwhile.
  `RefreshShiftSummary` changes a LOCKED Shift's summary (`lock-shift.ts:21`).
- Keys. Nothing releases the reservation of a worker that died. A 401 on a retry is taken for the
  answer to the first send, and a commit whose acknowledgement fails releases its key
  (`idempotency.ts:95`): both can land a record twice, and `BodyLandsOnce` excludes them.
- Drawers. Rows recorded or voided after a Drawer's handover, and readings corrected at the close,
  leave its frozen figures as they were (`Outdated` in `SplitAccountedFor`); a cash sale of an
  Attendant who has handed over is counted nowhere. When every credit row of a Shift is voided the
  split falls back to the credit the handovers declared (`VoidedCredit`). Rows that name no DU are in
  the credit total and in no Drawer. While an Attendant with two DUs has handed over only the second,
  their product cash is counted nowhere.
- Keys, again. A form that keeps its own unsettled key (`submitKeys.ts:64`) and is edited into a
  record that another key is kept for lands it a second time, after nothing but dropped
  answers, against `submitKeys.ts:17` ("Closing after a network drop and entering the same slip again
  cannot record it twice"). `BodyLandsOnce` without `strayed` is violated, in a scenario of one
  drawer and two records.
- Updates. `coordinator.ts:293` starts a second relaunch while one is awaited. If both fail and the
  operator has checked again in between, the second failure offers to retry an install over an
  offer that was never downloaded: `OfferIsHeld` without `overtaken` is violated. After an update
  was installed and not relaunched, a manifest rolled back to a version between the running one and
  the one on disk is offered and installed (`coordinator.ts:169`): the disk goes back, though no
  process does (`NoDowngrade`); `docs/desktop-updates.md:450` says there is no downgrade path. A failed
  relaunch offers "Retry install", and Dismiss then hides that a restart is due (`coordinator.ts:314`).
- Demos. When the new owner's profile cannot be read, the rollback does not know the organisation
  (`demo-lifecycle.ts:489`), and the ordinary one the auth trigger made stays, against the comment at
  `demo-lifecycle.ts:337`: `NoStrayOrganization` with no exception is violated by fault `"profile"` alone.
  A reactivation that overlaps a stop, the job's or another admin's, can leave a running demo whose
  owner is banned: `RunningCanSignIn` without `raced` is violated with no fault at all. Expiry bans
  every login of a demo and Reactivate lifts only the owner's ban, with no race. Both are against the
  comment at `demo-lifecycle.ts:646`. An extension between the job's list and its delete is lost. A
  kill between the job's commit and its ban leaves a stopped demo whose logins work, never retried. A
  kill, a login delete that fails or an answer that is lost leaves orphaned logins (`left`). A
  reset while an attendant's login is being linked loses the link.

## 5. Proofs

All theorems hold for every value of the constants, under the named assumptions in each module
(bounds are naturals, values for "absent" are none of the real ones) and nothing else unless said.

`ShiftLifecycle_proofs` (`LifecycleAssumption`, `NoEntryAssumption`):

1. `TypeCorrect`: `TypeOK /\ ShiftsHaveDays` is inductive. The second conjunct is the
   strengthening all others need, since `DayOf(s)` is meaningless without it.
2. `OneShiftRuns`, `DaySealing`: `OneOpenShift /\ SealedDayHasNoOpenShift`, inductive relative to 1.
   The lock of a Shift and the close of a day each need the other half.
3. `StockStaysSealed`: from 2, no step changes the stock records of a closed day. A step that
   writes them is gated by the day's status, or by a running Shift, which 2 keeps off closed days.
4. `ClosingFinality`: from 2, a closed day stays closed and a locked Shift locked, because the
   day of a locked Shift is closed and `ReopenShift` refuses those.
5. `HandedOver`: `SettledShiftsAreHandedOver`, inductive with the types.
6. `SettledAccounts` (`AccountsMatchStatus`) and `SummariesFollowLedger` (`SummaryTracksLedger`),
   inductive together relative to 2; `StatusKept` and `AccountsKept` do the steps that touch neither.
7. `ClosedDaysAreReported` (`SnapshotIffClosed`) and `DayReporting` (`OnTimeCreditIsReported`).
8. `ContractRefinement`: initial states and steps map to `StationContract`.

`ShiftTransactions_proofs` (`TransactionAssumption`, `AbsentAssumption`):

1. `CanonicalLockOrder`: `PlansFollowed` (a transaction holds the first locks of its plan) is
   inductive; locks have ranks, a canonical plan ascends in them, so along a chain of waits the
   wanted rank grows and a finite set of requests cannot wait in a circle.
2. `TransactionTypes`: the invariant `Types` adds to `TypeOK` that a close or report past its
   read has one (`ReadsFirst`) and that Shifts asked about exist (`ShiftsAreThere`).
3. `SummariesHold`, `PostingsHold`, `ReportsHold`: the invariant `Books` ties what a waiting
   transaction remembers to the tables. `RowsMeant`: entries and sales are where their rows say.
   `ReadsHold`: what a close read of the cash is still there when it commits, and what a report
   read contains every entry that is not late. `ShiftBooks`: the accounts of one settled Shift.
4. `SalesNeedARunningShift`: a sale that commits holds the locks of the rows its guard reads
   (`CommitHolds`), so what it checked is true at its commit.
5. `VerdictsOutliveTheWait` (`VerdictsStand`): from `LocksExclude` (no two transactions hold
   conflicting locks), nobody but the holder writes the rows a verdict rests on. This is why the
   model may evaluate a request's guards at its commit although the code evaluates them earlier,
   and it says of the code that each check is made under a lock that protects it.
6. `LifecycleRefinement` (`ImplementsLifecycle`): each commit is one action of `ShiftLifecycle`, the
   action of its use case, and every other step a stutter. The invariant `Found` adds to `Books` what
   a request found before it had its locks and nobody takes away: a row about to be inserted is not
   there and is inserted by no other (`RowsToCome`), handovers stay (`HandedStays`). `Budget`
   bounds the closes of a Shift by the requests all clients are through with, a sum over clients,
   which is what maps to `MaxCloses`. One lemma per kind of request (`OpenRefines` ...
   `MerchRefines`). It assumes finitely many clients, for that sum, and no
   merchandise deletes and forced reports among the `Kinds`: those two take no locks, and what
   they do after a close or from a read of the past is not one atomic step of
   `ShiftLifecycle`. What holds in spite of them is 2 to 5, which allow all kinds.

`KeyedSave_proofs`:

1. `OneEffectPerKey`: unless a commit's acknowledgement failed, at most one command commits under a
   key. The invariant is about the server alone: a request past its reservation owns the key's
   row, no two do, and a key under which something landed is still reserved.
2. `SavedIsRecorded`: an answer "saved", on the wire or in a row, is of a body that was recorded
   (`SayInv`); the conflict answer is what keeps a replay from speaking for another body.
3. `SaveTypes` (`TypeOK`), with `StoreInv`: the store's list has no key twice, a waiting drawer has a
   record and the key its request carries, and an empty form has none. `WithoutFacts`, `HoldFacts`
   and `SettleFacts` say what removing, appending and dropping the oldest do to such a list.
4. `OneRecordPerEntry` (`BodyLandsOnce`) and `LandedIsFound` (`LandedIsAnsweredOrHeld`), both while
   only crashes happen and for records whose key was not let go. A key may still land a record when a
   request is on its way with it or it reserved the key, and no decision has ruled that out
   (`Claims`). `FoundInv` says that at most one key does (`OneClaim`), that of a record the operator
   is not sure of the session, the store and the server mean the same key (`OneKey`), both but for
   records that strayed, and that such a key is in the store or awaited by a drawer (`Findable`,
   `StillHeld`), also that of a record that strayed: it may land twice, and is not lost.

`FuelStock_proofs`:

1. `ReadingsChain` (`MeterContinuity`). The invariant `Continuity` says in addition that a Shift with
   a successor runs only if it was reopened, which is what keeps a new closing reading out of the
   middle of the chain.
2. `FuelTypes`, `SalesAreMetered` (`SalesFollowMeters`), `DipsAdjustNothing` (`NoPhantomVariance`),
   `TankersAreMeasuredExactly` (`ReceivedIsUnloaded`), `BookIsTank` (`BookFollowsTank`), from one invariant
   `FuelInv`. `ReadingOrder` keeps every litre count from going negative. `SalesBooked` says what is
   booked while a Shift runs, where `SalesFollowMeters` speaks of the time between. `TankLevel` is
   physics: level and pumped litres are what was unloaded, now and at each before dip.
   `ExactBooks` is about histories without an approximation: each tanker found all pumped litres
   booked, the measured ones come before the pending ones, and the books are even. The heart is
   `ReceivedIsLitres`: the difference of two dips and the sales between them is one tanker, however
   many wait, because the next tanker's before dip ends the window of the one before.

`DrawerCash_proofs`:

1. `ChargedWithTheShortage` (`VarianceIsShortage`). `Books`: what was sold at a DU equals what was
   taken for it, in cash, on the terminal or by a chit, entered or not. `Judged`: a
   handover's variance is the Drawer's real shortage by the rows of its moment. `Repeated`: the
   summary repeats the handovers.
2. `DrawerTypes`, `BucketsAccountedFor` (`SplitAccountedFor`), `OfficeIsEven` (`OfficeIsNotBlamed`),
   `CashIsCountedOnce` (`NoCashCountedTwice`), from `CashInv`: a declared rupee came out of the
   pouch it is declared for and a counter sale of a seller who holds a Drawer went into it
   (`Pouches`); a handover's variance is its cash less its expectation, and the expectation of a
   Drawer that is not stale is what today's rows give (`Frozen`); the figures of a closed Shift, late
   rows and corrections included, still say what its rows say (`Reported`); a Drawer's product cash is
   counted at one DU of its Attendant's only. `BucketsMakeUpTheSales` sums the Drawers: what is left
   between the split and the total is the three terms of `SplitAccountedFor`, for stale Drawers too.

`DemoLifecycle_proofs`, with every kind of fault and any number of admins: `DemoTypes`;
`JobKeepsToExpiries` (`JobVerdict`: what the job has decided about a demo it has locked is still
so); `BooksMatch` (`BooksInv`: at every step of an operation, the logins that exist are those the rows
link and those the operation still knows) and `NoStrays` (`NoneForgotten`: an organisation that is no
demo is one that a create or its rollback still knows); `RunningOwnersSignIn` (`RunningCanSignIn`):
`Access` says of each step of an operation who has been let in by then (an owner is let in before the
demo runs; only a stop shuts one out), `Calm` that only the job expires and that outside `raced` no
reactivation goes on beside a stop, so that no ban is still to come when an owner is let in.
The exceptions are those the code needs (section 4): an organisation whose profile read failed is
in `left`, one that was reactivated during a stop in `raced`.

`DesktopUpdater_proofs`: `UpdaterTypes`; `VersionsGoForward` (`OnlyNewer`: the disk is never older
than the process, and every object in use is newer than it); `OneCallAtATime` and `OffersAreHeld`,
from the invariant `overtaken \/ OneThing`: until one relaunch's failure overtakes another's answer,
one thing is under way, or relaunches of one downloaded offer are, and no step but that
failure ends it (`RelaunchThing`). `ChecksAreSilent` (`SilentUnlessAsked`): a check under way that a
click started or joined owes an answer (`AskedIsOwed`), and only such a check puts its outcome on
screen, overtaken or not.

`SumLemmas` has what these proofs need of `Sum`: that it exists and is unique, its value when an
element is added, removed or changed, when a set is split, when two functions are compared or
added. Induction is over a set in place of a predicate (`NatSetInduction`, `SubsetInduction`, from
the smallest counterexample), since the library's induction theorems take an operator; for the
same reason totals are written with `Sum` over a set of rows and no recursion over a list.

Only model-checked: liveness (`RequestsEnd`, `DemosGo`, `AskedIsAnswered`), which rests on fairness and
so on ENABLED, outside what the provers used here can do; and the four disputed statements, which
the runs refute.

## 6. Not modelled

- Purchasing, finance and office records: one row each, written or reversed with its ledger
  entries in one transaction; how a record's save is retried is in `KeyedSave`. The value of stock
  (weighted average cost) that links an invoice to a receipt is left out of `FuelStock`.
- Organisation access: decision functions over a subscription, its limits and permissions; a
  limit is decided under a lock on the organisation's row in the transaction it guards.
- Station setup: edits of rows, with no protocol of their own. Reports and range KPIs: read-only
  projections. Screens: presentation. UI query cache: what it derives is never sent back.
- In modelled parts: prices, taxes, event payloads, credit limits, account choice and double entry
  in postings; drafts, edits and density readings of decantations; item shelf counts (the same
  formula without tankers); resending and revoking invites; staff that the owner of a demo invites; the loss
  of held keys at an app restart.

The repository is mostly screens, routes that parse and authorise, and schema; the models cover
the part that keeps state between requests, which is a small share of its lines.

## 7. What could follow

1. `LifecycleRefinement` without its condition on the kinds of requests: a refinement of a weaker
   abstract specification, in which a merchandise row may go after the close.
2. `FuelStock` with several nozzles and tanks; its book properties for histories with a reopening
   (what a re-close books twice, as a term of the sum); the valuation of stock on top.
3. `OneRecordPerEntry` with an app restart, which empties the key store as `MaxHeld` does, and with a
   second operator.
4. Capacity claims of organisation access, against two logins or stations created at once.
