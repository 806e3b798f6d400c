# Verification of the ticket booking backend

TLA+ models of the backend under `src/backend/src` (FastAPI, SQLAlchemy on
PostgreSQL, KeyDB/Redis, TaskIQ, Kafka), the TLC runs that check them and the
TLAPS proofs about them. Paths below are relative to `src/backend/src` unless
they begin with `src/`.

## 1. Inventory

| Component | State it keeps | Operations | Hard behaviour |
| --- | --- | --- | --- |
| Order booking, `modules/order/services.py` `create` | rows of `orders`, `order_items`, `tickets` | one transaction: `SELECT ... FOR UPDATE` with a quota condition, refusal, inserts, commit; then a task | concurrent bookings of the last seats, stale counts, deadlocks, a crash after the commit |
| Order settlement, same file, `confirm_payment`, `expire_order` | `orders.status`, `tickets.status` | guarded `UPDATE`, second query on a miss, tickets, commit; mail | payment against expiry, repetition, partial failure |
| Anonymous orders, same file, `migrate_anonymous_orders` | `orders.user_id`, `anonymous_email` | a task queued by the registration | bookings that come later, lost tasks |
| Ticket categories, `modules/ticket` | `ticket_categories.total_quantity` | create, update, delete by the owner while the event is a draft | read-then-write against publish and bookings |
| Background tasks, `core/infra/tasks` | Redis schedule entries, the broker's list | `perform_task` with or without delay; scheduler; worker | duplicated and lost tasks, colliding ids |
| Events, `modules/event` | `events.state`, category tree | create, create_category, publish, update, cancel, moderate | owners against moderators, answers from a second query, check-then-insert |
| Idempotency layer, `core/infra/transport/http/idempotency` | Redis answers and locks | the `wrapper` of `POST /orders` and `PATCH /orders/{id}/pay` | lock timeouts, exceptions that re-run the endpoint, TTLs |
| Response cache, `core/infra/transport/http/cache` | version keys and cached bodies | `cached_endpoint`, `invalidates_cache` | late stores and late versions, equal milliseconds, missing invalidations |
| View counters, `modules/views`, `workers/view_logs` | Redis counter and HyperLogLog, Kafka messages, `view_logs` | increment, read through, batch insert | lost or double counts, redelivery, a lock nobody releases |
| Users, `modules/user`, and `create-user` | role, `is_active`, tokens | register, login, apply, verify, ban, unban | second queries after a missed `UPDATE`, tokens made from an old row |
| Unit of work and query builder, `core/infra/database` | session, depth, savepoints; filters | enter, exit, commit; filters to SQL | what a rolled back block leaves; filters that are dropped |
| Mail, metrics, seeding, routing, schemas | none of interest | | I/O or wiring |

How they meet: routes call services; services share PostgreSQL through one
unit of work per request (READ COMMITTED, commit inside `async with`) and hand
work to TaskIQ after the commit; workers call the same services; the two
decorators wrap routes and share Redis with TaskIQ and the counters. Nothing but
row locks and the Redis locks orders two requests.

What makes each correct:

* booking: never more tickets than `total_quantity`; refused only for lack of
  seats; every booking ends;
* settlement: tickets agree with the status of their order; a settled order is
  final; an answer "paid" is true; held tickets come back;
* tasks: an unpaid order's cancellation is never forgotten;
* anonymous orders: an order without a user gets its user once the address is
  registered, and no other one;
* idempotency: one key, one order; every call is answered;
* events: what a client was told stays true; a submitted event is frozen;
  events hang on leaves;
* response cache: nobody is shown data from before an invalidation;
* views: a view is neither lost nor counted twice; the log reaches the table;
* users: answers are true; a token shows the account;
* data layer: a failed block leaves nothing; reading, changing, deleting and
  counting mean the same rows.

## 2. Modules

| Module | What it is |
| --- | --- |
| `Reservation` | `OrderService.create` statement by statement, plus the owner's `update` and `publish` |
| `Tasks` | schedule source, scheduler and broker list |
| `Booking` | `Reservation` and `Tasks` composed with `confirm_payment` and `expire_order` |
| `TicketLedger` | abstract specification: reserve, settle or give back all tickets of an order in one step |
| `Idempotency` | the wrapper await by await, with failures and TTLs |
| `Events` | the event operations and the category tree |
| `EventLifecycle` | abstract specification: the chart of an event's life, one arrow in one step |
| `ViewCounts` | `increment_views`, `get_views`, the Kafka topic and the worker |
| `ResponseCache` | `cached_endpoint` and `invalidates_cache` for one tag |
| `Accounts` | registration, login, roles and bans, and the transfer of anonymous orders |
| `DataLayer` | the unit of work in nested blocks, and what the query builder makes of filters |
| `MCReservation`, `MCBooking`, `MCIdempotency`, `MCAccounts`, `MCDataLayer` | values of the constants for TLC |
| `ReservationProofs`, `BookingProofs`, `IdempotencyProofs`, `EventsProofs`, `ViewCountsProofs`, `ResponseCacheProofs`, `AccountsProofs`, `DataLayerProofs` | theorems |

Operators whose name ends in `_Something` after the name of another operator
(`HasRoom_Strict`) are deliberate bugs next to the definition they would
replace; no specification uses them. They document how each property can be
lost. Variables marked as history record what happened and are read by
properties only.

### Reservation

A row lock is `catLock`; everything else is committed state, so one action is
one SQL statement, lock grant or commit. `Select` takes the snapshot (`seen` is
the `COUNT(tickets)` of every category in it). `LockRow` grants one row: as in
PostgreSQL, a row that changed since the snapshot is evaluated again with its
new columns, but the subquery still reads the old snapshot; `HasRoom` is
therefore called with the current `total` and the old `seen`. Rows are locked in
any order, because the query has no `ORDER BY`. `Commit` makes the order, its
items and its tickets visible together; `Answer` and `FailAfterCommit` are what
may happen between commit and response. `lines` stands for the request and for
`order_items`; `Asked` follows the dict comprehension (the last line of a
category wins), `Rows` the list that is inserted (every line counts).

`ValidateEdit` is the unlocked read of the event's status, `ApplyEdit` the
`UPDATE` and commit. `edits` remembers validated edits, so any number of owners'
requests can be between the two. All categories belong to one event.

### Tasks and Booking

A delayed task is in `schedule` from `perform_task` on; `sending` holds entries
that were kicked but not deleted, so that a restart kicks them again; `queue` is
the broker's list, from which a worker pops a message for good. There is no
clock: an entry may be due at any time, which covers 900 s and every delay.

`job`, `step` and `touched` are the local state of payers and workers. The
guarded `UPDATE` is `ClaimOrder` (it waits for `ordLock`) or `MissOrder`, after
which anything may happen before `Reread`, the `SELECT` that decides the answer; the
tickets statement is `TouchTickets`, the commit is `PayCommit` or `ExpireCommit`.
`lost` and `confirmed` are history: cancellations lost in one of the three ways
the code allows, and orders a payer was told are paid. `faults` bounds crashes.

### Idempotency

Every Redis call is an action, since it is an `await`. `then` is what follows
the release of the lock: the return, or the generic `except` that runs the
endpoint once more (`bare`). `slipped` records for each key that the wrapper gave
up its protection: lock timeout, endpoint exception, failing Redis call, crash
or TTL. An endpoint may fail before its commit (`RunRefuses`) or after it
(`RunRaises`); either way the wrapper runs it once more. The stored answer is the
identity of the call that stored it.

### Events

`From` and `To` are the states in the `WHERE` and `SET` clauses. `Match` is an
UPDATE that found and locked the row, `Miss` one that did not, followed by the
`Reread` that chooses between success and an error. `told` is history: what
clients were told succeeded. `CheckCategory` leaves out the leaf condition
because the query builder drops it (see section 5). Ownership is not modelled:
a request of a stranger finds no row and changes nothing. `EventLifecycle` is
what a caller may rely on: `Create`, `Edit`, `Move` along an arrow of the chart,
and `Repeat`, the answer to who asks for a move that was made. `Lifecycle` maps
it to the variables of the same names.

### ViewCounts

A view passes three stores: `hll` decides whether a visitor is new (and may take
a new one for known, as a HyperLogLog may), `counter` is the number shown, and
`logs` is the table, unique per object and visitor. `PfAdd`, `Incr` and `Send`
are the three awaits of `increment_views`, in the list and the single form alike
(the single form is a list of one); `PfAddFails` and `IncrFails` are the
`except CacheUnavailableError` branches, which send every object whether new or
not; `Die` is a crash, or a producer that fails. `TakeBatch`, `InsertBatch`,
`InsertTwice`, `Redeliver` and `SkipBatch` are the consumer around its offset. `Get` to
`Direct` are `get_views`: with a lock for one object, without for a list, and the
plain query when Redis fails; `Handover` is the release of the lock, `Abandoned`
a lock whose owner is gone. Keys run out in `HllExpires`, `CounterExpires` and
`LockExpires`. `ids` is kept while a request runs, `newViews` counts how often a
view of an object passed for a new one, `forgotten` holds the views dropped
between two stores.

### ResponseCache

One tag and one query, since keys of different tags and queries are disjoint.
`now` is the clock in milliseconds, `revision` the data behind the endpoint,
`version` the key `<tag>:version`, `body[t]` the response cached under version
`t`. A reader goes through `GetVersions`, `SetVersion` (only when it found none),
`GetBody`, `Query` and `Store`; any exception leads to `Bypass`, the endpoint
without cache. A writer commits (`Change`), takes the time (`Stamp`), and sets the
version (`Invalidate`). `Edit` is a change that no `invalidates_cache` follows.
`floor` and `since` are history: the last revision whose invalidation is complete,
and its value when a reader began. `reused` says that a millisecond was taken for
a version twice.

### Accounts

A user is its e-mail address. Each handler is a transaction of at most two
statements, so `pc` distinguishes the insert, the `UPDATE` that decides, the
reread after a miss, and the task that is queued after the commit. Registration
and `create-user` are `CheckEmail`, `InsertUser` or `CommandInserts`, then
`Publish` or `PublishFails`; the login is `LoginReads` and `Authenticate`, with the
slow password check between them (`pc` is "verify"); application, verdicts and bans are
`StartCall`, `Update`, `Reread`, where `Matches` is the `WHERE` clause, `Applied` the
`SET`, and `Verdict` and `Expected` what the code makes of a miss. `BookFor`,
`CommitOwned` and `CommitAnonymous` are bookings with and without a token,
`MigrateAnonymousOrders` is the task, and `TransferFails` loses it. `arrived`
chooses which requests come in a behaviour. `raced`, `late`, `dropped` and
`migrated` are history.

### DataLayer

`session`, `readonly`, `depth` and `stack` are the fields of
`SQLAlchemyUnitOfWork`; `EnterFlat` (the outer block, and any block of a read-only
session), `EnterNested`, `EnterFails`, `ExitNested`, `ExitUnmatched`, `ExitReadonly`,
`ExitOuter` and `Commit` are the branches of `__aenter__`, `__aexit__` and `commit`.
`aborted` is PostgreSQL's "current transaction is aborted", which
`StatementFails` causes. `Delete`, `Update` and `Create` are the statements; `Raise`
and `Catch` are the exceptions of the code between them. `blocks` is what each
open block found when it was entered, which it has to leave when it fails;
`leaked` says that a `SAVEPOINT` failed after `depth` was raised.

The query builder is the pure part. A filter is a path of names; `Filter` adds one
as the keyword dictionary does, `Resolve` and `Conditions` follow `resolver.py` and
`applier.py`, and `Selected`, `Deleted`, `Updated`, `Get`, `Count`, `Exists` and
`Paginate` are what `all`, `delete`, `update` and the others do with the
conditions. They are compared with each other and with `Meant`, what a filter says
by the naming convention.

## 3. Runs

| Run | Instance | Shows |
| --- | --- | --- |
| `ReserveConcurrent` | 2 orders, 2 categories, requests that lock both or name one twice, 2 in flight, the owner shrinks categories and publishes; fairness | a granted row has room under its lock; a commit oversells a category only by a count that became stale, or when the order names a category twice; refusals are justified; locks end with their transaction; deadlocks are broken and every booking ends |
| `BookingTasks` | 2 orders, 1 category of 2 seats, 1 payer, 1 worker, no resizes, 1 fault; fairness | payment and expiry exclude each other, tickets follow the status, "paid" is true, the only ways a cancellation is lost, otherwise tickets are paid for or come back; the composition implements `TicketLedger` |
| `IdempotentCalls` | 3 calls, 2 keys, 2 faults, 1 expiry; fairness | no second order without an escape; one call books once unless Redis failed; a stored answer stays; nobody waits for ever |
| `EventRequests` | 1 event, 2 categories, 2 sessions; fairness | answers stay true; the statements implement `EventLifecycle`, so a submitted event is frozen; every request is answered |
| `ViewCounts` | 2 objects, 1 visitor, 2 requests, 1 reader, batches of 1, 1 fault, 1 expiry; one counter starts under an abandoned lock; fairness | no view is lost unseen, none is counted twice, the topic reaches the table, every read ends |
| `CachedReads` | 2 readers, 1 writer, 3 clock values, 1 edit without invalidation, 1 fault | a reader after an invalidation sees nothing older unless a millisecond was used twice |
| `Accounts` | 2 addresses, one of an administrator, 4 sets of requests that come together, 1 fault; fairness | orders stay with their address; what an orphan needs; true verdicts; absurd answers and outdated tokens need a race; transfers arrive |
| `DataLayer` | 2 tickets of 2 items of 2 orders, 12 queries, 3 blocks, 2 writes, 1 fault | the bookkeeping follows the blocks; a failed block leaves nothing; what dropped filters do; which statements mean the same rows |
| `OversellRace` | 2 orders, 1 seat | violated, see section 5 |
| `EditAfterPublish` | 1 order, 1 category, 2 sizes to change to | violated, see section 5 |
| `LeafCheck` | 1 event, 2 categories, 1 session | violated, see section 5 |
| `SubcategoryRace` | 1 event, 2 categories, 2 sessions (with one the property holds) | violated, see section 5 |

Why the bounds are enough for what they are asked. An oversold seat needs two
bookings and one category, a lock cycle two categories and two bookings. Payment
against expiry needs one of each, and since sessions go back to idle a payer and
a worker act any number of times; two orders are what it takes for schedule ids
to collide. The owner's resizes meet bookings in `ReserveConcurrent`; settlement reads
no total. The idempotency wrapper needs a holder, a waiter and a late retry.
One event and two sessions contain every pair of operations, and requests about
different events share nothing but the category tree. Two requests of one visitor
for overlapping sets of objects contain every race of increments, and one reader
every race of a refill with them, because a refill takes no part in another but
through the counter. A stale answer of the cache needs a reader that stores late
and one that comes after the invalidation; a second change comes from `Edit`; three
milliseconds give both readers and the writer a version of their own. The four
arrival sets of `Accounts` put together what can meet on one row: two registrations
of an address with `create-user` and orders, a login with a ban, calls with each other. In
`DataLayer` three blocks are an outer one, a nested one and one inside it,
and two items and orders are what it takes for an `UPDATE` without its join to hit a row too many.

Bounds named in the modules: `MaxInFlight`, `MaxFaults`, `MaxExpiries`, `MaxBatch`,
`MaxNow`, `MaxEdits`, `MaxBlocks`, `MaxWrites`. The theorems of section 4 hold for any
value of those they reach.

Deadlock checking is off where the system can come to rest because orders, calls,
requests or the clock run out (`Reservation`, `Booking`, `Idempotency`, `ViewCounts`,
`ResponseCache`, `Accounts`). It is on for `Events` and `DataLayer`.

### Fairness

* a coroutine that can go on does: the event loop and the pools are fair (weak
  fairness of each session's next step in `Booking` and `Idempotency`, of each
  reader's in `ViewCounts`, of the publication after a registration in `Accounts`);
* PostgreSQL grants a free row lock to a waiter, and breaks a deadlock after
  `deadlock_timeout` (`Deadlocked(o) /\ Abort(o)` is weakly fair). In `Events`
  requests for a row come again and again, so waiters need strong fairness: the
  lock queue is first come, first served;
* the scheduler sends due entries, a free worker pops the list, the consumer of
  the view log polls its topic;
* nobody has to book, pay, publish, register, view or fail.

`ViewCounts` makes no promise for the requests that increment: a client may
disconnect, and `Die` is always possible.

## 4. Proofs

Checked by TLAPS for all values of the constants allowed by the named assumptions
`ReservationAssumption`, `BookingAssumption`, `IdempotencyAssumption`,
`EventsAssumption`, `ViewCountsAssumption`, `CacheAssumption`, `AccountsAssumption`,
`DataLayerAssumption` and `FilterAssumption`. They ask that the names of nobody and
nothing (`NoOrder`, `Nothing`, ...) are not real ones, that bounds are numbers, and,
for the views, that objects, visitors and requests are finite sets. Of the data layer
they also ask that the table is finite, that every ticket has an item (booking makes
tickets from items and nothing deletes items), and that filters are written the way
the services write them: a column, a relation before it, an operator after it, and a status
compared with statuses. Longer paths (`order_item__order__user_id`) are outside.

Every safety property of a passing run is a theorem (`RefusedOnlyWhenShort` under the
hypothesis named below, which its run meets). `NoOversell`, which `OversellRace` violates,
is proved where its causes are absent. Two more theorems (`SettlementIsFinal`,
`SubmittedEventsAreFrozen`) state what the runs check as a part of
`ImplementsLedger` and `ImplementsLifecycle`.

`ReservationProofs`. `ReservationTypeCorrect` is direct. `AdmissionIsWithinTotal`
(`GrantedFits`) is not inductive: it needs that a granted row is still locked by
its order, because `ApplyEdit` waits for exactly that lock, and that granted
rows were asked for. `ReservationInv` states both.

`RefusalsAreJustified` compares a refusal with the tickets of the moment, not
with the snapshot it was judged by. Its invariant `RefusalInv`: a snapshot never
counts more than there is, and a category that was passed over is still short.
An owner who enlarges a category under a waiting booking would break the second,
hence the hypothesis `OnlyShrinks`.

`OnlyRacesOversell` says which cause of overselling is a race: with no repeated
category in an order (`NoRequestRepeats`: only the last line is checked while all
are inserted, `modules/order/services.py:26`), no category made smaller
(`OnlyEnlarges`), and no two transactions that overlap and share a category
(`NoRaces`), `NoOversell` holds. `SalesInv` says that what an open booking read is
still enough; bookings of other categories may run beside it.
`SerialBookingNeverOversells`, with one booking at a time and no resizes, is a
corollary, and `OversellRace` is the behaviour `NoRaces` excludes.
`OnlyEarlierEditsApply` does the same for `EditAfterPublish`: if no edit is between
its check and its `UPDATE` at the publication, the published categories stay.

`OnlyStaleCountsOversell` looks at the single commit, with any resizes and any overlap:
one that oversells was judged by a count from before another order's commit, or names a
category twice. It rests on the same facts as `AdmissionIsWithinTotal`.

`LocksEndWithTransactions` follows every way a booking can end; from it and the
definition of a deadlock, `DeadlockNeedsTwo` walks from a waiting booking to the
holder of its row and on to the next one: both ask for two categories.

`BookingProofs`. The conjuncts of `BookingInv` are the type invariant; the
reservation invariant; that phase and status agree; that a session past its
first `UPDATE` holds the row lock of a pending order, and that the tickets it
has touched are those of the order; that tickets follow the status; that every
answer is true; that an unpaid order is tracked; and that scheduled and queued
cancellations are of committed orders, so that a worker whose `UPDATE` misses finds a
settled order at its `Reread`. From it follow `TypeCorrect`,
`TicketsAlwaysFollowStatus`, `ConfirmationIsTrue`, `NoOtherLoss`, `SettlementIsFinal`
and `BookingImplementsLedger`, in which every step maps to `Reserve`, `Settle`,
`GiveBack` or a stutter. `AdmissionStaysWithinTotal` and `SettlingNeverOversells` carry
the two reservation results over: an expiry deletes tickets a snapshot may still
count, which only makes the snapshot more careful.

`IdempotencyProofs`. That one key makes one order is not inductive. `HolderIsInside`:
as long as the lock has not run out, a call between its second look and its
release holds the lock, and finds the key empty until it stores. `OrderIsStored`:
the order of a key that did not slip is under the key, or its maker is about to
store it. `OrderOfCall` counts the orders of a call while nothing fails. From them
follow `OneOrderForAKey`, `OneOrderForACall` and `AnswersAreStable`.

`EventsProofs`. `SessionsInv` ties each session's next step to its operation: a
session between its `UPDATE` and its commit has the row locked, and the row is
in a state of its `WHERE` clause. With the state chart (`StateChart`: no
operation leads away from a moderated or cancelled event) this gives
`AnswersStayTrue` and `SubmittedEventsAreFrozen`. For `EventsImplementLifecycle` a
commit is an arrow (`ArrowOfMove`: a matched row is where the arrow begins), a
successful reread is a `Repeat`, an insert a `Create`, and every other step, checks,
locks and failures, a stutter.

`ViewCountsProofs`. `EveryVisitIsKept` needs `IdsAreKept`: all a request was called
for is kept, also what it does not send because others passed for new.
`NothingCountedTwice` needs `CountsInv`: for each object, the visitors sent plus the
requests yet to send are no more than the views that passed for new ones, and
neither is the counter plus the requests yet to increment it; the same for the
number a reader has counted and not set yet. The two sums are there because a
refill turns the first into the second, and `INCR` comes before the message.

`ResponseCacheProofs`. Without `reused`: a version that waits to be set belongs to
its taker alone and nothing is stored under it (`SetOnce`), so a late `SET` puts an empty version in
force; the version in force shows nothing from before the last
invalidation (`VersionIsFresh`), the version of a reader nothing from before its
own start (`ReadersAreFresh`). `ReadsAreFresh` follows.

`AccountsProofs`. `Underway` and `OrdersOfEndedBookings` are what the handlers have
in hand; `EveryAccountHasTransfer` says where the transfer of an account is, which
makes `OrphansAreExplained` inductive; `VerifiedIsThere` adds that accounts are not
deleted; `KnowsItsRow` says what a call that has not raced knows of its row, from
which `ParadoxOnlyByRace` and `TokensAreCurrent` follow.

`DataLayerProofs`, the unit of work. `BlocksInv` adds to the types and to
`BookkeepingFollowsBlocks` what makes a failure undoable (`CanBeUndone`): each block
of a writing session that was not committed finds the table it was entered with in
its own savepoint, the outermost one in what is committed. A savepoint that fails
(`leaked`) and a read-only session (AUTOCOMMIT) are exempt, as in the properties.
The query builder has no steps of its own, so `FiltersOnlyWiden` and
`StatementsMeanTheSameRows` are about any table and any queries, with one lemma for
each kind of key (`OwnName`, `RelatedName`, `OperatorAsName`), one for how conditions
select rows (`SelectedByFilters`), and `RowsInOrder` and `PageOfOne` for the pages.

Only model-checked: all liveness, because fairness and `ENABLED` are out of reach
of the prover (`EveryBookingEnds`, `ReleasedUnlessLost`, `EveryCallEnds`,
`EveryRequestEnds`, `EventuallyLogged`, `EveryReadEnds`,
`EventuallyMigrated`). No module of the project declares a `RECURSIVE` operator.

## 5. Where the code breaks what it promises

The runs that TLC finds violated:

| Run | What happens | Where |
| --- | --- | --- |
| `OversellRace` | two bookings of the last seat both pass: the second counts in its old snapshot | `modules/order/services.py:30` |
| `EditAfterPublish` | an edit validated on a draft lands after publish | `modules/ticket/services.py:97` |
| `LeafCheck` | `children__has_no` is no known operator and is dropped, so events can be created above subcategories | `modules/event/services.py:32` |
| `SubcategoryRace` | a category is found to have no events, gets one from another request, and then the subcategory | `modules/event/services.py:64` |

Others are visible as the exceptions that passing properties and theorems have to make;
the property then says that the code errs in no other way:

* a failure between commit and schedule, a colliding id or a worker that fails
  after the pop holds tickets for ever (`modules/order/services.py:83`; `lost` in
  `PendingIsTracked` and `ReleasedUnlessLost`);
* a duplicate that waits longer than 0.1 s for the lock books as well
  (`core/infra/transport/http/idempotency/decorators.py:40`; `slipped` in
  `OneOrderUnlessSlipped`);
* a Redis error while the lock is released runs a committed endpoint again
  (`core/infra/cache/managers/redis_manager.py:107`; `OneOrderPerCall` allows a
  second order after a fault);
* booking does not ask for the state of the event, so an owner can shrink a
  booked draft category below what is sold (`modules/ticket/services.py:106`;
  `OnlyEnlarges` in `OnlyRacesOversell`);
* `INCR` makes a missing counter without TTL, which is then never refilled and stays
  behind the table (`core/infra/cache/managers/redis_manager.py:55`;
  `NoDoubleCount` bounds the counter from above only);
* `[{c, 2}, {c, 1}]` is checked for 1 and inserts 3 (`modules/order/services.py:26`;
  `OversellNeedsStaleCount`, and `NoRequestRepeats` in `ReservationProofs`);
* two versions of the same millisecond share their bodies, so that an
  invalidation in it changes nothing (`core/infra/transport/http/cache/decorators.py:45`;
  `reused` in `FreshAfterInvalidation`);
* changes that no `invalidates_cache` follows are shown late, until the TTL (`Edit`:
  what `FreshAfterInvalidation` promises begins with a completed invalidation);
* a registered address keeps anonymous orders when the transfer is lost, never
  queued, or runs before the booking commits (`modules/user/services.py:47`,
  `modules/order/services.py:160`; `OrphanIsExplained`);
* a request whose `UPDATE` missed may answer that the role is not the expected one and
  name the expected one, or "Unexpected user state", if the account changed before the
  `SELECT` (`modules/user/services.py:122`, `:146`; `ParadoxNeedsRace`);
* a token may be handed out after the ban, or with a role that was taken away, while
  the password was checked (`modules/user/services.py:63`;
  `TokenIsCurrentUnlessRaced`). That is as if the login had come first, since nothing
  looks at the account again before the token expires, so it is no run of its own;
* an endpoint that fails after its commit is run once more by the idempotency layer
  (`core/infra/transport/http/idempotency/decorators.py:64`; `RunRaises`);
* a filter on a relation with an operator, `None`, and unknown names are dropped
  (`core/infra/database/query/filters/resolver.py:13`; `DroppedFiltersWiden`);
* `update()` with a filter on a relation has no join and hits every row that
  meets the rest, and a page past the end reports a total of 0
  (`core/infra/database/query/executors/mutation.py:115`, `read.py:98`;
  `EveryStatementMeansTheSameRows`);
* a `SAVEPOINT` that fails leaves `depth` too high for the rest of the unit
  of work (`core/infra/database/uow/units/sql_alchemy.py:68`; `leaked` in
  `BookkeepingFollowsBlocks`).

## 6. Not modelled, and the plan

The plan of section 2 is done. What could come next:

1. create and delete of ticket categories in `Reservation` (an unsold category
   shares no state with a booking, a sold one cannot be deleted), and several
   endpoints under one idempotency key (the key is not scoped by endpoint or
   user, so the second one is given the first one's answer);
2. to-many relations, eager loading, ordering and `CASE` expressions of the query
   builder;
3. abstract specifications of the idempotency layer and of the view counters, as
   `TicketLedger` and `EventLifecycle` are for bookings and events.

Left out for good:

* seeding: one sequential transaction that fills a development database with
  random rows and runs alone (its pending orders have no tickets and are never
  scheduled for expiry);
* schemas, routing, exception mapping: validation and wiring without state;
* mail, metrics, logging: I/O after the fact. A queued mail is a step in
  `Booking`; nothing in the repository promises its delivery;
* password hashing and JWT signing (library functions); a token is a subject and
  a role that may expire at any time;
* wall-clock time: an entry or a TTL may run out at any moment, which covers every
  clock; `ResponseCache` has a clock because its values are used as names.
