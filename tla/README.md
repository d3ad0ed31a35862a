# A verification of the BrewBean café POS

TLA+ models of the point-of-sale system in this repository, the TLC runs that
check them, and proofs about them that TLAPS checks. The models are written
from the code, file by file; `PROJECT.json` maps every definition to the lines
it stands for.

To repeat a run: `tlc -workers 2 -config orders.cfg MCOrders` (a run's module
and configuration are in `PROJECT.json`); to repeat the proofs of a module:
`tlapm OrdersProofs.tla`, and likewise for `PrintQueueProofs`, `PosTabletProofs`,
`CloudSyncProofs`, `SessionsProofs`, `ShiftCashProofs`, `PosCartProofs` and
`SetFacts`.

## 1. The system

A café runs one **local server** (Fastify, SQLite) and any number of **tablets**
(a React PWA with IndexedDB). A **cloud** API (PostgreSQL) mirrors the café for
the **admin dashboard**.

| Part | State | Operations | Talks to |
|---|---|---|---|
| Order service (`order-service.ts`, `order-number.ts`, `order-routes.ts`) | `orders`, `order_items`, `payments`, `refunds`, `counters` | create, discount, pay, refund, cancel, hold, resume | stock, outbox, print queue (from the routes) |
| Recipe engine and stock | `ingredients.stock_qty`, `inventory_tx` | deduct for an order, restock, manual adjustment | outbox |
| Shifts (`shift-service.ts`) | `shifts` | open, close, metrics | reads orders, payments, refunds |
| Sync outbox and engine (`outbox.ts`, `sync-engine.ts`) | `sync_outbox`, `sync_state` | tick: push a batch, mark it, pull, apply | cloud |
| Cloud ingest (`ingest.ts`, `main.ts`) | `cloud_*`, `cloud_outbound`, `ingest_state` | ingest a batch one query at a time; serve the feed | sync engine |
| Print queue (`print-worker.ts`, `printer-service.ts`, `sink.ts`) | `print_jobs`, `printers`, the flag `processing` | enqueue, the loop, sweep, restart | printers |
| Tablet: dialog and replay (`PaymentModal.tsx`, `sync-manager.ts`, `local-db.ts`) | `pendingOrders`, `online`, the open dialog | charge, sync pass, reload | server |
| Tablet: cart (`store.ts`, `CartPanel.tsx`, the dialogs, `HoldModal.tsx`) | the zustand store, `heldOrders` | edit, discount, park, resume, price | server's catalogue and settings |
| Sessions (`auth.ts`, `auth-routes.ts`, `api.ts`, `store.ts`) | `refresh_tokens`, the session in the store and in IndexedDB, the refresh in flight | login, logout, refresh, reload, new password | every call of the tablet |
| Reports (`report-service.ts`, cloud `reports.ts`) | none: queries | summary, by day, hour, method, cashier | read orders and payments |
| Audit, settings, realtime, ESC/POS, seed, dashboard | — | — | see section 8 |

**What is hard here.** The server is single-threaded and SQLite calls are
synchronous, so a handler without `await` is atomic to other handlers, but not
to a *crash*: envelopes, and the restock of a refund, come after the commit.
The print loop, the sync engine, the cloud's ingest and everything on the
tablet do await, and other code runs meanwhile. Requests and answers get lost
and are repeated (tablet to server, server to cloud, server to printer), and
each repetition must be recognised. Prices, percentages and order numbers exist
in two copies. Timers drive everything that has to happen eventually.

**What makes each part correct.** *Orders*: dense, unique numbers; one order per
tablet sale; status, payments and refunds agree; stock follows the orders; what
was done reaches the outbox. *Shifts*: one open shift per user; the expected
cash is the cash in the drawer. *Sync*: no gap, nothing applied twice, nothing
turned back. *Sessions*: own tokens only, nobody thrown out because a token
expired, an order recorded for who took it. *Reports*: they agree with the
shifts and with each other. *Printing*: one job at a time, in order, in full,
and never stuck. *Tablet*: no sale lost, paid means paid, the amount asked for
is the amount due, a parked cart stays.

## 2. The modules

| Module | Models | Size of its world in the runs |
|---|---|---|
| `Sale` | the abstract promise of a sale | see `Orders` |
| `Spool` | the abstract promise of a queue | see `PrintQueue`, `PosTablet` |
| `Orders` | order service, stock, what reaches the outbox | 2 orders, 1 device id, 1 key, 1 ingredient, 2 payments per order, 1 crash |
| `OrdersProofs` | ten theorems about `Orders`, one of them that it implements `Sale` | any |
| `ShiftCash` | shifts and cash | 2 users, 2 orders, 2 shifts, 1 refund, 7 writes; a fee more than the total is charged |
| `Reports` | the sales reports, over the tables of `ShiftCash` | days of 4 writes |
| `ShiftCashProofs` | the invariant of `ShiftCash`, five theorems about it and `Reports` | any |
| `PrintQueue` | print worker | 2 printers, 2 jobs, 3 attempts, 2 loops, 1 crash, 1 edit |
| `PrintQueueProofs` | the invariant of `PrintQueue`, six theorems from it, and that it implements `Spool` | any |
| `PosTablet` | charge dialog, replay queue, network, kitchen tickets | 2 sales, 2 charges, 1 failure, 1 reload or refusal of an order that may be accepted, 1 sale that never is |
| `PosTabletProofs` | the invariant of `PosTablet`, five theorems from it, and that it implements `Spool` | any |
| `PosCart` | cart, parked carts, totals, the charge button | 1 item, 2 pieces, 1 edit, 2 parked carts, 2 holds and any resumes under way |
| `PosCartProofs` | the invariant of `PosCart` and four theorems from it | any |
| `CloudSync` | sync engine, ingest, feed | 4 outbox rows, batches of 2, 2 ingest calls, 1 loss, 1 fault |
| `CloudSyncProofs` | the invariant of `CloudSync` and four theorems from it | any |
| `Sessions` | logins, tokens, the shared refresh, orders under them | 2 users, 2 logins, 2 expiries, 2 troubles (losses, reloads, new passwords, lapsed refresh tokens), 1 order |
| `SessionsProofs` | the invariant of `Sessions` and four theorems from it | any |
| `SetFacts` | lemmas about least elements, small sets and sums over sets, which the proofs share | any |

Each `MC*` module only gives constants their values. Operators whose comment
begins with "Mutation:" are plausible bugs: put in the place of the definition
that follows, each makes one property fail (the pairs are in `PROJECT.json`).

### Sale and Spool

The two abstract specifications say what the café promises, not how; they have
no lines of code in the map. `Sale` is the lifecycle that `docs/DATABASE.md`
draws, with the money: a sale is made once, paid once or called off before, and
given back within what was taken. `Spool` is what "oldest-first"
(`docs/OFFLINE-SYNC.md`) and "durable print queue" (`docs/PRINTERS.md`) come to:
entries come out once and in the order they were put in; one that was refused in
its turn may be passed over, and come out later or never. `Orders`, `PrintQueue`
and `PosTablet` each have an instance named `Promise` with their refinement
mapping: the status and the sums of the till for a sale; for the print queue,
"came out" is a row that is printed or given up, and nothing is refused; for the
tablet, an order at the server, and "refused" is a row that is failed and whose
order the server has not got. `Spool` asks of a refusal that it was the entry's
turn, so that a queue cannot excuse a change of order by refusing afterwards.

### Orders

One action per operation. An order's payments and refunds are kept as sums
(`till`), its `inventory_tx` rows as sums by kind, the outbox as what a reader
would have learnt from it (`sentOrders`, `sentPaid`, ...). The handlers of
`order-service.ts` commit a transaction and then write envelopes one by one;
the parameters `sent`, `sentPayment`, `drawn`, `back`, `torn` say where in that
tail a crash cut the handler short, and `Finishes` counts it. A handler that
rejects its input, and a replay that is recognised, change nothing and are no
steps. `HoldFrom` is the statuses of the orders that clients hold: `holdOrder`
checks none, and the tablet application never calls it. `EditTotal` is a
constant of its own because `applyOrderDiscount` taxes every item, whatever
`createOrder` did. Totals are any numbers: how they are computed is in
`PosCart`. Seen from `Sale`, holding, resuming and discounts are stutters.

### ShiftCash and Reports

`orders` here is what the shift queries join: cashier, status, times, method and
the one payment an order gets. `handled` and `sold` are history: the cash that
went through the owner's drawer while the shift was open, and the sales the last
closing counted. `computeShiftMetrics` is the operator `Metrics`, with the time
window, the status list and the overwritten buckets of the code. Times are
distinct: two handlers do not write within the same millisecond. A payment has
an amount of its own (`paid`, out of `Charges`): `payOrder` admits one cent less
than the total and sets no upper bound, and every delivery is charged its fee
twice (`PosCart`). The amount of a cash payment is what stays in the drawer; a
split's parts are compared with the total and its amount is stored as sent.
Cancelled orders are orders nobody pays, and a split sale is not given back in
cash.

`Reports` adds no step: a report is an operator on the tables and a time. It has
the selections of both sides: whole days in UTC (`date(created_at)`) on the
server, the last so many times twenty-four hours for the cloud's series
(`CloudSoldSince`), and the sums by day, hour, method and cashier: by method of
what was paid (`Takings`), the others of what the orders cost (`Value`), as the
queries have it. The cloud is taken to have every order: what it lacks is the
subject of `CloudSync`. Reports by product, category and cost need the order
items and are left out.

### PrintQueue

`processQueue` awaits the printer, so each call that passes the flag is a loop
of its own: `loops[w]` holds what it has read. `Sweep` is every wake-up (the
ten second sweep, the backoff timers, which do the same), `EnqueuePrintJob`
inserts and wakes. A send may fail with or without paper having come out. A
crash empties memory and leaves rows; the start of the worker re-queues.
Jobs are taken as created at distinct times.

### PosTablet

`charge()` is a sequence of steps with an await between them: queue the order
(`Charge`, and `SaleRecorded` where the tablet is offline), poll for the
acknowledgement (`Acked`, `PollTimeout`), pay (`PaySent`, with the outcomes paid,
refused, lost before and lost after the server acted), clear the cart. Each call
of `charge()` is a record of `charges`: the dialog's Back and backdrop stay live
while it runs (`CloseDialog`), so the cart can be charged again, or another
customer's put on the screen, and `clearCart` at the end clears what is there by
then. The sync pass is read, replay one row, catalogue. A row is failed by any
answer that is not good, be it a 401, the server's own trouble or an inactive
product, and every pass sends failed rows again: so an order may be refused, and
accepted later (`SyncPost` with "refused", bounded by `MaxTroubles`), and those of
the sales in `Hopeless` never are. The server is a list of orders known by the
tablet's id, their payments, and the kitchen tickets its create route queues after
the order is stored; it may die ("server died") or the handler may fail ("broke")
between the two, and every replay of a known order queues the tickets again, as
`order-routes.ts` does.

### PosCart

Items are products with a choice of options; `products` is the store's copy of
`menu`. `ComputeTotals` is `computeTotals` with its rounding (half a cent up) on
integers; the code computes the taxed share in floating point. `Grand` is the
amount of `PaymentModal`: computed when it opens and, since that memo lists the
delivery, when the delivery changes below it (`Requote`), but not when the cart
does. `memo` is what `useMemo` in `CartPanel` holds for the charge button: it is
computed anew when the cart or the order discount changes, and not when the order
type or the fee does, which the button adds.

A hold is two steps, split at its await on IndexedDB (`HoldCurrent`, `HoldDone`); a
resume is three (`Resume`, the tap; `Resumed`, the row has been read and its lines
replace the cart; `ResumeDone`, the row is deleted). `holding`, `fetching` and
`resuming` are the runs that wait. The dialogs can be left meanwhile and others
opened: `Resumed`, `HoldDone` and the late answer of a charge take place whatever is
open, and if it is the payment dialog, its amount stays that of the cart it was
opened on (`quoted`) while another cart is sent (`overtaken`). Between `Charge` and
`Answer` the dialog can be left as well (`sale.left`); one charge waits at a time,
and `PosTablet` has several, lost answers and the queue. Notes, tables and the
inside of the modifier dialog are left out: no property tells them apart.

### CloudSync

A row of the outbox is its seq, a snapshot is the seq of the row that carries
it, so "older" is "smaller". `ingestBatch` is three steps per envelope (look
up, apply, record), since each is a query of its own on the pool and two calls
may interleave. `Admits` is what the constraints of the cloud's tables refuse.
A `global_seq` is drawn from its sequence before the row that carries it is
committed, so recording is two steps, `Draw` and `Commit`, and a feed that is read
between them may see a later number without an earlier one. `Batch` is 2 in
`cloud`, small enough that a whole batch can be refused: that batch is
acknowledged where it started and is sent again for ever (`Jammed`).

### Sessions

An access token and the refresh token given out with it are one pair, known by
its number. A call of `api()` goes out with the pair of the session; on a 401 it
waits for the one refresh in flight or starts it (`refreshInFlight` in
`api.ts`), and is sent again once. `fallback` is the pair that `configureApi`
closed over at the last login, which the getter falls back to when the store has
no session. A refresh token is fourteen days old at last: `Lapse` says so of the
oldest pair that has not lapsed and whose access token has expired, since those
live for minutes, and `Accepts` is the check of `rotateRefreshToken`, revoked or too
old. `onRefreshed` puts the new pair in the store but not in IndexedDB, so a reload
brings back a pair whose refresh token is revoked (`Reload`, `shaken`). The page
is loaded anew on logout, which ends everything under way; a session that ends
because a refresh was denied leaves the other calls running, and a login may
come before they end (`hasty`). `SetPassword` revokes the user's refresh tokens;
deactivating a user does the same and keeps them from logging in, which is left
out.

## 3. The runs

| Run | States | Shows |
|---|---|---|
| `orders` | 203,792 | Under every sequence of operations, replays and a crash anywhere in a handler: the service is a `Sale` (`ImplementsSale`), one order per device id, status = till, goods back at most once, stock = ledger = orders (`StockExplained`); with crashes, at most one order's envelopes and one ledger entry are missing per crash. |
| `shift` | 1,407,711 | The expected cash differs from the drawer by four named things only (`ClosingExplained`), no sale is in two shifts' figures unless a shift is closed again (`CountedOnce`), what the cashier report shows is in the figures of the cashier's shifts (`ReportMatchesShifts`), and every report adds up: figures by method are off from the others by what was charged over the totals and by nothing else, and server and cloud differ on the oldest day only (`BooksAddUp`). |
| `print` | 199,740 | The worker is a `Spool`; one send at a time, in full, paper wasted by failures and crashes only; every job ends printed or given up. |
| `print_gives_up` | violation | A printer that comes back finds the job given up. |
| `tablet` | 510,220 | The queue is a `Spool`, rows that are refused and accepted later included, and drains; paid means paid once, the kitchen hears of each order (`KitchenTold`); a second order for a sale needs a charge that failed, was left running or went with the page, and a charge clears its own cart or was left. |
| `tablet_offline_payment` | violation | The payment of an offline sale never reaches the server. |
| `cart` | 740,750 | The amount asked for is what is due for the cart the dialog was opened on, plus one fee for a delivery, and that cart is sent unless a hold, a resume or an earlier charge ended below the open dialog (`ChargedIsDue`); with stale prices no customer pays more than that unless something became cheaper (`NotOvercharged`); a hold or resume that runs alone never loses a parked cart. |
| `cart_full_amount` | violation | The delivery fee is charged twice. |
| `cloud` | 541,659 | Gaps are rows the cloud refuses, no pull passes over a row that commits late, the mirror never goes back unless two calls overlapped or a query failed, the outbox drains and the catalogue settles unless refused rows fill a batch. |
| `cloud_ack_gap` | violation | A refused row before an accepted one counts as pushed and is lost. |
| `cloud_echo` | violation | The café's own older edit comes back over a newer one. |
| `sessions` | 501,055 | A session speaks for its own user, orders are recorded for who took them, expired access tokens throw nobody out however many calls meet them at a time, an expired refresh token throws out its own session only, and a queued order arrives as long as anyone is logged in. |

Several properties are written with their exception inside, because the code
does have the exception: they say *exactly* when the promise fails. Besides the
findings listed in `PROJECT.json`, these exceptions document that a cashier who
charges again after a failure, or after leaving the dialog of a charge that
still runs, makes a second order (`SecondOrderExplained`; `submitOrder` draws a
new id each time), that the end of such a charge clears whatever cart is on the
screen (`ClearsOwnCart`), that a refused row may be accepted after newer ones
(`ImplementsSpool`; the comment in `sync-manager.ts` calls a refusal permanent),
that envelopes are written outside the transaction (`StaleByCrashOnly`;
`docs/OFFLINE-SYNC.md` says inside), the four cash differences of
`ClosingExplained`, that a split payment is in none of the three buckets of the
day's summary and that figures by method and by order are apart by `Overcharged`
(`BooksAddUp`), that each lost answer prints one more set of kitchen tickets
(`KitchenTold`), that the old cart's amount may be charged for a cart that a
resume brings under the open dialog (`overtaken` in `ChargedIsDue`), that two
holds at a time may lose a cart (`disturbed` in `CartsKept`), that a batch of
refused rows jams the outbox (`Jammed`), and the events that may cost a session
(`shaken`, `lapsed`) or put an order on another cashier's account (`handed`).

**Bounds.** Every bound is a constant named `Max...` (or `Requests`, `Loops`).
Two of a kind is enough where the code compares a thing with "another one" (two
orders for numbering and replay, two loops for the flag, two ingest calls, two
cashiers, two shifts of one user); one crash or loss is enough because a second
one meets a state that a first could have met, and the properties count crashes.
Payments stop at two per order because a third meets the same guards. Three
attempts stand for five: the code only compares with the maximum. The runs that
check liveness (`print`, `tablet`, `cloud`, `sessions`) have no symmetry; the
others use it for ids that differ in nothing else. `MaxRows` of 4 with a `Batch`
of 2 has two full batches, so that one can be refused and the other held up
behind it. Two of `MaxHolding` and `MaxTogether` are two holds that overlap, and
any two of the things that may be there at a time; `cart_full_amount` takes
three, for a delivery with a discount after an edit. One item is enough for
them, with discounts below and above what its line costs; carts of two lines,
with the shares of a taxed and an untaxed product, are in `cart_full_amount` and
in the proofs, so not for `NotOvercharged`. `Charges` of 3 for a total of 2 is a
fee too much, as every delivery is charged; other amounts, a cent short among
them, are in the proofs. One sale in `Hopeless` never gets to the server;
`MaxTroubles` of 1 is a row that is refused, passed and comes later, or a
reload, which starts a pass of its own. Two logins and two expiries are one
change of cashier during a refresh and a second expiry after it; lost messages,
reloads and new passwords share the bound `MaxTroubles`, since any of them may
shake a session, with the lapse of a refresh token, which may end one. Days of
four writes and seven writes put an order, its payment and its shift on
different days. `CHECK_DEADLOCK FALSE` is set where the bounds let a run stop.

**Fairness.** Only what timers and settled awaits give. *Print*: the sweep is a
`setInterval`, the loop goes on by itself, a send settles (`sink.ts` times out
after eight seconds). *Tablet*: the sync interval fires and a request settles
(`SyncFairness`, all that `QueueDrains` needs); for `tablet_offline_payment` the
awaits of a charge settle too. *Cloud*: ticks are a `setInterval`, a call of
`ingestBatch` that was not cut off goes on. *Sessions*: calls and refreshes are
answered; a sync pass goes through every row of the queue and there is always
another pass, which is strong fairness of sending each order: the call of the
pass is busy with one order at a time, so sending another is enabled only in
between (the pass itself is in `PosTablet`). Nothing is assumed of users,
printers, or the network: the tablet's liveness is under "the server stays up",
and of orders that it stops refusing (the bounds end losses and refusals), that
of the sessions under "someone is logged in". `OutboxDrains` is written `<>[]`
for all rows at once: a row stays pushed and rows are finitely many, so it says
of each row that it gets there, and TLC checks one formula instead of one per
row. Safety runs use no fairness.

## 4. What is proved

Every invariant that a passing run checks, and every action and refinement
property but `NotOvercharged`, is a theorem: for any number of orders, printers, cashiers
and rows, any prices and amounts, and any bound on crashes, losses and faults.
Only that one and the five liveness properties are left to TLC. Besides what the modules
assume of their constants (`ASSUME` there: prices are not negative, the numbers
of orders and ingredients are finite, an id that means "none" is none of the
others) there is one assumption, `HoldFrom \subseteq Editable`, which the theorems
that need it name.
Each component has an inductive invariant `IInv`; `Invariance` is
`Spec => []IInv`.

### Orders (`OrdersProofs`)

| Theorem | Says |
|---|---|
| `TypeCorrect` | `Spec => []TypeOK` |
| `NumbersDense` | order numbers are 1000, 1001, ... without gap or repetition |
| `ReplaysMakeNoOrder` | one order per device id |
| `NeverRefundsMore` | captured and refunded money never exceed what was received |
| `StatusIsTheTill` * | status and till agree |
| `GoodsReturnedOnce` * | goods come back at most once |
| `StatusesAdvance` * | every change of status is one of `Lifecycle` |
| `SaleIsKept` * | `Spec => ImplementsSale`: the service implements `Sale` |
| `StockIsExplained` * | the ledger is the stock but for one ingredient a crash; without a crash the orders are |
| `EnvelopesLostByCrashOnly` * | the cloud would be behind on at most one order a crash |

Those with a star assume `HoldFrom \subseteq Editable`, which is what the tablet
application does; without it they are false, since `holdOrder` makes a
completed or cancelled order editable again.
`NeverRefundsMore` holds even then.

*The argument.* `TypeOK` is inductive once two facts about sets of rows are
known (`WellTyped`). Numbers need `NumbersInv`: the counter is 0 or at least
1000, so that the first order and the next are numbered alike; only `Create`
changes rows in a way that matters (`RowsKept`). Device ids need that an unused
row carries none. The money invariants are proved together (`MoneyInv`):
`ReturnedOnce` alone is not inductive, for a refund that restocks could follow a
cancellation unless the status rules it out; so each order is shown `Sound`, a
predicate of its own columns, and `OneOrderChanged` lifts that to all orders,
since an operation touches one. For `SaleIsKept` each action is shown to be one
step of `Sale` or a stutter on the order it touches; the money invariants give
the guards of the abstract step (an open order has taken nothing; a refund stays
within what is left). The two theorems about crashes are counts: a step leaves
the set of wrong orders (`OneStale`) or wrong ingredients (`OneTorn`) no larger,
or adds one to it and counts a crash. The stock without crashes is a sum over the
orders; an operation changes one summand (`OneConsumer`), by exactly what it
takes from or gives back to the stock.

### Printing (`PrintQueueProofs`)

| Theorem | Says |
|---|---|
| `TypeCorrect` | `Spec => []TypeOK` |
| `OneSendAtATime` | a job is in the hands of one loop at most, and its row says so |
| `OldestFirst` | what is being sent is the oldest unfinished job |
| `EveryCopyCameOut` | a job marked as printed came out in every copy |
| `FinalityKept` | a printed or failed job is never written again |
| `PaperAccountedFor` | each ticket belongs to an attempt or a crash, a set of copies each |
| `QueueIsSpool` | `Spec => ImplementsSpool`: the worker implements `Spool` |

*The argument.* The flag is what makes the worker correct, and it says nothing
by itself: `IInv` adds that one loop at most is not idle and that the flag is set
while one is (`OneLoop`, `Flagged`). From that follows the fact about stale reads
(`Held`): what the loop read before the send (the attempts, that the job is the
oldest) is still so after it, since no other step writes that row, and the copies
already out and those left make up the printer's number. `AttemptsLeft` keeps a
waiting job below the maximum. `RowStep` and `RowsKept` reduce each action to one
row and one loop. `PaperAccountedFor` adds a balance: a job at rest has no more
tickets than its attempts and the crashes account for, and while one is sent, the
tickets out and the copies left are within one attempt more (`AtRest`, `InHand`);
a failure turns that one into an attempt, a crash into a crash. `QueueIsSpool`
takes the order of the spool from `OldestFirst`: a loop finishes the job it
holds, and all older ones are finished.

### The till's queue (`PosTabletProofs`)

| Theorem | Says |
|---|---|
| `TypeCorrect` | `Spec => []TypeOK` |
| `DoneMeansPaid` | acknowledged means at the server, no order is paid twice, complete means paid |
| `KitchenHears` | every acknowledged order has its tickets, with one more set at most for each lost answer |
| `OneOrderPerSale` | a sale has one order more than charges of it that failed, went away or were left running, at most |
| `OwnCartOnly` | a cart that was not cancelled or lost in a reload goes only with its own sale, or by a charge that was left |
| `QueueIsSpool` | `Spec => ImplementsSpool`: the queue implements `Spool` |

Nothing is assumed of the cashier or of what the server refuses.

*The argument.* `Stored` says that the server has an order of a row once.
`Sending` is about the snapshot a sync pass works from: a row the pass has left is
not acknowledged, and each row older than it is with the server, failed, or still
to be sent in the same pass, although charges add rows and the poll reads them
meanwhile; that gives the order of the spool, where a failed row the server has not
got is one that was refused in its turn. `PayingIsStored` is what a charge knows
after its await. `Tickets` counts: the sets of tickets the tablet does not know of
are each one lost answer or one handler that failed, so their number (a sum over
rows, as the size of the set `Spare` of pairs) is at most `losses`. `OneCharge` is
about the charges that have neither failed nor been left: one that runs is the
dialog's and for the cart on the screen, which makes "the cart" after the await the
cart before it; one that ended well has taken its sale off the screen; and a sale
has one of them at most, which is the count of its orders.

### The way to the cloud (`CloudSyncProofs`)

| Theorem | Says |
|---|---|
| `TypeCorrect` | `Spec => []TypeOK` |
| `GapsOnlyByRefusal` | without accidental failures the cloud has every row that counts as pushed but the refused ones |
| `PullMissesNothing` | the pull cursor passes over no row that commits late, unless calls overlapped and a query failed |
| `MirrorKeepsUp` | with one call at a time and no accident, nothing is turned back |

*The argument.* Rows behind the cursor are sent without a gap (`Pushing`), and
`Sound` carries that to the cloud: all that a call acknowledges, or has passed
over, is recorded or refused, for any number of calls of which the engine awaits
one. `Growing` is why a feed with holes loses nothing: a number that was drawn
and can still be committed is beyond all that are, or is of an envelope that is
recorded already, so that the unique `seq` refuses it. `Reading` says the same of
what the engine has read and of the batch in its hands. `Alone` and `Newest` are
the mirror: with one call it works on envelopes in order, none of them recorded,
so what it writes is newer than what is there. `Applied` is that a recorded order
or product is in the mirror, which a refund needs to be admitted.

### Sessions (`SessionsProofs`)

| Theorem | Says |
|---|---|
| `TypeCorrect` | `Spec => []TypeOK` |
| `TokensAreOwn` | a session works with its own user's tokens, unless its login was hasty |
| `CashierKept` | an order is recorded for who took it, unless it was handed over |
| `SessionStays` | `Spec => StaysLoggedIn`: a session ends by a logout, was shaken, or its own refresh token was too old |

*The argument.* Three copies of "who is logged in" have to agree: the session in
memory, the one in IndexedDB and the pair `configureApi` closed over. `Stored`
says that the first two are of one user while someone is logged in, and that the
third is the pair of the second. `Tokens` follows the pair through a refresh:
the one being refreshed is the session's user's, and when nobody is logged in it
can only be `fallback`, which is why a login during a refresh is hasty exactly
when the refresh asks with that pair. `Names` says what each pair in use would do
with the orders the server has not got: record them for their cashier, unless
they were handed over. `Alive` says that a refresh token of the session that was
revoked has a reason, a grant that is on its way or a shake, and that a refusal on
its way has one, a shake or the age of the session's own token; so a refusal cannot
come to a session that is neither.

### Shifts, cash and reports (`ShiftCashProofs`)

| Theorem | Says |
|---|---|
| `TypeCorrect` | `Spec => []TypeOK` |
| `SoldOnce` | no sale is in the figures of two shifts that were closed once |
| `CashiersShow` | what the cashier report shows is in the figures of a shift of that cashier |
| `ExpectedExplained` | `Spec => ClosingExplained`: expected cash and drawer differ by the four named things |
| `BooksRight` | shifts, summaries and reports add up, those by method and those by order differ by what was charged over the totals, and the two sides differ on the oldest day only |

*The argument.* `OneAtATime` orders the shifts of one cashier in time: all but
the last are closed, and one that was closed once ended before the next began.
`FiguresStand` says what such a closing counted still is the sales of its time,
although refunds change the status of orders later; so two shifts share none. The
cash is `Drawer`: the drawer of an open shift holds its float, the cash taken
since it opened and the cash parts of split payments, less the refunds given by
its owner. It is an equation of sums over orders and refunds, and each operation
adds one term to a side of it and to `handled`, of what was paid and not of the
order's total; `ClosingExplained` subtracts it
from what `computeShiftMetrics` selects, and the four differences are the parts in
which the two selections differ. `BooksRight` groups two sums, of the totals and of
the payments, by hour, day and cashier and by method (`SumOfGroups`); `Overcharged`
is the difference of the two, one term per order.

### The till screen (`PosCartProofs`)

| Theorem | Says |
|---|---|
| `TypeCorrect` | `Spec => []TypeOK`, all totals whole cents |
| `OneFeeTooMuch` | `Spec => ChargedIsDue`: at ordinary prices the amount is what is due for the cart the dialog was opened on, and its fee once more; that cart is sent, unless it was overtaken |
| `ButtonCoversDue` | `Spec => ButtonShowsDue`: before an edit the button shows the amount due or one fee more |
| `CartsAreKept` | `Spec => CartsKept`: a hold or resume that ran alone loses no parked cart |

*The argument.* `FeeOnTop` takes the fee out of the total, through both roundings:
the amount of a cart is `Net` of its lines at some prices, and the fee. Then
`Quote` follows the amount of the dialog, `Charged` that of the sale that was
sent, and `Memo` what the panel still shows of the past: each is `Net` of the lines,
prices and discount of its own moment (`quoted`), with the fee of now, since a
delivery that changes below the dialog is the one thing it is computed anew for.
`Quote` also says that these lines are the cart's as long as the dialog was not
overtaken; every step that changes the cart needs the screen, where no payment
dialog is open, but for the ends of holds, resumes and left charges, and those set
`overtaken` (`OvertakeStep`). The server computes from lines it clamps, which
changes nothing when no line is below zero. `OnScreenToo` follows a resume through
both its awaits: if nothing interfered, the row about to be deleted is the cart on
the screen.

### Sets and sums (`SetFacts`)

Sums are the library's `SumFunctionOnSet`, a recursive function. An induction
theorem of the library cannot be instantiated for them, so the lemmas argue by a
least counterexample: if a fact fails for a finite set, it fails for one of least
size (`LeastOf`, from the well-founded order on the naturals), and one element
less gives the contradiction. `SumsDefined` shows in that way that the recursion
has a solution, `SumUnfolds` that it does not matter which element it takes
first, and `SumAdd`, `SumSame`, `SumSplit`, `SumOfGroups` and `SumPlus` are what
the money and the stock need. The same least element makes "the oldest" row of a
queue well defined (`MinIsLeast`).

### What stays with TLC

* `Drains` (`print`), `QueueDrains` (`tablet`), `OutboxDrains` and
  `CatalogSettles` (`cloud`), `QueueDelivered` (`sessions`): liveness under
  fairness, which needs `ENABLED`, out of the prover's reach.
* The five runs that end in a violation: counterexamples, found by running.
* `NotOvercharged`, that stale prices never make a customer pay more than one fee
  above what is due: it needs that a total grows with each price through products
  and roundings of variables, arithmetic the provers do not do.
* What `ComputeTotals` makes of a particular cart: the theorems compare totals,
  the runs also compute them.

Some theorems state what no run lists. `NumbersDense` is proved for every
instance; `NeverRefundsMore` and `StatusesAdvance`, `OldestFirst` and
`FinalityKept` are, on the small instances, parts of what the refinements of
`Sale` and of `Spool` say; `ButtonShowsDue` was found by TLC to hold in the world of
`cart` before it was proved.

## 5. The plan

Done: all modules of section 2, the three refinements with their proofs, and
the safety of every module. What would come next, in this order:

1. `Outbox`, the abstract promise of the sync (a log of which the cloud holds a
   prefix, but for refused rows), implemented by `CloudSync`, by TLC and proof.
2. Bounds of `ComputeTotals` as lemmas: no discount makes a total negative or
   larger, as long as no line is below zero; and `NotOvercharged` from them.
3. The availability of products derived from stock (`inventory-service.ts`).
4. The reports over order items: products, categories, cost.

## 6. Hazards

`PROJECT.json` lists what in this code is hard to test, each at its line, with
the properties that would notice it going wrong. Two have none: the hold
of a completed order, which no client asks for and the runs and theorems of `Orders`
leave out by `HoldFrom`, and the total of the charge button, which a theorem bounds.

## 7. Conventions

Names are the code's where TLA+ allows (`holdOrder` is `HoldOrder`). A guard is
a condition or early return of the code, unless its comment names it a bound or
an assumption. A variable that the program does not have is said to be history
where it is declared or at the head of its module (`handled`, `sold`, `quoted`,
`overtaken`, `disturbed`, `begun`, `left`, `overlapped`, `pulled`, `hasty`, `shaken`,
`handed`, and the counters of crashes, losses, faults, troubles and
edits). `quoted` is the program's in part: what the dialog's memo was computed from.

## 8. Not modelled

* **Roles and permissions** guard handlers and change none of the state here;
  `Refunders` stands for one of them in `ShiftCash`. The login of the dashboard
  is left out with them.
* **Audit, notifications, realtime events**: append-only or best effort, nothing
  reads them back into the state (in `CloudSync` audit rows are a kind of row).
* **Reports over order items, stock and cost**, and the **dashboard**: queries and
  screens that write nothing. **ESC/POS and receipts**: layout.
* **Seed and migrations**: the initial state of the models is an empty café.
* **CRUD** of categories, tables, ingredients, recipes and users: single
  statements on rows that nothing else here writes.
* **The entities that no code sends to the cloud** (shifts, devices, printers,
  ingredients), though `applyEnvelope` has cases for them.
