# Lopos: a TLA+ verification project

Lopos is a point of sale for small shops: a Django server (`backend/apps`) and
a React terminal that keeps selling while it is offline (`frontend/src`, with
IndexedDB).  This directory holds TLA+ models of the parts where money and
sales could go wrong in ways a test hardly reaches, the TLC configurations that
check them, and theorems that TLAPS proves for instances of any size.

Paths below are relative to `src/`.  Line numbers of every definition are in the
"map" of `PROJECT.json`.

## 1. The system

### Components and how they interact

| Component | Code | State | Operations | Module |
|---|---|---|---|---|
| Checkout page and carts | `frontend/src/pages/PosPage.tsx`, `features/cart`, `features/checkout`, `db/carts.ts`, `createLocalSale` | the `carts` table, the cart and the held carts in the cache of each tab, the dialog in progress, undo toasts | scan, change a quantity, remove and undo, hold, resume, delete, pay in several parts, sell on credit, withdraw | `Till` |
| Opening and closing a shift | `features/cash-session`, `db/sessions.ts`, `pages/{OpenCashSession,CloseCashSession}Page.tsx`, the current-session view | the server's open session, the mirror in IndexedDB, the session each tab believes in | open, read the current session, fall back on the mirror, guards and steps of the closing | `Shift` |
| Offline sync, terminal side | `db/sales.ts`, `db/syncLock.ts`, `sync/syncEngine.ts`, `features/sync/useSyncStatus.tsx` | `localSales` rows (status), the run in progress and the retry timer of each tab, Web Lock or lease | ring up, withdraw, trigger, requeue, list, push by batches of 50, apply results, retry after 30 s | `OfflineSync` |
| Offline sync, push endpoint | `backend/apps/sync` | `Sale`, `ProcessedSyncEvent` rows | one transaction per event, short circuit, duplicate keys | `OfflineSync` |
| Online submissions | `NewExpenseDialog`, `RecordPaymentDialog`, `SaleReturnPage`, the two cancellation dialogs, `api/client.ts`, `useNetworkStatus` | the form and its idempotency key, requests on their way | fill, send, give up after 5 s, resend, renew the key, answer from an earlier row | `Submissions` |
| Cash sessions | `backend/apps/cash` | `CashSession` | open, close with a frozen `expected_balance`, summary recomputed at each request | `CashDesk`, `Shift` |
| Sales | `backend/apps/sales` | `Sale`, lines, payments, `SaleReturn` | complete, complete offline, cancel, return | `CashDesk`, `Inventory`, `Submissions` |
| Expenses | `backend/apps/expenses` | `Expense` | create, cancel | `CashDesk`, `Submissions` |
| Customer ledger | `backend/apps/customers` | `CustomerLedgerEntry` (append only) | credit, repayment, return, reversal, opening balance, adjustment | `CashDesk`, `Submissions` |
| Inventory | `backend/apps/inventory`, `sales/services.py` | `Stock`, `InventoryMovement`, `StockCostChange` | receptions, counts, cost corrections; what sales, cancellations and returns do to stock and average cost | `Inventory` |
| Terminal stock cache | `frontend/src/db/{products,sales,recovery}.ts` | product snapshot, pending quantities | lower and raise around a sale, refresh, repair | partly in `Till` |
| Money and quantities | `frontend/src/utils/{money,quantity}.ts`, `_money` in `sales/services.py` | none | line totals, refunds of part of a line | partly in `Till` |
| Catalogue pull | `backend/apps/sync/services.py` | none | pages of products after a cursor | not modelled |
| Access, accounts, catalogue, dashboards, other pages | the rest | administration data | CRUD and display | not modelled |

A cashier opens a session, which the terminal mirrors.  What is scanned goes to the cart of that session,
in the cache of the tab and in IndexedDB.  A sale is written to IndexedDB first, always.  A run of
the sync engine pushes it, under a lock shared by the tabs; the server completes
it as a sale of its cash session in one transaction, together with its stock
movements, its payments and the credit entry of the customer.  The answer moves
the local row to `SYNCED` or `CONFLICT`.  Online operations (cancellations,
returns, expenses, repayments, closing) go to the server directly, one request at a time, each with the key
that lets the server recognise a resend.  The summary of a session ("rapport Z") is recomputed from these
rows.  The modules meet where these parts do: `CreateLocalSale` is an action of `Till` and of `OfflineSync`, and
`Sell` of `Shift`; `CommitEvent` of `OfflineSync` is `CompleteOfflineSale` of `CashDesk` and `Inventory`;
`Recorded` of `Submissions` is a service of `CashDesk`.

### What is hard here

* **Retries against work in progress.**  The client gives up after 5 s; the
  request it gave up on may still be running, or not have arrived, when the
  retry is handled by another worker.
* **Keys.**  A resend is recognised by the key its form holds.  Each form draws, keeps and renews its key by
  rules of its own, and each service compares something else before it takes a request for a resend.
* **Tabs.**  Two tabs share the rows and the lock; without `navigator.locks` the
  lock is a lease that may expire under its owner.  They also share the carts and the mirror of the session, but
  each keeps its own copy on screen.
* **The cashier acts meanwhile**: withdraws a sale in flight, scans before the last write is done, goes back in
  the middle of a payment, logs out, closes the session, hands the terminal to someone else.
* **Partial failure**: a batch half handled, a push refused as a whole because of one
  event, a handler that dies, a write of the mirror that fails while the server has closed.
* **Late answers**: a current session read before a closing and delivered after it; the answer to a form that was
  left.
* **Long legal sequences over shared money**: sale on credit, repayment at another
  register, partial return, cancellation, expense, closing, in every order.
* **Stock below zero.**  An offline sale has already taken place and is accepted whatever the
  stock; units come back later at the cost they left at, after other receptions have moved the
  weighted average.
* **Two roundings of one line**: the terminal's and the server's.

The hazards, each at its line and with the properties that would catch it, are
listed in `PROJECT.json`.

### What makes each component correct

* Checkout and carts: one active cart per session; every unit put in a cart is sold or kept, once; a checkout always has
  something left to collect; what the terminal accepts, the server accepts.
* Shift: a session that was closed is never sold in again and has left nothing behind; a cashier sells in his own session.
* Sync: a sale enters the books exactly once, with its effects; the terminal shows
  `SYNCED` only for a sale that is in the books, and for good; every pending sale
  eventually leaves that state; one run at a time, as long as leases are kept.
* Submissions: one gesture is recorded once at most, however often it is resent; what is announced as recorded is what was
  asked for last; a sale is cancelled or returned from, never both.
* Cash: the drawer of an open session is never negative, so it can be closed; the
  summary of a closed session moves by late sales and staff cancellations, by their cash, and by nothing else.
* Sales, expenses, ledger: every correction removes exactly what its row had added; no
  customer is ever owed money; no more money is given back than was received.
* Inventory: the stock of a product is what its rows say came and went; its average cost stays
  among the costs paid; selling, cancelling and returning neither creates nor loses value beyond
  rounding; a shortage can be traced to a sale.

## 2. The modules

```
SaleBooks          what offline selling promises (abstract)
   ^ refined by
OfflineSync        tabs, lock, requests, server       MCOfflineSync, OfflineSyncProofs
Till               carts, checkout, local sales       MCTill, TillProofs, TillSaleProofs
Shift              opening, mirror, closing           MCShift, ShiftProofs
Submissions        forms, keys, requests, services    SubmissionsProofs
CashDesk           sessions, sales, expenses, ledger  MCCashDesk, CashDeskProofs
Inventory          stock, average cost, lines         MCInventory, InventoryProofs
SumTheorems        sums over the rows of a table      used by the proofs of CashDesk, Inventory and Till
```

`CashDesk` and `Inventory` are two views of the same services of `sales/services.py`: amounts in one,
lines and costs in the other.  A definition marked "Mutant" is a bug the code could have: no action uses it, and
`PROJECT.json` names the property that fails when it replaces the real one.

### OfflineSync

| Variable | Code |
|---|---|
| `local[s]` | `localSales.status` (+ `conflictCode`: `CONFLICT_RETRYABLE` when it is in `RETRYABLE_CONFLICT_CODES`; `DELETED` when the row is gone) |
| `armed[t]`, `run[t]` | a call of `syncPendingSales` that is due, and the promise `syncInProgress` with the place it has reached; `lapsed` is history: the lease of this run ran out and was not renewed since |
| `timer[t]` | `retryTimer` |
| `lease` | the Web Lock, or the row `syncMetadata` of the lease (`live`: it has not expired) |
| `req[p]` | a push and its handler: sent, running event by event, answered, refused as a whole, lost |
| `user`, `session` | the login cookie of the profile; the status of the cash session |
| `sale`, `processed`, `sold`, `restored` | rows of the server, and how many times the effects of a sale were written or given back |
| `nature[s]`, `late[s]` | how the server judges the payload: acceptable, refused, malformed; whether it was rung up after the closing |
| `healthy` | no fault any more, for liveness |

The actions are the functions of the code, split where another actor can step in.
On the terminal: at every `await` of `runSync` that reads or writes rows or waits for the
network.  On the server: the arrival (login and serializer), the checks before the
transaction (`CheckEvent`, unlocked), the transaction of one event (`CommitEvent`, atomic: the
unique keys of `Sale` and `ProcessedSyncEvent` decide between two of them), and the answer.
`sold` and `restored` stand for stock, payments and ledger rows, which the same transaction
writes.  Requests that the client abandoned run on.  A tab may be reloaded at any point; with Web
Locks the browser frees the lock, a lease stays.

Data are abstracted to what the server decides on: a payload is its `nature`, a batch is a set of
sales handled oldest first, a clock is the flags `late` and `live`.

`Init` allows rows that were refused by an older server, since `requeueRetryableConflicts` exists
for them.

### SaleBooks

The promise: `till` (what the terminal shows) and `books` (what the server has).  `OfflineSync`
implements it with `till <- TillOf(local)`, `books <- sale`.  It deliberately does not promise that
a sale withdrawn or refused on the terminal stays out of the books: the code does not keep that
promise (see `SyncWithdrawn`).

### CashDesk

| Variable | Code |
|---|---|
| `session[d]` | `CashSession`: status, opening balance, `expected_balance` and the sales counted at the closing |
| `totals[d]` | the cash sums of `_aggregate_totals` |
| `sale[s]` | `Sale` with its payments, and `total_refund`, `credit_reduction` of its returns; `late`, `undone` are history: accepted by the synchronisation, or cancelled by the staff, after the closing |
| `expense[e]` | `Expense` |
| `ledger[c]`, `book[c]` | `customer_balance`; the entries that do not come from sales, by kind |

Each service is one action: the code takes row locks on the session, the sale and the
customer before it reads what it decides on, so two services that share one of them cannot
interleave.  `totals` and `ledger` are running sums, where the code sums rows at each request; the
invariant `SumsMatchRows` says they are the same.  The drawer counts cash only: methods are `CASH`
and `MOBILE`.  An amount is a number of the smallest price unit; lines, stock and rounding are left out.
`CloseCashSession` is enabled only if the expected cash is not negative: the CHECK constraint of the
table rolls the transaction back otherwise.  Whether a sale took place before the
closing is for the clock of the terminal to say (`occurred_at`): `CompleteOfflineSale` may bring one to any session that was opened.

### Inventory

| Variable | Code |
|---|---|
| `stock[p]` | `Stock`: whether the row exists, `quantity`, `average_unit_cost` (`Unknown` for NULL) |
| `price[p]` | `Product.purchase_price`, where the code treats 0 and NULL alike |
| `journal[p]` | what the `STOCK_IN` and `ADJUSTMENT` movements and the `StockCostChange` rows add up to: quantities, values, the costs seen, the inbound movements |
| `sale[s]` | `Sale`, the quantity and the frozen `unit_cost` of its lines, the quantities of its `SaleReturnItem` rows and the part of them with `restock`; `stock_discrepancy` of its sync event |

One action per service: `ReceiveStock`, `AdjustStock`, `SetStockUnitCost`, `CompleteSale`,
`CompleteOfflineSale`, `CancelSale`, `CreateSaleReturn`, and `EditPurchasePrice` for the product form.
Costs are integers of `COST_QUANTUM`; `Rounded` is ROUND_HALF_UP; the last purchase price
is rounded to `Cent` quanta.  `journal` is written by the actions and read by
properties and bounds only: it stands for rows that the code writes and does not read.  Who may cancel or return, and the
money, are in `CashDesk`: `Inventory` lets anyone do so in any session, which allows more behaviours.

### Till

| Variable | Code |
|---|---|
| `rows[c]` | the `carts` table of IndexedDB for one session: status and items |
| `cart[t]`, `held[t]` | the active-cart and held-carts queries of a tab: what the cashier sees |
| `queue[t]` | the transactions on carts the tab has issued and IndexedDB has not run yet, oldest first |
| `lookup[t]` | a scan whose product has not been found yet |
| `step[t]`, `legs[t]`, `target[t]` | `checkoutStep`, `paymentLegs`, the cart the held-carts dialog is about |
| `submit[t]`, `success[t]` | `saleMutation` and the dialog of the finished sale |
| `toasts[t]`, `undo[t]` | the undo toasts on screen and `removalUndoToastRef` |
| `stock[p]` | `serverKnownStock - pendingSoldQuantity` |
| `sale[s]` | `localSales` |
| `put`, `raced` | history: units the cashier put in and did not take out; whether a gesture was made on a screen that was behind the table, or a fault lost a write |

A gesture changes the cache at once and queues a write (`useCart`), holding and resuming change the
table first and queue a new read.  Of one tab the transactions run in order (IndexedDB queues
overlapping read-write transactions of a connection) and their results are delivered with them;
between tabs they interleave.  `Execute` runs the oldest one, `Reload` and `Mount` lose what a tab held.
A refetch cancelled by a later gesture is over-approximated: it may deliver or not.  The properties end with the first race, since a gesture on a stale
screen (`useCart.ts:86`) really loses units; `OneActiveCart` is proved with races included.
Left out: the override of a price, the browser's back during a pending mutation, the dates of carts.

### Shift

| Variable | Code |
|---|---|
| `open`, `owner`, `opened` | the server's OPEN `CashSession` of the register and its cashier |
| `local`, `idOrder` | the mirror `cashSessions` of IndexedDB; its index by register returns the first row in the order of the UUIDs |
| `cart[s]`, `sales` | whether a session's carts hold something; the sales recorded on the terminal |
| `page[t]`, `own[t]` | the route of a tab; `usePosSession().ownSession` |
| `reading[t]` | the answer to a current-session request that the tab has not received yet, computed when it was asked |
| `free[t]`, `closing[t]` | what the guards of the closing page found at mount; `closeMutation` |
| `sole`, `clean` | history: the closing was carried to its end by the only tab, undisturbed |

Other terminals open and close sessions of the register (`ElsewhereOpens`, `ElsewhereCloses`); an opening or a closing whose
answer is lost is one of these.  Every write of the mirror may fail.  The guards of the
closing page are read once, when it is mounted, in one step.  `clean` names the closings about which the code keeps its word: by the
only tab, up to "Terminer", mirror written, no other OPEN row, no answer still to come.  Outside of it the module shows what
the closing dialog does not say: with a second tab, a closing whose answer is lost, a closing elsewhere, a late
answer of the current session (`PosPage.tsx:179-189` puts the row back) or two OPEN rows (`db/sessions.ts:50-60`), sales are recorded in
a session that is over, and come back as conflicts.  The pages that require a session are one page,
`pos`; the counted cash is left out.

### Submissions

| Variable | Code |
|---|---|
| `form` | the form on screen: kind, key, amount typed, what the page showed (`seen`), the request it waits for, status |
| `toast`, `online` | the last success shown; `useNetworkStatus` |
| `network` | requests sent, waiting for the lock in the server, answered; `heard` until the client gives up |
| `ledger`, `saleStatus`, `returned`, `session`, `drawer`, `balance` | rows by idempotency key, and what the services check |
| `keys`, `attempts`, `gestures` | counters, bounded |
| `form.silent`, `disturbed` | history: an attempt of the gesture went unanswered; its key was renewed after that |

The server looks a key up before the lock and again under it; the services are one step under it.  Only an expense is compared with what
the request asks (`_validated_replay`).  A network error or a 5xx makes the terminal consider itself offline,
and the pages of a customer and of an expense then take their dialogs down.  One terminal, one cashier, one session;
amounts stand for the whole content of a form; the sale was paid by Wave and its returns are refunded in cash, at a unit price of one.

Two deviations from the comments are named by `disturbed`.  (a) `RecordPaymentDialog` is unmounted by the very cut it should survive
(`CustomerDetailPage.tsx:110, 240-250`) and mounted again with a new key (`:46`): a resend records a second repayment,
contrary to its comment (`:44-45`).  (b) An expense edited after an unanswered attempt that was recorded is answered
400, the key is renewed (`NewExpenseDialog.tsx:69-73`) and the next attempt records a second expense, contrary to
`:45-46`.  `OneGestureOneRow` says that these are the only ways.

## 3. The runs

| Run | Instance | Question | Answer |
|---|---|---|---|
| `SyncSafety` | one tab with batches of 2 sales of any nature, or two tabs and 1 sale; Web Locks or lease; 2 requests alive | Types and the inductive invariant; is a sale recorded once, is `SYNCED` true; do two tabs run together with no lease run out; with Web Locks, is `SYNCED` final and does the sync implement `SaleBooks`? | all hold: yes, no, yes |
| `SyncLiveness` | 2 sales in 2 batches, 1 tab, lease | Once faults end, does every pending sale settle? | yes, with recurring triggers |
| `SyncWithdrawn` | 1 sale | "elle n'existe nulle part cote serveur": is a withdrawn sale never recorded? | **no**: withdrawn while its push is in flight |
| `SyncMissedTrigger` | 2 sales, no fault | Is a sale synchronised without anyone asking again? | **no**: rung up during a run that had listed before |
| `SyncPoison` | 2 sales in one batch | Do valid sales settle next to a malformed one? | **no**: the push is refused as a whole |
| `DeskBooks` | 2 sessions, 2 sales, 1 expense, 1 customer | Do running sums match the rows; is a customer owed money; is more given back than was received; is a drawer negative while its cash sales stand; what moves a closed summary? | all hold: late sales and staff cancellations only |
| `DeskOverdrawn` | 1 sale, 1 expense, a cancellation | Can an open session always be closed? | **no**: sold, spent, then cancelled |
| `InventoryStock` | 1 product, 2 sales of up to 2 units, 3 inbound movements, costs 0 and 2 | Types; does the stock match the rows, the average stay among the costs, a shortage have its sale, the value survive? | all hold |
| `TillSale` | 2 tabs that stay open, or one where anything fails; 1 product, 2 carts, 1 sale | One active cart; are units lost or sold twice; can a checkout have nothing to collect; does the server accept what was paid? | all hold, up to the first race |
| `TillRefused` | 1 tab, a weighed product whose line falls between two francs | Does the server accept every sale the terminal recorded? | **no**: the roundings differ |
| `SubmissionsResend` | 2 gestures, 3 requests, 3 keys | What do the keys keep single, through cuts, edits, refusals and late copies? | all hold |
| `ShiftClosing` | 2 tabs, 2 sessions, 1 sale, other terminals | Is a session closed to the end sold in again; did it leave anything; whose session is sold in? | all hold |

More disagreements between the code and its documents are not runs of their own; what the passing runs state is what remains true.

* `syncLock.ts:82` promises "at most one pending-sales sync across all tabs".  The lease does not keep that: one that runs out under a live run
  (a suspended tab, whose heartbeat stops) lets a second tab in, and the first goes on with the batch it has.  `OneRunAcrossTabs` says that
  nothing else does, with either lock; with FALSE for `lapsed` in it, it is violated with `LockKinds = {FALSE}`.  So is
  `SyncedIsTerminal` without the condition `webLocks`, when the cashier may also log out (without what `MCOfflineSync!OneSale` asks of the
  lease): `markLocalSaleConflict` does not look at the status it overwrites and turns `SYNCED` into `CONFLICT`.
* `README.md:324-326` says that there can never be a `COMPLETED` sale that the closing report does not count, nor a sale accepted after
  `CLOSED`, and `expenses/services.py:179-180` that the report of a closed session never changes.  `complete_offline_sale` accepts a sale of
  before the closing after it (as `README.md:417-419` says), and staff cancel sales of closed sessions (`sales/services.py:631`).
  `ClosedReportMovesWithSales` says how far the report may move; without `late` in it, or without `undone`, it is violated in `DeskBooks`.

`Shift` without `clean` in `NeverSoldAgain`, and `Submissions` without `disturbed` in
`OneGestureOneRow`, show the cases named in section 2.

### Bounds, and why they are enough

* `Sales`, `Tabs`, `Slots` (1 or 2): the hazards are between two runs, two requests, or two
  sales of one batch.  `Slots` limits requests alive at once, not how many are ever sent: a slot is free
  again when neither the client nor the server holds it, so retries go on for ever.
* `BatchSize` is 1 or 2, for 50 in the code: a batch with a second event, and a second batch.
* `MCOfflineSync!Explored` unites two instances in one run: one tab with two sales of every nature on Web Locks, and two tabs with
  one sale rung up before the closing, which on the lease is valid and of a cashier who stays logged in.  A sale that is refused
  anyway is on time, and what follows a sale of after the closing is of after the closing.  `OnTimeSpec` leaves out sales rung up after
  the closing in the liveness runs.
* `MCCashDesk!Explored`: `OneUnit` has two sessions and one unit at a time, with cancellations, late sales and an opening balance of the drawer
  while at most one of the sessions is open; `OneOpenSession` has one session with two units in its drawer, partial returns and the whole ledger.
  Each session has its register (`OwnRegister`).  `MaxBook` caps what repayments and adjustments add up to.
* `InventoryStock` has one product: the services treat the lines of a sale one by one, and two lines meet only in
  "some line is short".  `MaxStock` caps what receptions and counts add up to (sales have no such
  cap: the stock goes down to -4); `MaxEntries = 3` allows two lots and a return, or a lot, a
  cancellation and a return, at different averages; the costs 0 and 2 with `Cent = 4` give free lots,
  averages that fall on a half, and a purchase price that differs from the cost it came from.
* `MCTill`: a tab is either steady or faulty for a whole behaviour, and a second tab stays open only next to a steady one: a fault is
  between a tab and the table, a race between two tabs or between a tab and its own queue.
  `NotRaced` stops at the first race.  `Few` puts two units in, and with two tabs gives a line one of them and opens one dialog at a time.
  `MaxQueue = 2` lets a gesture come while a write and a read are waiting.
* `SubmissionsResend`: three requests are an attempt, a resend and one more after a refusal or by a second form; two gestures share the drawer,
  the debt and the sale; amounts of 1 and 2 let an edit and a drawer that is too small happen.
* `MCShift!Explored`: one current-session answer and one closing in flight at a time; staff have one tab, since whose session they
  sell in is not restricted.  Two sessions: the one that is closed and the next one.
* Symmetry: tabs, requests, sessions of `CashDesk` and sales, in runs without liveness.  The sales of
  `OfflineSync` are ordered and are not symmetric.
* The `Desk` and `Inventory` configurations say `CHECK_DEADLOCK FALSE`: with every id of the instance used and every
  book full, there is nothing left to do.

### Fairness

`FairSpec` assumes that each tab goes on (timers fire, awaited calls resolve), that handlers
run, that a lease without heartbeat expires (its clock goes on), that faults end (`Stabilise`) and that
someone logs in.  `RecurringTriggers` adds that the application keeps calling `syncPendingSales`: on
reconnection, on mount, from the buttons of `PendingSalesPage` and of the closing screen.
`SyncMissedTrigger` shows that without it a sale can stay pending for ever, with no fault at all.
Nothing assumes that the cashier rings up, withdraws, cancels or closes anything.  The other modules are about safety and
assume no fairness: what they leave waiting, a cashier has to take up again.

## 4. The proofs

`OfflineSyncProofs`, for any sets of sales, tabs and requests, and any batch size:

* `TypeCorrect`: `Spec => []TypeOK`.
* `SyncInvariant`: `Spec => []SyncInv`.  `ExactlyOnce` alone is inductive, given types: the insert is guarded by
  the primary key.  `SyncedIsRecorded` is not: a result is applied long after the transaction that
  made it true.  `AcceptedIsRecorded` says that an accepted result in an answer or in a run is about a
  recorded sale, and rows are never removed.  `UnrungIsUntouched` (a sale not rung up
  is in no request) is needed for the refinement: `Record` requires a rung sale.  `RunnerOwnsLock` says that a tab
  which runs owns the lock unless its lease ran out, and `LapsesAreKnown` that an owner whose lease is dead has lapsed and that a Web
  Lock never does: every take-over, release, reload and heartbeat must keep both, and two owners cannot be.  `ListedIsWaiting` holds with
  Web Locks: what a run has listed and not settled is pending or withdrawn, because no one else could settle it.
* `LockExcludes`: two tabs run together only after a lapse (the owner check of `acquireLease`, `renewLease` and `releaseLease`), and a run on a Web
  Lock never lapses.
* `SaleRecordedOnce` and `SyncedSaleIsRecorded` (either lock), and
  `WebLocksKeepSynced` (about runs on Web Locks: the condition is in the property).
* `SyncImplementsBooks`: each step maps to one step of the books or
  to a stutter as long as the terminal has Web Locks.  Without them it is false, for the reason above.

`CashDeskProofs`, for any sets and amounts:

* `TypeCorrect`, with the references between rows.
* `LedgerNeverNegative`: no customer is owed, with every cancellation and late sale.  Each step that lowers a balance
  compares with it under the customer lock, and a return reduces at most what `ReducibleCredit` returns.
* `DrawerStaysPositive`: the drawer of an open session none of whose cash sales was cancelled is never negative.  Strengthened
  by `UnopenedIsEmpty`: a session that opens starts from zero sums.
* `ClosedReportIsExplained`: a closed summary is the one of its closing, plus the cash of the sales accepted late, less that of the sales the staff
  cancelled since.  `ReportFollowsSale` follows the two sums sale by sale; `ReportedExist` is needed: the sales a closing counted are of
  its session, so that a late sale was not counted and a cancellation elsewhere takes nothing out.  Returns, expenses, cancelled
  expenses and repayments are shown to change an open session only.
* `SumsFollowRows`: the running sums and balances of the model are what the code gets by summing rows.  Each service changes one row of
  each sum and the running sum by the same amount; `ReturnsBounded` (a return gives back at most what was bought, and clears at most
  what it gives back and what the sale still owes) keeps the terms natural numbers.
* `MoneyBackStaysReceived`: inductive only sale by sale (`BeyondIsCovered`): a sale that gave back less than it was paid must not make
  up for another that gave back more.  A return gives money beyond the payments of its sale only when the customer's debt is cleared,
  and then everything owed on his sales was repaid or written off (`SettledIsCovered`), which is where `SumsFollowRows` is used.

`InventoryProofs`, for any products, sales, costs and bounds:

* `TypeCorrect`: stock rows stay well formed, averages are never negative, and of each line no more comes back
  than was sold.  Its work is in lemmas on the operators: `RoundedBounds` (what rounding half up
  returns), `AverageIsCost`, `ReceivedType`, `PutBackType`.
* `CostStaysWithinLots`: `CostWithinLots` is inductive, given types.  `AverageInRange` is the arithmetic: the rounded average
  of two costs with positive weights lies between them, because the ends of the range are multiples
  of the quantum.  The positive weight is the guard `quantity <= 0` of `weighted_average_cost`; a cost frozen on a
  sale stays in range because the set of costs only grows (`InRangeGrows`).
* `StockFollowsRows`: the stock is what came in less what the lines of completed sales took and did not give back.
* `ShortStockStaysTraced`: what is inductive is `ShortIsCovered`: the units out by sales marked short are at least the units missing.
  A cancellation that gives units back takes its own sale out of that sum by the same number.  The attempt to prove it found `Short` of the
  model wrong: it marked a sale for a product below zero that it does not contain, while the code compares only the lines of the sale.
* `ValueFollowsRows`: the value of the stock and of what sales took differs from what was paid by rounding only, at most half a quantum per
  unit in stock for each inbound movement (`InboundWorth`, `ValueIsTracked`).  `RowsAreBounded` bounds those units and says that
  what came in without a cost is marked.

`TillProofs` and `TillSaleProofs`, for any tabs, products, carts, sales, prices and faults:

* `TypeCorrect`, and `AtMostOneActiveCart`: a session never has two active carts, races and faults included, although each tab finds the active cart by
  itself: a transaction looks for the active row and writes in one step, and only one that found none makes one (`PutActiveKeepsOne`).
* `EveryUnitIsKept`.  Units are in the table, on screens and in writes that are waiting, so the argument follows the queues.  A queue
  `Leads` from what is stored to what its last write will store.  Up to the first race (`Core`): one tab at a time has writes or a sale on their way, and every
  other tab has only reads (`OneWriter`); during a checkout the screen shows where the queue leads (`CheckoutHolds`); a hold is
  issued after every write of its queue (`HoldLast`); a resume with a write behind it finds a cart that is not empty and fails (`ResumeFails`); every hold has a free id to take (`RoomInv`).
  `Units` says that what was put in, less what is on hold and what was sold, is what that queue leads to, and once
  the sale is written and the cart not yet emptied, nothing.  Every action is first shown to be of one of a
  few kinds (`Kind`): idle, issuing a read, a write, a transaction, executing one, selling, reloading; each invariant is
  proved once for each kind.
* `SomethingIsDue`: with `Paid`: every payment is of something and receives at least its amount, and a confirmed one leaves something due or
  starts the sale.  Nothing in the page refuses a cart that is worth nothing, at a price of zero: `OpenCheckoutIsDue` makes that exception.
  (The server's check that a unit price is positive is left out of `ServerAccepts`; it matters for such a price only.)
* `RecordedSaleAddsUp`: at any prices, a recorded sale worth something passes every rule of the server as soon as both totals are the same amount.
* `EverySaleIsAccepted`: the same without that condition, for prices that satisfy `PricesAgree`: of every quantity, terminal and
  server make the same amount, and not zero.  Prices of whole francs per unit of sale do (`WholeFrancsAgree`), the
  constants of `TillSale` too; those of `TillRefused` do not, and the run shows the refusal.

`ShiftProofs`, for any tabs, sessions and sales:

* `ClosedForGood`, `ClosedWithNothingLeft`, `SalesAreInOnesOwnSession`, `ShiftTypes`.  `NeverSoldAgain` is far from inductive: a
  closed session must also have no OPEN row in the mirror, be in the cache of no tab and in no answer on its way
  (`Over`).  Where it becomes so is followed through the closing of the only tab (`Orderly`): nothing left when
  the guards are read, closed from the server's answer, out of the mirror and of the answers at the result.  `Watched` and `Alone` say
  what the pages keep meanwhile, `Known` that the terminal knows only sessions that were opened, `LateIsOver` that a late sale is in a
  session that will not open again, `OnlyMine` that the view filters by cashier.  `FirstOpen`, a `CHOOSE` of a least
  element, rests on `LeastElement`.

`SubmissionsProofs`, for any numbers of keys, requests and gestures:

* `OneRowForOneGesture` and `OneReturnForOneVisit`.  What is inductive is `Under(g, k)`: all the rows of a
  gesture, and all its requests that may still record one, are under one key, which the form has.  A key may be renewed only if the gesture
  has come to `Nothing`; `Settled` gives that as long as every attempt was answered: nothing is recorded but by
  the request the form waits for, and that one was refused.  The page of a return has no key at first: `Under(g, 0)` says that nothing
  was sent.
* `AnnouncedExpenseIsAsAsked` (`Announced`: an answer on its way already agrees with the ledger), `NeverCancelledAndReturned`,
  `SubmissionsTypes`.

`SumTheorems` proves what `SumFunctionOnSet` computes for any finite set: the sum without one element, the sum
after one term changed, of a sum of two functions, of one scaled, of a part, and comparisons.  The induction over the set is made by a minimal counterexample:
inclusion of finite sets is well founded, and a family of subsets that break the claim would have a smallest member.

Assumptions are those of the modules: bounds, costs and prices are natural numbers; the null
values differ from the others; the tables, the catalogue and the tabs are finite.  `Till` also assumes that there is a product and a row for a cart, and that a line holds
one unit (`Unit <= MaxQuantity`).

What is only model-checked: `SaleSettles`, since liveness and `ENABLED` are out of the prover's reach.  Every invariant and every action
property of the passing runs is a theorem, one of them under a condition on the constants that the runs satisfy
(`EverySaleIsAccepted`).  The runs that expect a violation refute what they check on the instance that they explore.

## 5. Not modelled

* The order of the row locks of the services (a cancellation locks the sale before its session, a return the session before
  the sale), and two first sales that create the same stock row: each service is one step, two in `Submissions`.
  PostgreSQL aborts one of two transactions that wait for each other, and nothing is written.
* The server's stock behind the terminal's: after a synchronisation the pending quantity goes down before the stock is read again.  `Till` lets the stock of the terminal
  move to any value, and does not have the repair of `db/recovery.ts` nor the pending credit of a customer.
* Refunds of fractions of a line, rounded one by one (`sales/services.py:790`), and the parsing of typed amounts.
* The catalogue pull endpoint: nothing in `frontend/src` calls it.
* Expenses of the administration, creation of customers, catalogue, stores, users: rows without a protocol.
* Rendering, lists, receipts, navigation that changes nothing, dashboards (read only), analytics, logging, PWA caching.
