# Order system v2: formal models

TLA+ models of the backend of the order system (`src/backend/app`): the life of
an order from entry over allocation, purchasing and delivery to its invoices,
the numbers these documents carry, the amounts they bill, the products, suppliers
and customers they refer to, and the batch jobs beside them. The code is
the reference; documents are quoted only where they state a rule that the code
is checked against. Sources below are relative to `src/backend/app`.

## 1. The system

The backend is a FastAPI application over PostgreSQL. A request runs in one
session (`db/session.py`: autoflush off, READ COMMITTED) and ends in one commit;
nothing is shared between requests but the database. There is no version column
and no `SELECT ... FOR UPDATE`: what keeps overlapping requests apart is row
locks taken by updates, unique keys (409 through `core/exception_mapping.py`),
and the upsert of the yearly invoice sequence.

| Component | State | Operations | What makes it correct |
|---|---|---|---|
| Orders, lines (`api/routes_orders.py`) | `orders.status`, `order_items.line_status` | create, edit, delete, bulk-transition, bulk-cancel | a shipped or billed order is not taken back; no row refers to a deleted line |
| Allocations (`api/routes_order_item_allocations.py`, `routes_allocations.py`) | `supplier_allocations`, and `line_status` | suggest, bulk-save, override, split | status of lines and orders fit together; a line has one current plan |
| Purchase results (`api/routes_purchase_results.py`) | `purchase_results`, `invoice_qty` as the billed marker | create, update, upsert, defer, undefer | quantities stay within the allocation; suppliers exist |
| Deliveries (`core/deliveries.py`, `api/routes_deliveries.py`) | `deliveries`, `delivery_items` | build, refresh; called by edit, transition, finalize, reset and drafts | exists exactly for shipped orders, lists all lines, keeps its number |
| Invoices (`api/routes_invoices.py`) | status, lock, items, official number | draft (5 ways), finalize, batch, reset, unlock | lines and orders follow the finalized invoices; a number is given once and kept |
| Amounts (`api/routes_invoices.py`, `core/invoice_pricing.py`, `api/routes_system_settings.py`) | quantity, price, amount and cost of items, totals, `system_settings` | generate, edit by id and by uuid, recalculate, change settings | totals are the sums of the items; what is finalized stays |
| Numbers (`core/numbering.py`) | columns of all tables, `invoice_number_sequences` | next tracking, line, delivery, draft and official number | a number names one thing |
| Batch jobs (`api/routes_batch.py`) | `batch_jobs` | enqueue, poll, cancel, retry | one job per key, one active job per date, finished jobs stay finished |
| Master data (`api/routes_products.py`, `routes_suppliers.py`, `routes_customers.py`, `routes_supplier_product_mappings.py`, `core/codegen.py`) | `products`, `suppliers`, `customers`, `supplier_products` | create, update, archive, delete, map; bulk requests and imports | codes and keys are unique; what is referred to exists; an import says what it stored |
| Reports, PDF, auth, audit, metrics, frontend, migrations | | | not modelled, section 8 |

How they interact: finalize and reset of an invoice recompute the status of
every line and order it bills (`_sync_order_statuses_for_invoice`), and a changed
order gets its delivery document refreshed, which numbers deliveries and their
lines. Bulk-save sets line statuses behind the order's back; drafts from purchase
results set the billed marker that purchase updates can clear. Costs of draft
items are computed from purchase results, product weights and the settings.
Allocations and results name suppliers, and nothing keeps these from being
deleted; orders, lines and mappings refer to master data by foreign keys.

What is hard: sequences of legal requests nobody tested together (two invoices
of one line, reset after an unlock, lines added to a billed order); checks on
rows read without a lock; updates that write only the columns a request changed;
read-maximum-add-one numbering; locks taken in the order of a batch; items of an
import that fail at their savepoints while others go on; crashes between taking
a number and the commit. PROJECT.json lists them one by one, at their lines.

## 2. Modules

| Module | Models |
|---|---|
| `OrderBilling` | the core: orders, lines, allocation and purchase progress, deliveries, invoices; one atomic step per handler |
| `InvoiceLedger` | abstract: what invoicing promises of one invoice and its number; `OrderBilling` implements it |
| `InvoiceRequests` | finalize, batch, reset and unlock as overlapping transactions, statement by statement |
| `NumberRegister` | abstract: what these transactions leave of the official numbers, however they overlap; `InvoiceRequests` implements it |
| `BatchJobs` | job requests that load, check and commit in separate steps |
| `DisplayNumbers` | the read-maximum-add-one generators under overlapping requests, with unique keys and patterns that run out |
| `Purchasing` | allocations, purchase results and the suppliers they name, under overlapping requests |
| `DraftAmounts` | what items and invoices bill, and the settings costs come from, under overlapping requests |
| `MasterData` | products, suppliers, customers and mappings: single rows, bulk requests and imports, under overlapping requests |
| `DocumentedRules` | a rule of the documents that `OrderBilling` does not keep |
| `Sums` | lemmas about sums over finite sets, for the two modules that add quantities and amounts |
| `OrderBillingProofs`, `InvoiceRequestsProofs`, `BatchJobsProofs`, `DisplayNumbersProofs`, `PurchasingProofs`, `DraftAmountsProofs`, `MasterDataProofs` | theorems about the module of that name |
| `MC...` | finite instances for TLC |

Operators whose name ends in `_Something` and whose comment starts with "Mutant"
are altered copies of the definition below them, used to confirm that a property
can fail; no specification uses them.

### OrderBilling

Handlers are atomic here, as when requests do not overlap; `BulkCancel` cancels a
set of orders in one step as its request does, and a finalize-batch, which goes
through its invoices one by one, is as many `FinalizeInvoice` steps (that it is
one transaction is in `InvoiceRequests`). `orderStatus`,
`lineStatus`, `invStatus`, `locked`, `official` and `nextSeq` are columns;
`"absent"` stands for no row. `items[i]` is the set of lines of invoice `i` and
`supply[l]` says how far a line has come: no allocation, an allocation, a
purchase result, a purchase result with `invoice_qty`. Every handler that calls
`ensure_delivery_document` contains `EnsureDeliveries`; finalize and reset
contain `SyncOrderStatuses`. `Init` is the empty database or what
`scripts/seed_frontend_mock_data.py` leaves: no handler confirms an order, so the
seed is where confirmed orders come from. One allocation and one purchase result
per line; quantities, prices and dates are left out, and so are the refusals that
depend on them (they change nothing).

### InvoiceRequests

`db[r]` is the committed row, `tx[c]` the transaction of client `c`: the invoice
as loaded (`snap`), its flushed and uncommitted rows (`own`), the lines in the
session's memory (`seen`). Writing a row waits until no other transaction has
written it; the flush writes the columns that differ from the loaded ones over
the row as it is then. The code flushes the statuses of lines and order row by
row; `ApplySync` waits for all of them and then writes, so some deadlocks are left
out, whose victims `Crash` covers. A refused invoice of a batch is skipped, a deadlock aborts
one of its transactions, and any transaction may be lost. The invoices bill one
order that has been shipped, so that its delivery exists. `commits` counts
committed transactions and `tx[c].at` is its value at the start of one: both only
record, no guard reads them. `Ahead(c)` are the clients that `c` waits for,
directly or through others; a client ahead of itself is in a deadlock.

`NumberRegister` gives out 1, 2, 3 ... . A committed transaction is one step of it,
`Issue` or `Reopen`, everything before its commit is none, and one that is rolled
back never was. It differs from `InvoiceLedger`, which `OrderBilling` implements
without overlap, in one thing: an invoice that has a number may get another one,
because two requests may both have found it without (section 7).

### BatchJobs

A request loads and checks in one step and commits in another; other requests
may do both in between. The commit of a poll, cancel or retry writes what follows
from the row it loaded. Jobs stored as `failed` come from outside: no handler
sets that status.

### DisplayNumbers

A number is its parts: a tracking number has a day and a sequence; an order line
the sequence of its order and a line; a delivery line also a branch. A request
reads (`Begin...`, `NumberLine`, `LoadOrder`, `NumberDelivery`, `FindDelivery`)
and commits later, when unique keys are checked; a line that was deleted is not
numbered anew while a request in flight refers to it, as its id would not come
again. `Limit` is the largest number a
pattern can read: a longer one is invisible to `_max_sequence`. Days only move
forward. `legacy_id` is left out; it makes more overlapping requests fail, which
`Rollback` allows at any time. Orders always have a tracking number here (the
seeded ones do not).

### Purchasing, DraftAmounts and MasterData

These three share one form. A request loads what it reads, checks it and goes in
flight (`Load...`); its commit writes later (`Commit...`), and others come in
between. `tx[c].old` and `tx[c].new` are the row as loaded and as changed: the
commit writes the columns in which they differ. `commits` counts committed
requests and `tx[c].at` is its value when the request began; a request is *stale*
when another one has committed since (`Stale`; likewise in `InvoiceRequests`). The
properties say what may go wrong only through stale requests, which is: what holds
as long as requests do not overlap, and exactly where overlapping ones break it.

`Purchasing` has the rows and columns the handlers compare: supplier, quantity
and split mark of an allocation; allocation, supplier, quantity and deferral of a
result. `Ordered`, the quantity of the lines, is a constant. `WithinLimit` is
`_validate_quantity_limit`, `Current` the allocation that bulk-save and the work
list take for the only one of a line.

`DraftAmounts` computes in integers, in cents; prices that edits send are in
tenths of a cent, and `Amount` rounds half up, so that a line amount, which the
code computes from the unrounded price, can differ from quantity times stored
price (`Fits` allows what rounding does). An edit or a recalculation first sends
its rows, then reads the amounts of all items for the total (`read`), and commits
last; in between others commit. A recalculation reads settings and rows in one
step. The tax amount is 0 in every row the handlers write; rows of older versions
with another tax amount are left out.

`MasterData` has one set of rows for the three tables (`TableOf`), because their
handlers are alike. A code is a number: a negative one is another spelling of the
same number, as bulk requests may send (`sku-7` for `SKU-00007`);
`generate_next_code` reads both. A batch looks up one item (`Look...`), flushes
it (`Flush...`), keeps what it flushed in `pending` and commits at its end. What a
batch has flushed makes inserts of the same key and writes of the same row wait
(`InsertWaits`, `UpdateWaits`); two batches that wait for each other are a
deadlock, and one of them is chosen; so is a batch that meets a bulk delete, whose
rows go one by one (`MeetsPurge`; a bulk delete that is chosen is a `Rollback`, and
apart from this deadlock it waits for all its rows at once). An import reports an
item that fails and goes on; a bulk request ends. The updates of single rows, of
mappings and in bulk pass an explicit null on to columns that must not be null
(`SetsNull`), and the database refuses it before it looks for locks; an import
takes null and blank for a field that is left out (`LeftOut`). When the row an import updates was deleted, its except
branch reads the row again, so that the whole import ends (`FlushFindsNoRow`).
`name` stands for all columns that must not be null. Left out: an `active` of an
import that is a raw string, which the database refuses. Preference and priority
of a mapping are one rank.

## 3. Runs

| Run | Instance | Shows |
|---|---|---|
| `billing` | 1 order, 2 lines, 2 invoices | orders, lines, deliveries and invoices agree after every sequence of handlers |
| `numbering` | 2 orders with a line each, 3 invoices, 2 years | official numbers: unique, without gap, permanent; billing stays within one order; `InvoiceLedger` is implemented |
| `requests` | 2 invoices, 2 clients with one and two requests | under overlap, deadlock and crash numbers are those of a register, a finalized invoice has one, statuses follow the invoices but for stale requests, nobody waits in vain, every request ends |
| `batch_jobs` | 3 jobs, 2 dates, 3 keys, 2 clients | what the unique key and the active-job check guarantee |
| `display_numbers` | 2 orders, 2 lines, 2 days, 2 clients, 1 draft per order, `Limit` 2 | lines of an order keep different numbers, tracking numbers name one order, deliveries keep theirs but for stale requests |
| `purchasing` | 1 line, 3 allocations, 2 results, 1 supplier, quantities 1 and 2 of 2 ordered, 2 requests | the quantity limit, the one plan of a line and the supplier of a row hold unless requests overlap |
| `draft_amounts` | 1 invoice, 2 items, 2 quantities, 2 prices, 2 settings, 2 clients, 3 requests | totals, amounts and finalized content change only as stale requests let them |
| `master_data` | 3 products, 1 supplier, 1 customer, 8 batches, 3 initial states, 2 clients, 3 requests | but for nulls checks suffice unless requests overlap; what is referred to exists; answers of batches are true |
| `double_billing`, `renumbering`, `line_numbers`, `frozen` | smallest instance each | a rule the documents state and the code does not keep, section 7 |

Why these bounds are enough. Two invoices of the same lines are what makes the
status of a line depend on more than one invoice; two lines make an order partly
invoiced; a third invoice adds a number between two of a year and one in another
year; two orders show what reaches across. Two overlapping transactions
show every lost update and deadlock between two, and a third request meets what
the first two leave; the initial states of `requests` are all mixes of fresh,
reopened, finalized and unlocked invoices. Two lines with deletion reach the
number behind `Limit`, and two days give two orders the same sequence.
`purchasing` starts from tables that earlier requests leave without overlap: a
line without allocation, with one, or with one that is split in two, and some of
these with a result of their supplier within their quantity, so that two requests
show one overlap in each of these states; three allocations are a plan and two
parts. Two items make a total that two edits compute from different rows,
and 24 tenths of a cent is a price that rounds. The batches of `master_data`
update and create in opposite orders, name a key or a code twice, lack a name, ask
for a null and spell a code in two ways. All but a few of these properties are proved for all sizes as
well (section 5).

Symmetry is used where the permuted values occur alike in the constants
(`numbering` permutes orders together with their lines), never with liveness.
Deadlock is not checked where the bound on requests, keys or days really ends the
behaviour; in `OrderBilling` it is checked. `MaxCommits` counts requests that have
committed or are in flight, `MaxRequests` those a client sends.

Fairness. Only `RequestsEnd` needs it: a transaction that can take its next
statement does, and PostgreSQL breaks each deadlock it finds. Nothing is assumed
of clients, and crashes are never forced. Jobs get no fairness: only a poll moves
a job, and no client in the repository polls, so that a job ends is not claimed.

## 4. Properties worth reading first

- `BilledLineIsInvoiced`, `ReopeningFreesLines`: lines and orders follow all
  invoices, not the one just handled. The exception (`"allocated"`) is in the
  code: bulk-save resets any line.
- `DeliveryExactlyWhenShipped`, `StatusChangeRefreshesDelivery`: four ways lead
  to shipped, and each leaves a full delivery. Lines added later are only
  included at the next refresh; that is the code's behaviour and not hidden.
- `NumbersHaveNoGap`: without overlap no official number is lost.
  `ImplementsRegister`: with overlap and crashes neither; a rollback gives its
  numbers back and the row of the sequence makes the next one wait. What overlap
  does break is that an invoice keeps its number (`renumbering`).
- `UnsyncedOnlyByStaleRequest`: the sync of a finalize or reset reads the
  committed invoices and its own, statement by statement, some rows from the
  session's memory, and flushes only what differs. That is enough, in a batch of
  any length, unless another request commits in between; then a line can stay
  shipped that a finalized invoice bills, and the next sync puts it right.
- `WaitsAreResolved` and `RequestsShrink`: the two halves of `RequestsEnd` that
  can be stated without fairness. A chain of waiting requests ends in one that can
  go on or in a deadlock, and whoever goes on has fewer statements left.
- `FinishedChangesOnlyByStaleRequest`, `DeliveryRenumberedOnlyByStaleRequest`,
  `IssuedChangesOnlyByStaleRequest`: the exact circumstances under which the code
  does change what should be final.
- `UnbalancedOnlyByStaleRequest`, `TornOnlyByStaleEdit`: a total and its items, a
  quantity and its amount are in different columns or rows, and updates write only
  what changed.
- `AnswersAreTrue`: the counters of an import are kept apart from the session, in
  which its savepoints come and go.
- `RefusedOnlyIfStaleOrNull`: but for null, which updates pass on unseen, what the
  handlers check is all that the constraints ask: a generated code is free, a row
  in use is not deleted. Any other refusal means an overlap.
- `LinesOfAnOrderDiffer`: two lines of an order never show one number, on the order
  or on its delivery, even if the delivery is renumbered between them, when the
  unique key would let them.
- `BillingStaysInOneOrder`: the sync is written for all orders of an invoice and
  drafts from purchase results take the results the request names, but opening,
  finalizing or reopening one invoice touches the lines and the status of one
  order. (Bulk cancel does change several orders, each by its own status, and a
  finalize-batch several, one invoice after the other.)

The properties named `...OnlyByStale...`, `OverbuyIsStale`,
`DanglingSupplierIsUnchecked` and `RefusedOnlyIfStaleOrNull` except the overlap that
causes what they speak of. They do not say that the hazard is absent: the overlap
is in the code and the models show it. They say that it is the only cause: every
other path, refused and failing requests included, is free of it.

## 5. Proofs

Every property of a passing run is proved for all values of the constants, except
those named at the end of this section. The assumptions are the `ASSUME`s of the
modules: functions such as `OrderOf` map lines to orders, numbers are natural,
`Null` is no value, sets that are counted or added over are finite (clients,
results, the items of an invoice), settings hold what their columns do (a positive
rate, no negative margin or freight), and the initial rows and batches of
`MasterData` are such as the handlers and schemas let through.

`OrderBillingProofs`:

- `TypeCorrect`: `TypeOK` is inductive as it stands.
- `ShippedForever`, from types alone: only `BulkCancel` and the transitions
  could lower a status and their guards exclude it. `BilledOrderShipped` and
  `DeliveryWhenShipped` add one invariant each.
- `NoDangling`: every handler that makes a row takes its lines from those that
  exist; deletion looks at all three tables.
- `BilledLineInvoiced` needs `BillingInv`, the conjunction of types,
  `BilledOrderIsShipped` (otherwise a manual transition could move a billed line
  from `allocated` to `purchased`, or cancel could strike it), `NoDanglingRows`
  (otherwise the sync could pass over a line) and the property.
- `UniqueNumbers`, `GaplessNumbers`, `LockedIssued` and `ImplementsInvoiceLedger`
  rest on `NumberInv`: every sequence row is at least 1, the numbers in use in a
  year are exactly those below its sequence, and no two agree. Uniqueness alone
  is not inductive: that the next number is free follows only from all numbers
  being below the sequence.
- `ImplementsInvoiceLedger`: under `phase`, `number`, `issued` the initial states
  agree and every handler is a step of `InvoiceLedger` or a stutter.

`InvoiceRequestsProofs`: `NumberInv` speaks of committed rows and of rows
flushed by transactions in flight at once. No two transactions have written the
same row, so at most one has moved the sequence; every number recorded or held
by a reader of the sequence is below the value it sees; and no number is claimed
for two invoices, whether it is on record, answered, flushed, or taken and about
to be saved. `FinalizedNumbered` rests on `NumberedInv`: an official number that
was given is not taken away, neither by a flushed row nor between loading and
saving an invoice.

- `SyncSuffices` (`UnsyncedOnlyByStaleRequest`) needs `SyncInv`: a transaction that
  is not stale sees one state of the database with its own writes over it; what
  its session remembers of a line or the order is what it sees; between two
  invoices lines and order are as this state wants them, once they were or once it
  has run a sync; and before a flush the plan is exactly what sets them right.
- `ImplementsNumberRegister` (`ImplementsRegister`) needs `RegisterInv`: the
  sequence a transaction sees is the committed one plus the invoices it has
  numbered, plus one for a number it is about to save. With `NumberInv` these
  invoices have different numbers of that range, so that the commit is an
  `Issue`; a transaction that finalizes nothing has numbered nothing, and its
  commit is a `Reopen` or a stutter.
- `StatementsRunOut` (`RequestsShrink`): each statement lowers `Remaining`, for
  lists of any length.
- `NobodyWaitsInVain` (`WaitsAreResolved`): only requests in flight hold rows.
  Were all that `c` waits for themselves waiting, take one with the fewest ahead:
  those ahead of it are ahead of the one it waits for as well, which therefore is
  ahead of itself. That needs finitely many clients and no bound on the length of
  a cycle, where two clients in a run only have cycles of two.

`BatchJobsProofs`: `IInv` adds to the types what each request in flight had
checked. For `ActiveBounded` the invariant is `Charged`: the jobs of a date that
are active, or that a request in flight can make active, can be charged to
clients, each to one of its own that is not enqueuing. A request that begins finds
no active job, so that only those are left which other clients are moving; an
enqueue that commits is charged with its own job.

`DisplayNumbersProofs`: types need that a maximum taken over the numbers a pattern
reads is at most `Limit`, so that no number is more than one above it. `LinesDiffer`
rests on `LineInv`. The numbers of an order's lines are kept apart by the unique
key of `order_line_no`; those on a delivery are not, since its key contains the
number of the delivery. There it counts that of two requests which overlap
and number lines of one order, one always fails (`Able`): they have a line in
common, and each line has one item. For
`DeliveryNumberIsStable`, `DeliveryInv` says that the order of a delivery on record
has a delivery number, and that a request which has loaded that number goes on
with it.

`PurchasingProofs` and `DraftAmountsProofs` have one idea in common: as long as
nobody else commits, the rows are as the request loaded them (`Fresh`, `Current`),
so that a commit that is not stale does to the tables what was checked.
`TotalsBalance` needs no fact about sums except that equal amounts have equal
sums. `EditsAreWhole` needs the arithmetic of rounding: amount and price each are
off by half a cent at most. `LimitIsKept` (`OverbuyIsStale`) compares the sum of
what was bought before and after a row is written: its invariant `Weighing` says of
a request that is not stale that the sum without its own row, and its quantity,
are within the limit it read. `TypeCorrect` of `DraftAmounts` says that amounts,
costs and totals stay whole and non-negative through rounding, division by the
exchange rate and summing (`Typed`), and that requests keep to their bound
(`Budget`, by counting the clients in flight).

`Sums` has the facts these rest on: a sum is any element and the sum of the others
(`SumSplit`), a natural number (`SumIsNat`), and the same for values that agree
(`SumsAgree`). The sum of the library is a fold, a recursive function on
sets; that it is what one expects is shown by induction on their size, stated for
a set of natural numbers instead of a predicate (`NatSetInduction`).

`MasterDataProofs`: `StepCases` names the five kinds of steps (loading, the work
of a batch between its items, commit, an order elsewhere), and each invariant is
shown for each kind.

- `TypeCorrect`: a request may ask for a row whose name is null (`Asked`); what is
  flushed or committed has passed `SetsNull`, which makes it a `Row`.
- `ChecksSuffice`: what was checked holds until another request commits;
  `LargestIn` shows that a finite set of numbers has a largest, so that the code
  generated is one no row has.
- `AnswersTellTheTruth` needs `Apart` and `Counted`: two batches never hold the
  same row, because new rows have new ids and updates wait; each counts as created
  the rows it holds that are not committed; and commits of others neither remove
  these rows (deletions wait) nor add them.
- `ReferencesExist`: a request that ranks a mapping finds it or has been told that
  it is gone.

Four theorems state properties that no run checks, because other properties of
the runs contain them: `PermanentNumbers` (in `ImplementsLedger`), `UniqueNumbers`
and `FinalizedNumbered` of `InvoiceRequests` (in `ImplementsRegister`, and steps of
its proof) and `OneOrderInvoices` (no draft bills lines of two orders, a step of the proof of
`OneOrderSteps`).

Only model-checked: `RequestsEnd`, since liveness under fairness is out of the
provers' reach, as is ENABLED (that a request which `CanGoOn` really has a step is
therefore seen in the run only; by hand, `RequestsEnd` follows from
`StatementsRunOut`, `NobodyWaitsInVain` and the fairness of section 3); and the
four violations, which are behaviours.

## 6. Plan

Done: the modules and proofs above. What could be added next:

1. joining `InvoiceRequests` with the delivery renumbering of `DisplayNumbers`,
   so that a finalize and an order edit overlap;
2. `ordered_qty` as a column in `Purchasing`, once a document says what lowering
   it does to allocations and results;
3. an abstract specification of a job in `BatchJobs` whose steps are those the
   catalogue of the API allows, and a statement of which stale requests step
   outside of it, in the place of `FinishedChangesOnlyByStaleRequest`.

## 7. Where code and documents differ

Checked by a run (PROJECT.json, findings, has the lines):

- a line can be billed in full by two finalized invoices (`double_billing`);
- overlapping finalize requests renumber an invoice (`renumbering`);
- line numbers leave out the day, so the first line of the n-th order of a later
  day cannot be created (`line_numbers`);
- an edit or a recalculation that overlaps a finalize changes what the finalized
  invoice bills (`frozen`).

Certain from one handler, or visible in a passing run, and without a run of its
own:

- a purchased or shipped order cannot be cancelled (`api/routes_orders.py:511-512`,
  `524-531`), though `docs/status-transition-draft.md:85` says "Allowed from: `new`,
  `confirmed`, `allocated`, `purchased`, `shipped`". `ShippedIsForever` is about the
  code: it holds because of this refusal, and a cancel as documented would break it;
- an import of customers, suppliers or products ends as a whole, with nothing
  stored, when a row it updates was deleted meanwhile (`FlushFindsNoRow`;
  `api/routes_customers.py:300-301`), though the except branch is there to report
  the item and `docs/counterparty-import-work-instructions.md:55,270` have the other
  rows go on;
- an explicit null of a required column passes the schemas of the update requests
  and is refused by the database only; in a bulk update, which reports products that
  are missing item by item, it ends the whole request (`FlushNull`;
  `api/routes_products.py:269-273`);
- an unlocked invoice cannot be finalized again: 409
  (`docs/invoice-lock-and-concurrency-draft.md:167`);
- a recalculation before a second finalize is not enforced
  (`docs/invoice-rules-draft.md:138`), and there is no version check
  (`docs/invoice-lock-and-concurrency-draft.md:82-88`);
- a confirmed order whose lines bulk-save has allocated cannot follow them, since
  the transition expects the lines to be open (`api/routes_orders.py:470`,
  `docs/status-transition-draft.md:25-26`);
- overlapping enqueues start two jobs of one date
  (`docs/architecture/03-api-catalog.md:201-203`); `ActiveAtMostClients` says how
  many;
- the suppliers of allocations and results are documented as foreign keys
  (`docs/db-dual-uom-draft.md:104,135`) and are plain columns;
  `DanglingSupplierIsUnchecked` says which requests leave one that is gone;
- purchases can exceed an allocation in spite of
  `PURCHASE_QTY_EXCEEDS_ALLOCATION` when requests overlap; `OverbuyIsStale` says
  that only then;
- finalize moves an order from any status, `cancelled` included, to shipped or
  invoiced, though `docs/status-transition-draft.md:8-13` gives one flow and
  rules out automatic promotion (line 26, 29);
- a manual shipped to invoiced transition needs no invoice (same, 70-73);
- reset leaves `invoice_line_status` as it is (`docs/invoice-rules-draft.md:137`).

## 8. Not modelled

Reports, PDFs and the frontend keep no state of their own. Authentication is a
check of roles per request; audit and metrics are written and never read by a
handler. Migrations run when nothing else does. Within the modelled parts are
left out: the fallback of numbers for rows without a tracking number and the
`legacy_id` counter; the validation of single fields of an import item, of which
only the outcome is kept; changes of `ordered_qty` in `Purchasing`; tax amounts
other than 0; margins, which lists compute and nobody stores.
