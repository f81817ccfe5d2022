---------------------------- MODULE DraftAmounts ----------------------------
(***************************************************************************)
(* What an invoice bills: the quantities, prices, line amounts and cost    *)
(* bases of its items and the total in its header, from the generation of  *)
(* a draft over its editing and recalculation to finalize and reset        *)
(* (routes_invoices.py, core/invoice_pricing.py), and the system settings  *)
(* the costs are computed from (routes_system_settings.py).                *)
(*                                                                         *)
(* Amounts are integers, in cents; the prices an edit sends are in tenths  *)
(* of a cent, so that rounding shows.  Every row has the tax amount 0      *)
(* (all handlers write 0), so subtotal and grand_total are the same total. *)
(* Numbers and statuses of orders are in OrderBilling and InvoiceRequests. *)
(***************************************************************************)
EXTENDS Integers, FiniteSets, Functions

CONSTANTS
    Invoices,       \* invoices rows that may exist
    ItemsOf,        \* the invoice_items rows each of them has or will have
    WeightOf,       \* products.freight_weight of each item
    Quantities,     \* the quantities requests name
    Prices,         \* the sales prices requests name, in tenths of a cent
    Costs,          \* unit costs of purchase results, in yen cents
    Settings,       \* what requests set the system settings to
    Clients,        \* requests served at the same time
    Null,
    MaxCommits      \* bound: requests that commit or are in flight

Items == UNION {ItemsOf[i] : i \in Invoices}

ASSUME ItemsAssumption ==
    \A i, j \in Invoices : ItemsOf[i] \cap ItemsOf[j] # {} => i = j
ASSUME FiniteAssumption ==
    IsFiniteSet(Clients) /\ \A i \in Invoices : IsFiniteSet(ItemsOf[i])
ASSUME NumbersAssumption ==
    /\ WeightOf \in [Items -> Nat]
    /\ Quantities \subseteq Nat /\ Prices \subseteq Nat /\ Costs \subseteq Nat
ASSUME SettingsAssumption ==
    Settings \subseteq [rate : Nat \ {0}, margin : Nat, freight : Nat]
ASSUME NullAssumption == Null \notin Int
ASSUME BoundAssumption == MaxCommits \in Nat

VARIABLES
    invoice,    \* the invoices rows
    item,       \* the invoice_items rows
    settings,   \* the system_settings row
    tx,         \* the request each client has in flight
    commits     \* how many requests have committed

rows == <<invoice, item, settings>>
vars == <<rows, tx, commits>>

InvoiceRows == [status : {"draft", "finalized"}, locked : BOOLEAN, total : Nat]

(* billable_qty, sales_unit_price, line_amount, unit_cost_basis and        *)
(* source_purchase_unit_cost_jpy.                                          *)
ItemRows ==
    [qty : Nat, price : Nat, amount : Nat, basis : Nat \cup {Null}, jpy : Costs \cup {Null}]

SettingsRows == [rate : Nat \ {0}, margin : Nat, freight : Nat]

Idle == [op |-> "idle"]

TypeOK ==
    /\ DOMAIN invoice \subseteq Invoices
    /\ \A i \in DOMAIN invoice : invoice[i] \in InvoiceRows
    /\ DOMAIN item = UNION {ItemsOf[i] : i \in DOMAIN invoice}
    /\ \A k \in DOMAIN item : item[k] \in ItemRows
    /\ settings \in SettingsRows
    /\ \A c \in Clients :
         tx[c].op \in {"idle", "edit", "recalculate", "generate", "finalize", "reset", "unlock", "settings"}
    /\ commits \in 0 .. MaxCommits

-----------------------------------------------------------------------------
(* Prices *)

(* Decimal.quantize with ROUND_HALF_UP of n / d, for d > 0.                *)
HalfUp(n, d) == (2 * n + d) \div (2 * d)

(* _amount of an amount in tenths of a cent. *)
Amount(n) == HalfUp(n, 10)

(* _compute_auto_sales_unit_price: (cost / 20 + 50) / 0.75, 0 without a cost. *)
AutoPrice(jpy) == IF jpy = Null THEN 0 ELSE HalfUp(jpy + 100000, 15)

(* compute_hkd_purchase_unit_cost, for a margin above 0.                   *)
UnitCost(jpy, w, s) ==
    IF jpy = Null THEN Null
    ELSE LET d == s.margin * s.rate IN HalfUp(jpy + s.freight * w * w * d, d)

(* INVALID_SYSTEM_SETTINGS: a margin of 0, which the settings may have,    *)
(* refuses every computation of a cost.                                    *)
CostsComputable(costs, s) == s.margin > 0 \/ costs \subseteq {Null}

Total(row, S) == SumFunction([k \in S |-> row[k].amount])

-----------------------------------------------------------------------------
NewItem(q, p, jpy, basis) ==
    [qty |-> q, price |-> p, amount |-> q * p, basis |-> basis, jpy |-> jpy]

(* The items S of generate_invoice and generate_invoice_from_delivery,     *)
(* which take quantity and price from the lines of the order.              *)
FromOrder(S, q, p) == [k \in S |-> NewItem(q[k], Amount(p), Null, Null)]

(* The items S of generate_draft_from_purchase_results. *)
FromPurchases(S, q, jpy) ==
    [k \in S |-> NewItem(q[k], AutoPrice(jpy[k]), jpy[k], UnitCost(jpy[k], WeightOf[k], settings))]

(* What the generation of invoice items S may make of them. *)
Generated(S) ==
    UNION {{FromOrder(S, q, p) : p \in Prices}
           \cup {FromPurchases(S, q, jpy) :
                   jpy \in {f \in [S -> Costs \cup {Null}] : CostsComputable({f[k] : k \in S}, settings)}} :
             q \in [S -> Quantities \ {0}]}

(* Mutant: the total is left to the default of a missing value. *)
NewInvoice_NoTotal(new) == [status |-> "draft", locked |-> FALSE, total |-> Null]

NewInvoice(new) == [status |-> "draft", locked |-> FALSE, total |-> Total(new, DOMAIN new)]

(* Between requests: drafts that were generated from an order or from      *)
(* purchases, or no invoice.                                               *)
Init ==
    /\ settings \in Settings
    /\ \E S \in SUBSET Invoices :
         \E new \in Generated(UNION {ItemsOf[i] : i \in S}) :
           /\ item = new
           /\ invoice = [i \in S |-> NewInvoice([k \in ItemsOf[i] |-> new[k]])]
    /\ tx = [c \in Clients |-> Idle]
    /\ commits = 0

-----------------------------------------------------------------------------
(* Loading.  A request checks the rows it loads and locks none of them.    *)
Begin(c, t) ==
    /\ tx[c] = Idle
    /\ commits + Cardinality({d \in Clients : tx[d] # Idle}) < MaxCommits
    /\ tx' = [tx EXCEPT ![c] = t]
    /\ UNCHANGED <<rows, commits>>

(* The change of item k alone. *)
Change(k, new) == [x \in {k} |-> [old |-> item[k], new |-> new]]

(* A request on invoice i: the header it loaded, and what it makes of the  *)
(* header and of items (as pairs of the old and the new row).              *)
OnInvoice(op, i, new, changed) ==
    [at |-> commits, op |-> op, inv |-> i, old |-> invoice[i], new |-> new, changed |-> changed, read |-> FALSE]

(* Mutant: the status of the invoice is not looked at. *)
LoadEdit_AnyStatus(c, i, k, q, p) ==
    /\ i \in DOMAIN invoice /\ k \in ItemsOf[i]
    /\ LET new == [item[k] EXCEPT !.qty = q, !.price = Amount(p), !.amount = Amount(q * p)] IN
       Begin(c, OnInvoice("edit", i, invoice[i], Change(k, new)))

(* Mutant: the amount is that of the price before the edit. *)
LoadEdit_OldPrice(c, i, k, q, p) ==
    /\ i \in DOMAIN invoice /\ k \in ItemsOf[i]
    /\ invoice[i].status = "draft"
    /\ LET new == [item[k] EXCEPT !.qty = q, !.price = Amount(p), !.amount = q * item[k].price] IN
       Begin(c, OnInvoice("edit", i, invoice[i], Change(k, new)))

(* update_invoice_draft_item: the amount is that of the price as it was    *)
(* sent, and the price is stored rounded.                                  *)
LoadEdit(c, i, k, q, p) ==
    /\ i \in DOMAIN invoice /\ k \in ItemsOf[i]
    /\ invoice[i].status = "draft"
    /\ LET new == [item[k] EXCEPT !.qty = q, !.price = Amount(p), !.amount = Amount(q * p)] IN
       Begin(c, OnInvoice("edit", i, invoice[i], Change(k, new)))

LoadRecalculate(c, i) ==
    /\ i \in DOMAIN invoice
    /\ invoice[i].status = "draft"
    /\ Begin(c, OnInvoice("recalculate", i, invoice[i], <<>>))

(* _finalize_invoice_row; the total is not computed again. *)
LoadFinalize(c, i) ==
    /\ i \in DOMAIN invoice
    /\ invoice[i].status = "draft" /\ ~invoice[i].locked
    /\ ItemsOf[i] # {}
    /\ Begin(c, OnInvoice("finalize", i,
                          [invoice[i] EXCEPT !.status = "finalized", !.locked = TRUE], <<>>))

LoadReset(c, i) ==
    /\ i \in DOMAIN invoice
    /\ invoice[i].status = "finalized"
    /\ Begin(c, OnInvoice("reset", i,
                          [invoice[i] EXCEPT !.status = "draft", !.locked = FALSE], <<>>))

LoadUnlock(c, i) ==
    /\ i \in DOMAIN invoice
    /\ invoice[i].status = "finalized" /\ invoice[i].locked
    /\ Begin(c, OnInvoice("unlock", i, [invoice[i] EXCEPT !.locked = FALSE], <<>>))

(* The row of a draft is new: no other request inserts the same one.       *)
LoadGenerate(c, i, new) ==
    /\ i \notin DOMAIN invoice
    /\ \A d \in Clients : tx[d].op = "generate" => tx[d].inv # i
    /\ Begin(c, [at |-> commits, op |-> "generate", inv |-> i, items |-> new])

LoadSettings(c, s) ==
    Begin(c, [at |-> commits, op |-> "settings", old |-> settings, new |-> s])

(* Mutant: the change of the request itself is not seen yet. *)
InSession_Committed(t) == [k \in ItemsOf[t.inv] |-> item[k]]

(* The items of the invoice as the session of the request sees them: those *)
(* it changed, and the committed rows of the others.                       *)
InSession(t) ==
    [k \in ItemsOf[t.inv] |-> IF k \in DOMAIN t.changed THEN t.changed[k].new ELSE item[k]]

(* _recalc_invoice_totals at the end of an edit: one more query. *)
ReadForEdit(c) ==
    LET t == tx[c] IN
    /\ t.op = "edit" /\ ~t.read
    /\ tx' = [tx EXCEPT ![c].read = TRUE, ![c].new.total = Total(InSession(t), ItemsOf[t.inv])]
    /\ UNCHANGED <<rows, commits>>

(* _recalculate_draft_invoice_costs: the items and the settings are read   *)
(* here; the total is that of the items as read.                           *)
ReadForRecalculate(c) ==
    LET t == tx[c]
        S == ItemsOf[t.inv]
        new(k) == [item[k] EXCEPT !.basis = UnitCost(item[k].jpy, WeightOf[k], settings)]
    IN
    /\ t.op = "recalculate" /\ ~t.read
    /\ CostsComputable({item[k].jpy : k \in S}, settings)
    /\ tx' = [tx EXCEPT ![c].read = TRUE,
                        ![c].new.total = Total(item, S),
                        ![c].changed = [k \in S |-> [old |-> item[k], new |-> new(k)]]]
    /\ UNCHANGED <<rows, commits>>

-----------------------------------------------------------------------------
(* Committing *)

(* What an UPDATE may leave of a row: it writes the columns that the       *)
(* request changed, and of the columns it set to the value they had (maybe) *)
(* those whose decimal is not equal to its float.                          *)
Written(old, new, row, maybe) ==
    {[f \in DOMAIN row |-> IF new[f] # old[f] \/ f \in W THEN new[f] ELSE row[f]] : W \in SUBSET maybe}

Finish(c) ==
    /\ tx' = [tx EXCEPT ![c] = Idle]
    /\ commits' = commits + 1

(* The columns an edit and a recalculation set, whatever they held.        *)
SetInItem(op) == IF op = "edit" THEN {"qty", "price", "amount"} ELSE {}

CommitAmounts(c) ==
    LET t == tx[c] IN
    /\ t.op \in {"edit", "recalculate"} /\ t.read
    /\ \E new \in Written(t.old, t.new, invoice[t.inv], {"total"}) :
         invoice' = [invoice EXCEPT ![t.inv] = new]
    /\ \E new \in [DOMAIN t.changed ->
                     UNION {Written(t.changed[k].old, t.changed[k].new, item[k], SetInItem(t.op)) :
                              k \in DOMAIN t.changed}] :
         /\ \A k \in DOMAIN t.changed :
              new[k] \in Written(t.changed[k].old, t.changed[k].new, item[k], SetInItem(t.op))
         /\ item' = [k \in DOMAIN item |-> IF k \in DOMAIN new THEN new[k] ELSE item[k]]
    /\ Finish(c)
    /\ UNCHANGED settings

CommitStatus(c) ==
    LET t == tx[c] IN
    /\ t.op \in {"finalize", "reset", "unlock"}
    /\ \E new \in Written(t.old, t.new, invoice[t.inv], {}) :
         invoice' = [invoice EXCEPT ![t.inv] = new]
    /\ Finish(c)
    /\ UNCHANGED <<item, settings>>

CommitGenerate(c) ==
    LET t == tx[c] IN
    /\ t.op = "generate"
    /\ invoice' = [i \in DOMAIN invoice \cup {t.inv} |->
                     IF i = t.inv THEN NewInvoice(t.items) ELSE invoice[i]]
    /\ item' = [k \in DOMAIN item \cup DOMAIN t.items |->
                  IF k \in DOMAIN t.items THEN t.items[k] ELSE item[k]]
    /\ Finish(c)
    /\ UNCHANGED settings

CommitSettings(c) ==
    LET t == tx[c] IN
    /\ t.op = "settings"
    /\ settings' \in Written(t.old, t.new, settings, {})
    /\ Finish(c)
    /\ UNCHANGED <<invoice, item>>

(* The worker or its connection is lost, or the costs cannot be computed.  *)
Rollback(c) ==
    /\ tx[c] # Idle
    /\ tx' = [tx EXCEPT ![c] = Idle]
    /\ UNCHANGED <<rows, commits>>

Load(c) ==
    \/ \E i \in Invoices :
         \/ \E k \in ItemsOf[i], q \in Quantities, p \in Prices : LoadEdit(c, i, k, q, p)
         \/ LoadRecalculate(c, i) \/ LoadFinalize(c, i) \/ LoadReset(c, i) \/ LoadUnlock(c, i)
         \/ \E new \in Generated(ItemsOf[i]) : LoadGenerate(c, i, new)
    \/ \E s \in Settings : LoadSettings(c, s)

Commit(c) == CommitAmounts(c) \/ CommitStatus(c) \/ CommitGenerate(c) \/ CommitSettings(c)

Next == \E c \in Clients : Load(c) \/ ReadForEdit(c) \/ ReadForRecalculate(c) \/ Commit(c) \/ Rollback(c)

Spec == Init /\ [][Next]_vars

-----------------------------------------------------------------------------
(* Properties.  A request is stale when another one committed after it     *)
(* loaded its rows.                                                        *)
Commits(c) == commits' = commits + 1 /\ tx[c] # Idle /\ tx'[c] = Idle

Stale(c) == tx[c].at # commits

Balanced(i) == invoice[i].total = Total(item, ItemsOf[i])

(* The total of an invoice stops being the sum of its items only by a      *)
(* stale edit or recalculation: each reads the amounts of the other items  *)
(* before it commits (_recalc_invoice_totals).                             *)
UnbalancedOnlyByStaleRequest ==
    [][\A c \in Clients, i \in DOMAIN invoice :
          Commits(c) /\ Balanced(i) /\ ~Balanced(i)' =>
            tx[c].op \in {"edit", "recalculate"} /\ tx[c].inv = i /\ Stale(c)]_vars

(* The amount of an item is its quantity times its price, as far as        *)
(* rounding the price allows.                                              *)
Fits(k) ==
    LET d == item[k].amount - item[k].qty * item[k].price IN
    2 * d <= item[k].qty + 1 /\ -2 * d <= item[k].qty + 1

(* Quantity, price and amount of an item come from one edit, unless stale  *)
(* edits each wrote the columns they changed.                              *)
TornOnlyByStaleEdit ==
    [][\A c \in Clients, k \in DOMAIN item :
          Commits(c) /\ Fits(k) /\ ~Fits(k)' => tx[c].op = "edit" /\ k \in DOMAIN tx[c].changed /\ Stale(c)]_vars

Content(i) == <<invoice[i].total, [k \in ItemsOf[i] |-> item[k]]>>

(* What a finalized invoice bills is changed only by an edit or a          *)
(* recalculation that loaded it while it was a draft.                      *)
IssuedChangesOnlyByStaleRequest ==
    [][\A i \in DOMAIN invoice :
          invoice[i].status = "finalized" /\ Content(i)' # Content(i) =>
            \E c \in Clients :
              /\ Commits(c) /\ Stale(c)
              /\ tx[c].op \in {"edit", "recalculate"} /\ tx[c].inv = i
              /\ tx[c].old.status = "draft"]_vars

(* docs/invoice-rules-draft.md:152 - to finalize is to "freeze calculation *)
(* inputs and totals": what a finalized invoice bills does not change.     *)
FinalizedIsFrozen ==
    [][\A i \in DOMAIN invoice : invoice[i].status = "finalized" => Content(i)' = Content(i)]_vars

=============================================================================
