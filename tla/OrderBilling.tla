---------------------------- MODULE OrderBilling ----------------------------
(***************************************************************************)
(* The life of an order from entry to invoice: the handlers of             *)
(* routes_orders.py, routes_order_item_allocations.py,                     *)
(* routes_purchase_results.py, routes_deliveries.py and routes_invoices.py *)
(* that change the state they share.  Here every handler is one atomic     *)
(* step, as when requests do not overlap; overlapping transactions are the *)
(* subject of InvoiceRequests.                                             *)
(***************************************************************************)
EXTENDS Naturals, FiniteSets

CONSTANTS
    Orders,     \* order rows that may come to exist
    Lines,      \* order item rows that may come to exist
    Invoices,   \* invoice rows that may come to exist
    Years,      \* calendar years of the invoice dates
    OrderOf,    \* the order each line belongs to (order_items.order_id)
    YearOf      \* the year of each invoice's invoice_date

ASSUME OrderOfAssumption == OrderOf \in [Lines -> Orders]
ASSUME YearOfAssumption == YearOf \in [Invoices -> Years]

VARIABLES
    orderStatus,    \* orders.status
    lineStatus,     \* order_items.line_status
    supply,         \* how far purchasing has come for each line
    hasDelivery,    \* the orders that have a row in deliveries
    deliveryLines,  \* the lines that have a row in delivery_items
    invStatus,      \* invoices.status
    locked,         \* the invoices with is_locked
    items,          \* the lines billed by each invoice (invoice_items)
    itemsDone,      \* of these, the ones with invoice_line_status = invoiced
    official,       \* the sequence in official_invoice_no, 0 for NULL
    nextSeq         \* invoice_number_sequences.next_seq, 1 for no row

orderVars == <<orderStatus, lineStatus, supply>>
deliveryVars == <<hasDelivery, deliveryLines>>
invoiceVars == <<invStatus, locked, items, itemsDone, official, nextSeq>>
vars == <<orderVars, deliveryVars, invoiceVars>>

OrderStatuses ==
    {"new", "confirmed", "allocated", "purchased", "shipped", "invoiced", "cancelled"}
LineStatuses ==
    {"open", "allocated", "purchased", "shipped", "invoiced", "cancelled"}

(* "allocated": the line has a supplier_allocations row; "unbilled" and    *)
(* "billed": it also has a purchase_results row, with invoice_qty NULL or  *)
(* not.  One allocation and one purchase result per line.                  *)
Supplies == {"none", "allocated", "unbilled", "billed"}

ShippedStatuses == {"shipped", "invoiced"}

TypeOK ==
    /\ orderStatus \in [Orders -> OrderStatuses \cup {"absent"}]
    /\ lineStatus \in [Lines -> LineStatuses \cup {"absent"}]
    /\ supply \in [Lines -> Supplies]
    /\ hasDelivery \in SUBSET Orders
    /\ deliveryLines \in SUBSET Lines
    /\ invStatus \in [Invoices -> {"absent", "draft", "finalized"}]
    /\ locked \in SUBSET Invoices
    /\ items \in [Invoices -> SUBSET Lines]
    /\ itemsDone \in [Invoices -> SUBSET Lines]
    /\ official \in [Invoices -> Nat]
    /\ nextSeq \in [Years -> Nat]

-----------------------------------------------------------------------------
LinesOf(o) == {l \in Lines : OrderOf[l] = o /\ lineStatus[l] # "absent"}

(* The orders an invoice bills lines of. *)
OrdersOf(i) == {OrderOf[l] : l \in items[i]}

(* Line l is on an invoice that is finalized according to status. *)
IsBilled(l, status) == \E i \in Invoices : status[i] = "finalized" /\ l \in items[i]

(* Mutant: an existing delivery is taken to be complete. *)
EnsureDeliveries_OnlyWhenMissing(os) ==
    /\ hasDelivery' = hasDelivery \cup os
    /\ deliveryLines' = deliveryLines \cup UNION {LinesOf(o) : o \in os \ hasDelivery}

(* ensure_delivery_document for every order of os: the missing delivery    *)
(* rows are added and every line the order has now gets a delivery item.   *)
EnsureDeliveries(os) ==
    /\ hasDelivery' = hasDelivery \cup os
    /\ deliveryLines' = deliveryLines \cup UNION {LinesOf(o) : o \in os}

(* Either the empty database, or what the seed script leaves: confirmed    *)
(* orders with one open line each, allocated, purchased and not billed.    *)
(* (Its empty draft invoice is one CreateInvoice away.)                    *)
Init ==
    \E seeded \in SUBSET Lines :
        /\ \A k, l \in seeded : OrderOf[k] = OrderOf[l] => k = l
        /\ orderStatus = [o \in Orders |->
             IF \E l \in seeded : OrderOf[l] = o THEN "confirmed" ELSE "absent"]
        /\ lineStatus = [l \in Lines |-> IF l \in seeded THEN "open" ELSE "absent"]
        /\ supply = [l \in Lines |-> IF l \in seeded THEN "unbilled" ELSE "none"]
        /\ hasDelivery = {}
        /\ deliveryLines = {}
        /\ invStatus = [i \in Invoices |-> "absent"]
        /\ locked = {}
        /\ items = [i \in Invoices |-> {}]
        /\ itemsDone = [i \in Invoices |-> {}]
        /\ official = [i \in Invoices |-> 0]
        /\ nextSeq = [y \in Years |-> 1]

-----------------------------------------------------------------------------
(* Order entry *)

CreateOrder(o) ==
    /\ orderStatus[o] = "absent"
    /\ orderStatus' = [orderStatus EXCEPT ![o] = "new"]
    /\ UNCHANGED <<lineStatus, supply, deliveryVars, invoiceVars>>

(* Lines can be added whatever the status of the order. *)
CreateOrderItem(l) ==
    /\ orderStatus[OrderOf[l]] # "absent"
    /\ lineStatus[l] = "absent"
    /\ lineStatus' = [lineStatus EXCEPT ![l] = "open"]
    /\ UNCHANGED <<orderStatus, supply, deliveryVars, invoiceVars>>

(* Mutant: invoice items do not keep a line from being deleted. *)
DeleteOrderItem_BilledToo(l) ==
    /\ lineStatus[l] # "absent"
    /\ supply[l] = "none"
    /\ l \notin deliveryLines
    /\ lineStatus' = [lineStatus EXCEPT ![l] = "absent"]
    /\ UNCHANGED <<orderStatus, supply, deliveryVars, invoiceVars>>

(* The status is not looked at; only the foreign keys of allocations,      *)
(* delivery items and invoice items keep a line from being deleted.        *)
DeleteOrderItem(l) ==
    /\ lineStatus[l] # "absent"
    /\ supply[l] = "none"
    /\ l \notin deliveryLines
    /\ \A i \in Invoices : l \notin items[i]
    /\ lineStatus' = [lineStatus EXCEPT ![l] = "absent"]
    /\ UNCHANGED <<orderStatus, supply, deliveryVars, invoiceVars>>

(* Editing the header of a shipped order brings its delivery up to date. *)
UpdateOrder(o) ==
    /\ orderStatus[o] \in ShippedStatuses
    /\ EnsureDeliveries({o})
    /\ UNCHANGED <<orderVars, invoiceVars>>

(* _TRANSITION_RULES: order status and line status before and after. *)
TransitionRules ==
    { [from |-> "confirmed", to |-> "allocated", lineFrom |-> "open",      lineTo |-> "allocated"],
      [from |-> "allocated", to |-> "purchased", lineFrom |-> "allocated", lineTo |-> "purchased"],
      [from |-> "purchased", to |-> "shipped",   lineFrom |-> "purchased", lineTo |-> "shipped"],
      [from |-> "shipped",   to |-> "invoiced",  lineFrom |-> "shipped",   lineTo |-> "invoiced"] }

BulkTransition(o, rule) ==
    /\ orderStatus[o] = rule.from
    /\ LinesOf(o) # {}
    /\ \A l \in LinesOf(o) : lineStatus[l] = rule.lineFrom
    /\ orderStatus' = [orderStatus EXCEPT ![o] = rule.to]
    /\ lineStatus' = [l \in Lines |-> IF l \in LinesOf(o) THEN rule.lineTo ELSE lineStatus[l]]
    /\ EnsureDeliveries(IF rule.to \in ShippedStatuses THEN {o} ELSE {})
    /\ UNCHANGED <<supply, invoiceVars>>

(* Mutant: invoiced is not among the statuses that refuse. *)
BulkCancel_InvoicedToo(S) ==
    /\ S # {}
    /\ \A o \in S : orderStatus[o] \in {"new", "confirmed", "allocated", "invoiced"}
    /\ orderStatus' = [o \in Orders |-> IF o \in S THEN "cancelled" ELSE orderStatus[o]]
    /\ lineStatus' = [l \in Lines |->
         IF \E o \in S : l \in LinesOf(o) THEN "cancelled" ELSE lineStatus[l]]
    /\ UNCHANGED <<supply, deliveryVars, invoiceVars>>

(* bulk_cancel_orders: the orders S of those asked for are in a status     *)
(* that allows it and are cancelled together; the others are reported.     *)
BulkCancel(S) ==
    /\ S # {}
    /\ \A o \in S : orderStatus[o] \in {"new", "confirmed", "allocated"}
    /\ orderStatus' = [o \in Orders |-> IF o \in S THEN "cancelled" ELSE orderStatus[o]]
    /\ lineStatus' = [l \in Lines |->
         IF \E o \in S : l \in LinesOf(o) THEN "cancelled" ELSE lineStatus[l]]
    /\ UNCHANGED <<supply, deliveryVars, invoiceVars>>

-----------------------------------------------------------------------------
(* Allocation, purchasing and delivery *)

(* One row of a bulk-save that names a supplier.  It sets the line to      *)
(* allocated whatever the line, its order and its invoices are.            *)
SaveAllocation(l) ==
    /\ lineStatus[l] # "absent"
    /\ lineStatus' = [lineStatus EXCEPT ![l] = "allocated"]
    /\ supply' = [supply EXCEPT ![l] = IF @ = "none" THEN "allocated" ELSE @]
    /\ UNCHANGED <<orderStatus, deliveryVars, invoiceVars>>

(* A purchase result is created, updated or upserted.  invoice_qty, which  *)
(* marks it as billed, comes from the payload and may be set or cleared.   *)
RecordPurchase(l, marker) ==
    /\ supply[l] # "none"
    /\ supply' = [supply EXCEPT ![l] = marker]
    /\ UNCHANGED <<orderStatus, lineStatus, deliveryVars, invoiceVars>>

(* from-order, and refresh when the delivery exists. *)
BuildDelivery(o) ==
    /\ orderStatus[o] \in ShippedStatuses
    /\ EnsureDeliveries({o})
    /\ UNCHANGED <<orderVars, invoiceVars>>

-----------------------------------------------------------------------------
(* Invoice drafts *)

(* Row i becomes a draft that bills the lines of S. *)
NewDraft(i, S) ==
    /\ invStatus[i] = "absent"
    /\ invStatus' = [invStatus EXCEPT ![i] = "draft"]
    /\ items' = [items EXCEPT ![i] = S]
    /\ UNCHANGED <<locked, itemsDone, official, nextSeq>>

(* _resolve_delivery_for_order with create_if_missing. *)
ResolveDelivery(o) ==
    EnsureDeliveries(IF orderStatus[o] \in ShippedStatuses /\ o \notin hasDelivery
                     THEN {o} ELSE {})

(* An empty draft.  Nothing ever adds items to it. *)
CreateInvoice(i, o) ==
    /\ orderStatus[o] # "absent"
    /\ NewDraft(i, {})
    /\ ResolveDelivery(o)
    /\ UNCHANGED orderVars

(* A draft that bills every line of the order, whatever their status. *)
GenerateInvoice(i, o) ==
    /\ orderStatus[o] # "absent"
    /\ LinesOf(o) # {}
    /\ NewDraft(i, LinesOf(o))
    /\ ResolveDelivery(o)
    /\ UNCHANGED orderVars

(* The same, started from a delivery; it bills the lines of the order, not *)
(* those of the delivery.                                                  *)
GenerateInvoiceFromDelivery(i, o) ==
    /\ o \in hasDelivery
    /\ LinesOf(o) # {}
    /\ NewDraft(i, LinesOf(o))
    /\ UNCHANGED <<orderVars, deliveryVars>>

(* Mutant: the selected results are not filtered by the order. *)
GenerateDraftFromPurchases_AnyOrder(i, o, S) ==
    /\ S # {} /\ orderStatus[o] # "absent"
    /\ \A l \in S : supply[l] = "unbilled"
    /\ NewDraft(i, S)
    /\ supply' = [l \in Lines |-> IF l \in S THEN "billed" ELSE supply[l]]
    /\ ResolveDelivery(o)
    /\ UNCHANGED <<orderStatus, lineStatus>>

(* A draft that bills the selected purchase results that are not marked    *)
(* as billed, and marks them.                                              *)
GenerateDraftFromPurchases(i, o, S) ==
    /\ S # {}
    /\ \A l \in S : OrderOf[l] = o /\ supply[l] = "unbilled"
    /\ NewDraft(i, S)
    /\ supply' = [l \in Lines |-> IF l \in S THEN "billed" ELSE supply[l]]
    /\ ResolveDelivery(o)
    /\ UNCHANGED <<orderStatus, lineStatus>>

FinalizeItemLine(i, l) ==
    /\ invStatus[i] = "draft"
    /\ l \in items[i] \ itemsDone[i]
    /\ itemsDone' = [itemsDone EXCEPT ![i] = @ \cup {l}]
    /\ UNCHANGED <<orderVars, deliveryVars, invStatus, locked, items, official, nextSeq>>

-----------------------------------------------------------------------------
(* Finalizing, reopening and unlocking invoices *)

(* Mutant: the invoice's status is copied to the line. *)
LineStatusFrom_InvoiceStatus(l, status) ==
    IF IsBilled(l, status) THEN "finalized" ELSE "shipped"

LineStatusFrom(l, status) == IF IsBilled(l, status) THEN "invoiced" ELSE "shipped"

(* Mutant: an order with no billed line goes back to purchased. *)
OrderStatusFrom_BackToPurchased(o, status) ==
    IF \A l \in LinesOf(o) : IsBilled(l, status) THEN "invoiced"
    ELSE IF \E l \in LinesOf(o) : IsBilled(l, status) THEN "shipped" ELSE "purchased"

OrderStatusFrom(o, status) ==
    IF \A l \in LinesOf(o) : IsBilled(l, status) THEN "invoiced" ELSE "shipped"

(* Mutant: the items of this invoice follow its status alone. *)
SyncOrderStatuses_ThisInvoiceOnly(i, status) ==
    /\ lineStatus' = [l \in Lines |->
         IF l \in items[i]
         THEN IF status[i] = "finalized" THEN "invoiced" ELSE "shipped"
         ELSE lineStatus[l]]
    /\ orderStatus' = [o \in Orders |->
         IF o \in OrdersOf(i) THEN OrderStatusFrom(o, status) ELSE orderStatus[o]]
    /\ EnsureDeliveries({o \in OrdersOf(i) : OrderStatusFrom(o, status) # orderStatus[o]})

(* Mutant: the delivery is left to an explicit request. *)
SyncOrderStatuses_NoDelivery(i, status) ==
    /\ lineStatus' = [l \in Lines |->
         IF \E o \in OrdersOf(i) : l \in LinesOf(o)
         THEN LineStatusFrom(l, status) ELSE lineStatus[l]]
    /\ orderStatus' = [o \in Orders |->
         IF o \in OrdersOf(i) THEN OrderStatusFrom(o, status) ELSE orderStatus[o]]
    /\ UNCHANGED deliveryVars

(* _sync_order_statuses_for_invoice: the status of every line of every     *)
(* order of invoice i is recomputed from the finalized invoices, and the   *)
(* order's from its lines; a changed order gets its delivery refreshed.    *)
SyncOrderStatuses(i, status) ==
    /\ lineStatus' = [l \in Lines |->
         IF \E o \in OrdersOf(i) : l \in LinesOf(o)
         THEN LineStatusFrom(l, status) ELSE lineStatus[l]]
    /\ orderStatus' = [o \in Orders |->
         IF o \in OrdersOf(i) THEN OrderStatusFrom(o, status) ELSE orderStatus[o]]
    /\ EnsureDeliveries({o \in OrdersOf(i) : OrderStatusFrom(o, status) # orderStatus[o]})

(* Mutant: a finalize always takes a new number. *)
AssignOfficialNumber_EveryTime(i) ==
    /\ official' = [official EXCEPT ![i] = nextSeq[YearOf[i]]]
    /\ nextSeq' = [nextSeq EXCEPT ![YearOf[i]] = @ + 1]

(* Mutant: the sequence is read and not advanced. *)
AssignOfficialNumber_NotAdvanced(i) ==
    IF official[i] = 0
    THEN official' = [official EXCEPT ![i] = nextSeq[YearOf[i]]] /\ UNCHANGED nextSeq
    ELSE UNCHANGED <<official, nextSeq>>

(* generate_official_invoice_no, called only for an invoice without one. *)
AssignOfficialNumber(i) ==
    IF official[i] = 0
    THEN /\ official' = [official EXCEPT ![i] = nextSeq[YearOf[i]]]
         /\ nextSeq' = [nextSeq EXCEPT ![YearOf[i]] = @ + 1]
    ELSE UNCHANGED <<official, nextSeq>>

(* _finalize_invoice_row, for a single request or for one invoice of a     *)
(* finalize-batch, which goes on with its next invoice before it commits:  *)
(* a batch is a sequence of these steps, and a property of steps speaks of *)
(* one invoice.                                                            *)
FinalizeInvoice(i) ==
    /\ invStatus[i] = "draft"
    /\ i \notin locked
    /\ items[i] # {}
    /\ AssignOfficialNumber(i)
    /\ invStatus' = [invStatus EXCEPT ![i] = "finalized"]
    /\ locked' = locked \cup {i}
    /\ SyncOrderStatuses(i, invStatus')
    /\ UNCHANGED <<supply, items, itemsDone>>

(* Mutant: the lock survives the reset. *)
ResetToDraft_StillLocked(i) ==
    /\ invStatus[i] = "finalized"
    /\ invStatus' = [invStatus EXCEPT ![i] = "draft"]
    /\ SyncOrderStatuses(i, invStatus')
    /\ UNCHANGED <<supply, locked, items, itemsDone, official, nextSeq>>

(* Mutant: the reset takes the official number away. *)
ResetToDraft_Unnumbered(i) ==
    /\ invStatus[i] = "finalized"
    /\ invStatus' = [invStatus EXCEPT ![i] = "draft"]
    /\ locked' = locked \ {i}
    /\ official' = [official EXCEPT ![i] = 0]
    /\ SyncOrderStatuses(i, invStatus')
    /\ UNCHANGED <<supply, items, itemsDone, nextSeq>>

(* Mutant: orders and lines are not recomputed. *)
ResetToDraft_NoSync(i) ==
    /\ invStatus[i] = "finalized"
    /\ invStatus' = [invStatus EXCEPT ![i] = "draft"]
    /\ locked' = locked \ {i}
    /\ UNCHANGED <<orderVars, deliveryVars, items, itemsDone, official, nextSeq>>

ResetToDraft(i) ==
    /\ invStatus[i] = "finalized"
    /\ invStatus' = [invStatus EXCEPT ![i] = "draft"]
    /\ locked' = locked \ {i}
    /\ SyncOrderStatuses(i, invStatus')
    /\ UNCHANGED <<supply, items, itemsDone, official, nextSeq>>

UnlockInvoice(i) ==
    /\ invStatus[i] = "finalized"
    /\ i \in locked
    /\ locked' = locked \ {i}
    /\ UNCHANGED <<orderVars, deliveryVars, invStatus, items, itemsDone, official, nextSeq>>

-----------------------------------------------------------------------------
OrderStep(o) ==
    \/ CreateOrder(o)
    \/ UpdateOrder(o)
    \/ \E rule \in TransitionRules : BulkTransition(o, rule)
    \/ BuildDelivery(o)

LineStep(l) ==
    \/ CreateOrderItem(l)
    \/ DeleteOrderItem(l)
    \/ SaveAllocation(l)
    \/ \E marker \in {"unbilled", "billed"} : RecordPurchase(l, marker)

DraftStep(i) ==
    \/ \E o \in Orders :
         \/ CreateInvoice(i, o)
         \/ GenerateInvoice(i, o)
         \/ GenerateInvoiceFromDelivery(i, o)
         \/ \E S \in SUBSET Lines : GenerateDraftFromPurchases(i, o, S)
    \/ \E l \in Lines : FinalizeItemLine(i, l)

InvoiceStep(i) ==
    \/ FinalizeInvoice(i)
    \/ ResetToDraft(i)
    \/ UnlockInvoice(i)

Next ==
    \/ \E o \in Orders : OrderStep(o)
    \/ \E S \in SUBSET Orders : BulkCancel(S)
    \/ \E l \in Lines : LineStep(l)
    \/ \E i \in Invoices : DraftStep(i) \/ InvoiceStep(i)

Spec == Init /\ [][Next]_vars

-----------------------------------------------------------------------------
(* Properties *)

(* An order one of whose lines is on a finalized invoice counts as shipped *)
(* or invoiced: neither cancel, nor order entry, nor a manual transition   *)
(* takes a billed order back.                                              *)
BilledOrderIsShipped ==
    \A i \in Invoices : invStatus[i] = "finalized" =>
        \A l \in items[i] : orderStatus[OrderOf[l]] \in ShippedStatuses

(* A line on a finalized invoice is shown as invoiced, also after another  *)
(* invoice of the same line or order is reopened.  The one exception the   *)
(* code makes is a later bulk-save, which sets any line to allocated.      *)
BilledLineIsInvoiced ==
    \A i \in Invoices : invStatus[i] = "finalized" =>
        \A l \in items[i] : lineStatus[l] \in {"invoiced", "allocated"}

(* A delivery document exists exactly for the orders that are shipped or   *)
(* invoiced, whichever of the four ways into these statuses was taken.     *)
DeliveryExactlyWhenShipped ==
    hasDelivery = {o \in Orders : orderStatus[o] \in ShippedStatuses}

NumberedIn(y) == {i \in Invoices : YearOf[i] = y /\ official[i] # 0}

(* No two invoices of a year carry the same official number.               *)
NumbersAreUnique ==
    \A i, j \in Invoices :
        official[i] # 0 /\ official[i] = official[j] /\ YearOf[i] = YearOf[j] => i = j

(* The official numbers of a year that are in use are 1, 2, ... up to the  *)
(* sequence row's last, however often invoices are reopened and finalized  *)
(* again: when requests do not overlap, no number is lost.                 *)
NumbersHaveNoGap ==
    \A y \in Years : {official[i] : i \in NumberedIn(y)} = 1 .. (nextSeq[y] - 1)

(* A locked invoice is finalized, and a finalized one has items and an     *)
(* official number: no order of finalize, unlock and reset leaves a locked *)
(* draft (which no handler could ever touch again).                        *)
LockedIsIssued ==
    /\ \A i \in locked : invStatus[i] = "finalized"
    /\ \A i \in Invoices :
         invStatus[i] = "finalized" => items[i] # {} /\ official[i] # 0

(* No row refers to a line that is gone: the deletion of lines against     *)
(* every handler that makes a row for a line.                              *)
NoDanglingRows ==
    \A l \in Lines : lineStatus[l] = "absent" =>
        /\ supply[l] = "none"
        /\ l \notin deliveryLines
        /\ \A i \in Invoices : l \notin items[i]

(* No invoice bills lines of two orders, although the sync after a         *)
(* finalize or a reset is written for several.                             *)
InvoiceBillsOneOrder ==
    \A i \in Invoices : \A k, l \in items[i] : OrderOf[k] = OrderOf[l]

(* Once an order is shipped it stays shipped or invoiced for ever, through *)
(* finalize, reset, cancel, bulk-save and manual transitions.  (So the     *)
(* code has it; docs/status-transition-draft.md:85 wants shipped orders to *)
(* be cancellable: README, section 7.)                                     *)
ShippedIsForever ==
    [][\A o \in Orders :
         orderStatus[o] \in ShippedStatuses => orderStatus'[o] \in ShippedStatuses]_vars

(* The order o or one of its lines changes status in this step. *)
Touched(o) ==
    \/ orderStatus'[o] # orderStatus[o]
    \/ \E l \in LinesOf(o) : lineStatus'[l] # lineStatus[l]

(* What an invoice does when it is finalized or reopened stays within one  *)
(* order, although the sync is written for several and drafts are made     *)
(* from purchase results that the request picks.                           *)
BillingStaysInOneOrder ==
    [][\A i \in Invoices : invStatus'[i] # invStatus[i] =>
         \A o, p \in Orders : Touched(o) /\ Touched(p) => o = p]_vars

(* Whenever an order changes to shipped or invoiced, its delivery document *)
(* lists every line the order has at that moment.                          *)
StatusChangeRefreshesDelivery ==
    [][\A o \in Orders :
         orderStatus'[o] # orderStatus[o] /\ orderStatus'[o] \in ShippedStatuses
           => o \in hasDelivery' /\ LinesOf(o) \subseteq deliveryLines']_vars

(* An official number, once printed on an invoice, never changes.          *)
OfficialNumberIsPermanent ==
    [][\A i \in Invoices : official[i] # 0 => official'[i] = official[i]]_vars

(* When an invoice is reopened, a line stays invoiced only if another      *)
(* finalized invoice bills it, and its order only if all its lines are.    *)
ReopeningFreesLines ==
    [][\A i \in Invoices :
         invStatus[i] = "finalized" /\ invStatus'[i] = "draft" =>
           \A l \in items[i] :
             /\ lineStatus'[l] = "invoiced" => IsBilled(l, invStatus')
             /\ orderStatus'[OrderOf[l]] = "invoiced" =>
                  \A k \in LinesOf(OrderOf[l]) : IsBilled(k, invStatus')]_vars

-----------------------------------------------------------------------------
(* The invoices of this module behave as InvoiceLedger says.               *)
InvoicePhase(i) ==
    IF invStatus[i] # "finalized" THEN invStatus[i]
    ELSE IF i \in locked THEN "issued" ELSE "released"

Ledger == INSTANCE InvoiceLedger WITH
    phase <- [i \in Invoices |-> InvoicePhase(i)],
    number <- official,
    issued <- [y \in Years |-> nextSeq[y] - 1]

(* Every handler, seen from the invoices, is one step of the ledger or     *)
(* none: numbers are taken at the first finalize, in order, and kept.      *)
ImplementsLedger == Ledger!Spec

=============================================================================
