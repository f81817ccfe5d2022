------------------------- MODULE OrderBillingProofs -------------------------
(***************************************************************************)
(* Theorems of OrderBilling for any set of orders, lines, invoices and     *)
(* years.                                                                  *)
(***************************************************************************)
EXTENDS OrderBilling, TLAPS

USE OrderOfAssumption, YearOfAssumption

-----------------------------------------------------------------------------
(* Type correctness *)

LEMMA LinesOfType == \A o : LinesOf(o) \in SUBSET Lines
  BY DEF LinesOf

LEMMA TypeInit == Init => TypeOK
  BY DEF Init, TypeOK, OrderStatuses, LineStatuses, Supplies

LEMMA EnsureDeliveriesType ==
    ASSUME TypeOK, NEW os \in SUBSET Orders, EnsureDeliveries(os)
    PROVE  hasDelivery' \in SUBSET Orders /\ deliveryLines' \in SUBSET Lines
  BY LinesOfType DEF TypeOK, EnsureDeliveries

LEMMA SyncType ==
    ASSUME TypeOK, NEW i \in Invoices, NEW status, SyncOrderStatuses(i, status)
    PROVE  /\ orderStatus' \in [Orders -> OrderStatuses \cup {"absent"}]
           /\ lineStatus' \in [Lines -> LineStatuses \cup {"absent"}]
           /\ hasDelivery' \in SUBSET Orders
           /\ deliveryLines' \in SUBSET Lines
  <1>1. orderStatus' \in [Orders -> OrderStatuses \cup {"absent"}]
    BY DEF SyncOrderStatuses, OrderStatusFrom, OrderStatuses, TypeOK
  <1>2. lineStatus' \in [Lines -> LineStatuses \cup {"absent"}]
    BY DEF SyncOrderStatuses, LineStatusFrom, LineStatuses, TypeOK
  <1>3. {o \in OrdersOf(i) : OrderStatusFrom(o, status) # orderStatus[o]} \in SUBSET Orders
    BY DEF OrdersOf, TypeOK
  <1>4. QED
    BY <1>1, <1>2, <1>3, EnsureDeliveriesType DEF SyncOrderStatuses

LEMMA NewDraftType ==
    ASSUME TypeOK, NEW i \in Invoices, NEW S \in SUBSET Lines, NewDraft(i, S)
    PROVE  /\ invStatus' \in [Invoices -> {"absent", "draft", "finalized"}]
           /\ items' \in [Invoices -> SUBSET Lines]
           /\ locked' \in SUBSET Invoices
           /\ itemsDone' \in [Invoices -> SUBSET Lines]
           /\ official' \in [Invoices -> Nat]
           /\ nextSeq' \in [Years -> Nat]
  BY DEF TypeOK, NewDraft

LEMMA ResolveDeliveryType ==
    ASSUME TypeOK, NEW o \in Orders, ResolveDelivery(o)
    PROVE  hasDelivery' \in SUBSET Orders /\ deliveryLines' \in SUBSET Lines
  BY EnsureDeliveriesType DEF ResolveDelivery

LEMMA TypeStep ==
    ASSUME TypeOK, [Next]_vars
    PROVE  TypeOK'
  <1> USE DEF TypeOK
  <1>1. ASSUME NEW o \in Orders, CreateOrder(o) PROVE TypeOK'
    BY <1>1 DEF CreateOrder, OrderStatuses, deliveryVars, invoiceVars
  <1>2. ASSUME NEW o \in Orders, UpdateOrder(o) PROVE TypeOK'
    BY <1>2, EnsureDeliveriesType DEF UpdateOrder, orderVars, invoiceVars
  <1>3. ASSUME NEW o \in Orders, NEW rule \in TransitionRules, BulkTransition(o, rule)
        PROVE TypeOK'
    <2>1. rule.to \in OrderStatuses /\ rule.lineTo \in LineStatuses
      BY DEF TransitionRules, OrderStatuses, LineStatuses
    <2>2. hasDelivery' \in SUBSET Orders /\ deliveryLines' \in SUBSET Lines
      BY <1>3, EnsureDeliveriesType DEF BulkTransition
    <2>3. QED
      BY <1>3, <2>1, <2>2 DEF BulkTransition, invoiceVars
  <1>4. ASSUME NEW S \in SUBSET Orders, BulkCancel(S) PROVE TypeOK'
    BY <1>4 DEF BulkCancel, OrderStatuses, LineStatuses, deliveryVars, invoiceVars
  <1>5. ASSUME NEW o \in Orders, BuildDelivery(o) PROVE TypeOK'
    BY <1>5, EnsureDeliveriesType DEF BuildDelivery, orderVars, invoiceVars
  <1>6. ASSUME NEW l \in Lines, CreateOrderItem(l) PROVE TypeOK'
    BY <1>6 DEF CreateOrderItem, LineStatuses, deliveryVars, invoiceVars
  <1>7. ASSUME NEW l \in Lines, DeleteOrderItem(l) PROVE TypeOK'
    BY <1>7 DEF DeleteOrderItem, deliveryVars, invoiceVars
  <1>8. ASSUME NEW l \in Lines, SaveAllocation(l) PROVE TypeOK'
    BY <1>8 DEF SaveAllocation, LineStatuses, Supplies, deliveryVars, invoiceVars
  <1>9. ASSUME NEW l \in Lines, NEW m \in {"unbilled", "billed"}, RecordPurchase(l, m)
        PROVE TypeOK'
    BY <1>9 DEF RecordPurchase, Supplies, deliveryVars, invoiceVars
  <1>10. ASSUME NEW i \in Invoices, NEW o \in Orders, CreateInvoice(i, o) PROVE TypeOK'
    BY <1>10, NewDraftType, ResolveDeliveryType DEF CreateInvoice, orderVars
  <1>11. ASSUME NEW i \in Invoices, NEW o \in Orders, GenerateInvoice(i, o) PROVE TypeOK'
    BY <1>11, NewDraftType, ResolveDeliveryType, LinesOfType DEF GenerateInvoice, orderVars
  <1>12. ASSUME NEW i \in Invoices, NEW o \in Orders, GenerateInvoiceFromDelivery(i, o)
         PROVE TypeOK'
    BY <1>12, NewDraftType, LinesOfType
       DEF GenerateInvoiceFromDelivery, orderVars, deliveryVars
  <1>13. ASSUME NEW i \in Invoices, NEW o \in Orders, NEW S \in SUBSET Lines,
                GenerateDraftFromPurchases(i, o, S)
         PROVE TypeOK'
    BY <1>13, NewDraftType, ResolveDeliveryType DEF GenerateDraftFromPurchases, Supplies
  <1>14. ASSUME NEW i \in Invoices, NEW l \in Lines, FinalizeItemLine(i, l) PROVE TypeOK'
    BY <1>14 DEF FinalizeItemLine, orderVars, deliveryVars
  <1>15. ASSUME NEW i \in Invoices, FinalizeInvoice(i) PROVE TypeOK'
    <2>1. official' \in [Invoices -> Nat] /\ nextSeq' \in [Years -> Nat]
      BY <1>15 DEF FinalizeInvoice, AssignOfficialNumber
    <2>2. QED
      BY <1>15, <2>1, SyncType DEF FinalizeInvoice
  <1>16. ASSUME NEW i \in Invoices, ResetToDraft(i) PROVE TypeOK'
    BY <1>16, SyncType DEF ResetToDraft
  <1>17. ASSUME NEW i \in Invoices, UnlockInvoice(i) PROVE TypeOK'
    BY <1>17 DEF UnlockInvoice, orderVars, deliveryVars
  <1>18. CASE UNCHANGED vars
    BY <1>18 DEF vars, orderVars, deliveryVars, invoiceVars
  <1>19. CASE Next
    BY <1>19, <1>1, <1>2, <1>3, <1>4, <1>5, <1>6, <1>7, <1>8, <1>9, <1>10, <1>11, <1>12,
       <1>13, <1>14, <1>15, <1>16, <1>17
       DEF Next, OrderStep, LineStep, DraftStep, InvoiceStep
  <1>20. QED
    BY <1>18, <1>19

(* Every variable keeps its type, for any orders, lines and invoices. *)
THEOREM TypeCorrect == Spec => []TypeOK
  BY TypeInit, TypeStep, PTL DEF Spec

-----------------------------------------------------------------------------
(* Frames: what a step can do to one order, one line, one invoice *)

(* Once shipped, an order is shipped or invoiced after any step.  Manual   *)
(* transitions, cancel and order entry start from other statuses; a sync   *)
(* only assigns these two.                                                 *)
LEMMA ShippedStep ==
    ASSUME TypeOK, [Next]_vars, NEW o \in Orders, orderStatus[o] \in ShippedStatuses
    PROVE  orderStatus'[o] \in ShippedStatuses
  <1> USE DEF ShippedStatuses
  <1>1. ASSUME NEW p \in Orders, OrderStep(p) PROVE orderStatus'[o] \in ShippedStatuses
    <2>1. CASE CreateOrder(p)
      BY <2>1 DEF CreateOrder, TypeOK
    <2>2. CASE UpdateOrder(p) \/ BuildDelivery(p)
      BY <2>2 DEF UpdateOrder, BuildDelivery, orderVars
    <2>3. ASSUME NEW rule \in TransitionRules, BulkTransition(p, rule)
          PROVE orderStatus'[o] \in ShippedStatuses
      BY <2>3 DEF BulkTransition, TransitionRules, TypeOK
    <2>4. QED
      BY <1>1, <2>1, <2>2, <2>3 DEF OrderStep
  <1>2. ASSUME NEW l \in Lines, LineStep(l) PROVE orderStatus'[o] \in ShippedStatuses
    BY <1>2 DEF LineStep, CreateOrderItem, DeleteOrderItem, SaveAllocation, RecordPurchase
  <1>3. ASSUME NEW i \in Invoices, DraftStep(i) PROVE orderStatus'[o] \in ShippedStatuses
    BY <1>3 DEF DraftStep, CreateInvoice, GenerateInvoice, GenerateInvoiceFromDelivery,
                GenerateDraftFromPurchases, FinalizeItemLine, orderVars
  <1>4. ASSUME NEW i \in Invoices, InvoiceStep(i) PROVE orderStatus'[o] \in ShippedStatuses
    BY <1>4 DEF InvoiceStep, FinalizeInvoice, ResetToDraft, UnlockInvoice,
                SyncOrderStatuses, OrderStatusFrom, orderVars
  <1>5. ASSUME NEW S \in SUBSET Orders, BulkCancel(S) PROVE orderStatus'[o] \in ShippedStatuses
    BY <1>5 DEF BulkCancel
  <1>6. CASE UNCHANGED vars
    BY <1>6 DEF vars, orderVars
  <1>7. QED
    BY <1>1, <1>2, <1>3, <1>4, <1>5, <1>6 DEF Next

(* An invoice is finalized after a step only if it was before or the step  *)
(* is its finalize; either way the lines it bills stay the same.           *)
LEMMA FinalizedStep ==
    ASSUME TypeOK, [Next]_vars, NEW i \in Invoices, invStatus'[i] = "finalized"
    PROVE  /\ items'[i] = items[i]
           /\ invStatus[i] = "finalized" \/ FinalizeInvoice(i)
  <1> USE DEF TypeOK
  <1>1. ASSUME NEW o \in Orders, OrderStep(o) PROVE UNCHANGED <<invStatus, items>>
    BY <1>1 DEF OrderStep, CreateOrder, UpdateOrder, BulkTransition, BuildDelivery,
                invoiceVars
  <1>2. ASSUME NEW l \in Lines, LineStep(l) PROVE UNCHANGED <<invStatus, items>>
    BY <1>2 DEF LineStep, CreateOrderItem, DeleteOrderItem, SaveAllocation,
                RecordPurchase, invoiceVars
  <1>3. ASSUME NEW j \in Invoices, DraftStep(j)
        PROVE  /\ items'[i] = items[i]
               /\ invStatus[i] = "finalized"
    <2>1. ASSUME NEW S, NewDraft(j, S)
          PROVE  items'[i] = items[i] /\ invStatus[i] = "finalized"
      BY <2>1 DEF NewDraft
    <2>2. ASSUME NEW l \in Lines, FinalizeItemLine(j, l)
          PROVE  items'[i] = items[i] /\ invStatus[i] = "finalized"
      BY <2>2 DEF FinalizeItemLine
    <2>3. QED
      BY <1>3, <2>1, <2>2 DEF DraftStep, CreateInvoice, GenerateInvoice,
         GenerateInvoiceFromDelivery, GenerateDraftFromPurchases
  <1>4. ASSUME NEW j \in Invoices, InvoiceStep(j)
        PROVE  /\ items'[i] = items[i]
               /\ invStatus[i] = "finalized" \/ FinalizeInvoice(i)
    <2>1. CASE FinalizeInvoice(j)
      BY <2>1 DEF FinalizeInvoice
    <2>2. CASE ResetToDraft(j)
      BY <2>2 DEF ResetToDraft
    <2>3. CASE UnlockInvoice(j)
      BY <2>3 DEF UnlockInvoice
    <2>4. QED
      BY <1>4, <2>1, <2>2, <2>3 DEF InvoiceStep
  <1>5. ASSUME NEW S \in SUBSET Orders, BulkCancel(S) PROVE UNCHANGED <<invStatus, items>>
    BY <1>5 DEF BulkCancel, invoiceVars
  <1>6. CASE UNCHANGED vars
    BY <1>6 DEF vars, invoiceVars
  <1>7. QED
    BY <1>1, <1>2, <1>3, <1>4, <1>5, <1>6 DEF Next

-----------------------------------------------------------------------------
(* Orders that are shipped, and orders that are billed *)

(* Once an order is shipped it stays shipped or invoiced for ever.         *)
THEOREM ShippedForever == Spec => ShippedIsForever
  <1>1. TypeOK /\ [Next]_vars =>
          [\A o \in Orders :
             orderStatus[o] \in ShippedStatuses => orderStatus'[o] \in ShippedStatuses]_vars
    BY ShippedStep
  <1>2. QED
    BY <1>1, TypeCorrect, PTL DEF Spec, ShippedIsForever

LEMMA BilledOrderStep ==
    ASSUME TypeOK, BilledOrderIsShipped, [Next]_vars
    PROVE  BilledOrderIsShipped'
  <1> SUFFICES ASSUME NEW i \in Invoices, invStatus'[i] = "finalized", NEW l \in items'[i]
               PROVE  orderStatus'[OrderOf[l]] \in ShippedStatuses
    BY DEF BilledOrderIsShipped
  <1>1. l \in items[i] /\ l \in Lines /\ OrderOf[l] \in Orders
    BY FinalizedStep DEF TypeOK
  <1>2. CASE invStatus[i] = "finalized"
    BY <1>1, <1>2, ShippedStep DEF BilledOrderIsShipped
  <1>3. CASE FinalizeInvoice(i)
    BY <1>1, <1>3 DEF FinalizeInvoice, SyncOrderStatuses, OrderStatusFrom, OrdersOf,
                      ShippedStatuses
  <1>4. QED
    BY <1>2, <1>3, FinalizedStep

(* An order with a line on a finalized invoice is shipped or invoiced: the *)
(* invariant is inductive given the types, by the two frame lemmas.        *)
THEOREM BilledOrderShipped == Spec => []BilledOrderIsShipped
  <1>1. Init => BilledOrderIsShipped
    BY DEF Init, BilledOrderIsShipped
  <1>2. TypeOK /\ BilledOrderIsShipped /\ [Next]_vars => BilledOrderIsShipped'
    BY BilledOrderStep
  <1>3. QED
    BY <1>1, <1>2, TypeCorrect, PTL DEF Spec

-----------------------------------------------------------------------------
(* Deliveries *)

LEMMA DeliverySync ==
    ASSUME TypeOK, DeliveryExactlyWhenShipped, NEW i \in Invoices, NEW status,
           SyncOrderStatuses(i, status)
    PROVE  DeliveryExactlyWhenShipped'
  <1> DEFINE changed == {o \in OrdersOf(i) : OrderStatusFrom(o, status) # orderStatus[o]}
  <1>1. OrdersOf(i) \subseteq Orders
    BY DEF OrdersOf, TypeOK
  <1>2. \A o \in Orders : orderStatus'[o] =
          IF o \in OrdersOf(i) THEN OrderStatusFrom(o, status) ELSE orderStatus[o]
    BY DEF SyncOrderStatuses
  <1>3. \A o : OrderStatusFrom(o, status) \in ShippedStatuses
    BY DEF OrderStatusFrom, ShippedStatuses
  <1>4. hasDelivery' = hasDelivery \cup changed
    BY DEF SyncOrderStatuses, EnsureDeliveries
  <1> HIDE DEF changed
  <1>5. \A o \in Orders : o \in changed <=>
          o \in OrdersOf(i) /\ OrderStatusFrom(o, status) # orderStatus[o]
    BY DEF changed
  <1>6. changed \subseteq Orders
    BY <1>1 DEF changed
  <1>7. QED
    BY <1>2, <1>3, <1>4, <1>5, <1>6 DEF DeliveryExactlyWhenShipped

LEMMA DeliveryStep ==
    ASSUME TypeOK, DeliveryExactlyWhenShipped, [Next]_vars
    PROVE  DeliveryExactlyWhenShipped'
  <1> USE DEF TypeOK, DeliveryExactlyWhenShipped
  <1>1. ASSUME NEW o \in Orders, OrderStep(o) PROVE DeliveryExactlyWhenShipped'
    <2>1. CASE CreateOrder(o)
      BY <2>1 DEF CreateOrder, deliveryVars, ShippedStatuses
    <2>2. CASE UpdateOrder(o) \/ BuildDelivery(o)
      BY <2>2 DEF UpdateOrder, BuildDelivery, EnsureDeliveries, orderVars
    <2>3. ASSUME NEW rule \in TransitionRules, BulkTransition(o, rule)
          PROVE  DeliveryExactlyWhenShipped'
      <3>1. rule.from \in ShippedStatuses => rule.to \in ShippedStatuses
        BY DEF TransitionRules, ShippedStatuses
      <3>2. orderStatus' = [orderStatus EXCEPT ![o] = rule.to] /\ orderStatus[o] = rule.from
        BY <2>3 DEF BulkTransition
      <3>3. hasDelivery' =
              hasDelivery \cup (IF rule.to \in ShippedStatuses THEN {o} ELSE {})
        BY <2>3 DEF BulkTransition, EnsureDeliveries
      <3>4. QED
        BY <3>1, <3>2, <3>3
    <2>4. QED
      BY <1>1, <2>1, <2>2, <2>3 DEF OrderStep
  <1>2. ASSUME NEW l \in Lines, LineStep(l) PROVE DeliveryExactlyWhenShipped'
    BY <1>2 DEF LineStep, CreateOrderItem, DeleteOrderItem, SaveAllocation,
                RecordPurchase, deliveryVars
  <1>3. ASSUME NEW i \in Invoices, DraftStep(i) PROVE DeliveryExactlyWhenShipped'
    <2>1. ASSUME NEW o \in Orders, ResolveDelivery(o) PROVE UNCHANGED hasDelivery
      BY <2>1 DEF ResolveDelivery, EnsureDeliveries
    <2>2. UNCHANGED <<orderStatus, hasDelivery>>
      BY <1>3, <2>1 DEF DraftStep, CreateInvoice, GenerateInvoice,
         GenerateInvoiceFromDelivery, GenerateDraftFromPurchases, FinalizeItemLine,
         orderVars, deliveryVars
    <2>3. QED
      BY <2>2
  <1>4. ASSUME NEW i \in Invoices, InvoiceStep(i) PROVE DeliveryExactlyWhenShipped'
    <2>1. CASE FinalizeInvoice(i)
      BY <2>1, DeliverySync DEF FinalizeInvoice
    <2>2. CASE ResetToDraft(i)
      BY <2>2, DeliverySync DEF ResetToDraft
    <2>3. CASE UnlockInvoice(i)
      BY <2>3 DEF UnlockInvoice, orderVars, deliveryVars
    <2>4. QED
      BY <1>4, <2>1, <2>2, <2>3 DEF InvoiceStep
  <1>5. ASSUME NEW S \in SUBSET Orders, BulkCancel(S) PROVE DeliveryExactlyWhenShipped'
    BY <1>5 DEF BulkCancel, deliveryVars, ShippedStatuses
  <1>6. CASE UNCHANGED vars
    BY <1>6 DEF vars, orderVars, deliveryVars
  <1>7. QED
    BY <1>1, <1>2, <1>3, <1>4, <1>5, <1>6 DEF Next

(* A delivery document exists exactly for the shipped and invoiced orders. *)
THEOREM DeliveryWhenShipped == Spec => []DeliveryExactlyWhenShipped
  <1>1. Init => DeliveryExactlyWhenShipped
    BY DEF Init, DeliveryExactlyWhenShipped, ShippedStatuses
  <1>2. TypeOK /\ DeliveryExactlyWhenShipped /\ [Next]_vars => DeliveryExactlyWhenShipped'
    BY DeliveryStep
  <1>3. QED
    BY <1>1, <1>2, TypeCorrect, PTL DEF Spec

-----------------------------------------------------------------------------
(* Rows that refer to lines *)

LEMMA DanglingEnsure ==
    ASSUME TypeOK, NoDanglingRows, NEW os \in SUBSET Orders, EnsureDeliveries(os),
           NEW l \in Lines, lineStatus[l] = "absent"
    PROVE  l \notin deliveryLines'
  BY DEF TypeOK, NoDanglingRows, EnsureDeliveries, LinesOf

LEMMA DanglingSync ==
    ASSUME TypeOK, NoDanglingRows, NEW i \in Invoices, NEW status,
           SyncOrderStatuses(i, status), UNCHANGED <<supply, items>>
    PROVE  NoDanglingRows'
  <1> SUFFICES ASSUME NEW l \in Lines, lineStatus'[l] = "absent"
               PROVE  /\ supply'[l] = "none"
                      /\ l \notin deliveryLines'
                      /\ \A j \in Invoices : l \notin items'[j]
    BY DEF NoDanglingRows
  <1>1. lineStatus[l] = "absent"
    BY DEF SyncOrderStatuses, LineStatusFrom
  <1>2. OrdersOf(i) \subseteq Orders
    BY DEF OrdersOf, TypeOK
  <1>3. l \notin deliveryLines'
    BY <1>1, <1>2, DanglingEnsure DEF SyncOrderStatuses
  <1>4. QED
    BY <1>1, <1>3 DEF NoDanglingRows

LEMMA DanglingDraft ==
    ASSUME TypeOK, NoDanglingRows, NEW i \in Invoices, NEW o \in Orders,
           NEW S \in SUBSET {l \in Lines : lineStatus[l] # "absent"}, NewDraft(i, S),
           ResolveDelivery(o) \/ UNCHANGED deliveryVars, UNCHANGED lineStatus,
           \A l \in Lines : supply'[l] = supply[l] \/ l \in S
    PROVE  NoDanglingRows'
  <1> SUFFICES ASSUME NEW l \in Lines, lineStatus[l] = "absent"
               PROVE  /\ supply'[l] = "none"
                      /\ l \notin deliveryLines'
                      /\ \A j \in Invoices : l \notin items'[j]
    BY DEF NoDanglingRows
  <1>1. supply'[l] = "none"
    BY DEF NoDanglingRows
  <1>2. l \notin deliveryLines'
    BY DanglingEnsure DEF ResolveDelivery, deliveryVars, NoDanglingRows
  <1>3. \A j \in Invoices : l \notin items'[j]
    BY DEF NewDraft, NoDanglingRows, TypeOK
  <1>4. QED
    BY <1>1, <1>2, <1>3

LEMMA DanglingStep ==
    ASSUME TypeOK, NoDanglingRows, [Next]_vars
    PROVE  NoDanglingRows'
  <1>1. ASSUME NEW o \in Orders, OrderStep(o) PROVE NoDanglingRows'
    <2>1. \A l \in Lines : lineStatus'[l] = "absent" => lineStatus[l] = "absent"
      BY <1>1 DEF OrderStep, CreateOrder, UpdateOrder, BulkTransition, BuildDelivery,
         orderVars, LinesOf, TransitionRules
    <2>2. \/ \E os \in SUBSET Orders : EnsureDeliveries(os)
          \/ UNCHANGED deliveryVars
      BY <1>1 DEF OrderStep, CreateOrder, UpdateOrder, BulkTransition, BuildDelivery
    <2>3. UNCHANGED <<supply, items>>
      BY <1>1 DEF OrderStep, CreateOrder, UpdateOrder, BulkTransition, BuildDelivery,
         orderVars, invoiceVars
    <2>4. QED
      BY <2>1, <2>2, <2>3, DanglingEnsure DEF NoDanglingRows, deliveryVars
  <1>2. ASSUME NEW l \in Lines, LineStep(l) PROVE NoDanglingRows'
    <2>1. CASE CreateOrderItem(l)
      BY <2>1 DEF CreateOrderItem, NoDanglingRows, TypeOK, deliveryVars, invoiceVars
    <2>2. CASE DeleteOrderItem(l)
      BY <2>2 DEF DeleteOrderItem, NoDanglingRows, TypeOK, deliveryVars, invoiceVars
    <2>3. CASE SaveAllocation(l)
      BY <2>3 DEF SaveAllocation, NoDanglingRows, TypeOK, deliveryVars, invoiceVars
    <2>4. ASSUME NEW m, RecordPurchase(l, m) PROVE NoDanglingRows'
      BY <2>4 DEF RecordPurchase, NoDanglingRows, TypeOK, deliveryVars, invoiceVars
    <2>5. QED
      BY <1>2, <2>1, <2>2, <2>3, <2>4 DEF LineStep
  <1>3. ASSUME NEW i \in Invoices, DraftStep(i) PROVE NoDanglingRows'
    <2>1. ASSUME NEW o \in Orders, CreateInvoice(i, o) PROVE NoDanglingRows'
      BY <2>1, DanglingDraft DEF CreateInvoice, orderVars
    <2>2. ASSUME NEW o \in Orders,
                 GenerateInvoice(i, o) \/ GenerateInvoiceFromDelivery(i, o)
          PROVE  NoDanglingRows'
      <3>1. LinesOf(o) \in SUBSET {l \in Lines : lineStatus[l] # "absent"}
        BY DEF LinesOf
      <3>2. QED
        BY <2>2, <3>1, DanglingDraft
           DEF GenerateInvoice, GenerateInvoiceFromDelivery, orderVars
    <2>3. ASSUME NEW o \in Orders, NEW S \in SUBSET Lines,
                 GenerateDraftFromPurchases(i, o, S)
          PROVE  NoDanglingRows'
      <3>1. S \in SUBSET {l \in Lines : lineStatus[l] # "absent"}
        BY <2>3 DEF GenerateDraftFromPurchases, NoDanglingRows
      <3>2. \A l \in Lines : supply'[l] = supply[l] \/ l \in S
        BY <2>3 DEF GenerateDraftFromPurchases
      <3>3. QED
        BY <2>3, <3>1, <3>2, DanglingDraft DEF GenerateDraftFromPurchases
    <2>4. ASSUME NEW l \in Lines, FinalizeItemLine(i, l) PROVE NoDanglingRows'
      BY <2>4 DEF FinalizeItemLine, NoDanglingRows, orderVars, deliveryVars
    <2>5. QED
      BY <1>3, <2>1, <2>2, <2>3, <2>4 DEF DraftStep
  <1>4. ASSUME NEW i \in Invoices, InvoiceStep(i) PROVE NoDanglingRows'
    <2>1. CASE FinalizeInvoice(i)
      BY <2>1, DanglingSync DEF FinalizeInvoice
    <2>2. CASE ResetToDraft(i)
      BY <2>2, DanglingSync DEF ResetToDraft
    <2>3. CASE UnlockInvoice(i)
      BY <2>3 DEF UnlockInvoice, NoDanglingRows, orderVars, deliveryVars
    <2>4. QED
      BY <1>4, <2>1, <2>2, <2>3 DEF InvoiceStep
  <1>5. ASSUME NEW S \in SUBSET Orders, BulkCancel(S) PROVE NoDanglingRows'
    BY <1>5 DEF BulkCancel, NoDanglingRows, deliveryVars, invoiceVars
  <1>6. CASE UNCHANGED vars
    BY <1>6 DEF vars, NoDanglingRows, orderVars, deliveryVars, invoiceVars
  <1>7. QED
    BY <1>1, <1>2, <1>3, <1>4, <1>5, <1>6 DEF Next

(* No allocation, purchase result, delivery item or invoice item refers to *)
(* a line that is gone.                                                    *)
THEOREM NoDangling == Spec => []NoDanglingRows
  <1>1. Init => NoDanglingRows
    BY DEF Init, NoDanglingRows
  <1>2. TypeOK /\ NoDanglingRows /\ [Next]_vars => NoDanglingRows'
    BY DanglingStep
  <1>3. QED
    BY <1>1, <1>2, TypeCorrect, PTL DEF Spec

-----------------------------------------------------------------------------
(* Lines that are billed *)

(* BilledLineIsInvoiced is not inductive alone.  A manual transition could *)
(* move an allocated line of a billed order on, which BilledOrderIsShipped *)
(* excludes; a finalize could bill a line that is gone, and would then not *)
(* set its status, which NoDanglingRows excludes.                          *)
BillingInv == TypeOK /\ BilledOrderIsShipped /\ NoDanglingRows /\ BilledLineIsInvoiced

LEMMA BilledLineSync ==
    ASSUME TypeOK, NoDanglingRows, NEW i \in Invoices, NEW status,
           SyncOrderStatuses(i, status), NEW l \in items[i], IsBilled(l, status)
    PROVE  lineStatus'[l] = "invoiced"
  <1>1. l \in Lines /\ OrderOf[l] \in OrdersOf(i)
    BY DEF TypeOK, OrdersOf
  <1>2. l \in LinesOf(OrderOf[l])
    BY <1>1 DEF LinesOf, NoDanglingRows
  <1>3. QED
    BY <1>1, <1>2 DEF SyncOrderStatuses, LineStatusFrom

LEMMA BilledLineOtherSync ==
    ASSUME TypeOK, NEW i \in Invoices, NEW status, SyncOrderStatuses(i, status),
           NEW l \in Lines, IsBilled(l, status), lineStatus[l] \in {"invoiced", "allocated"}
    PROVE  lineStatus'[l] \in {"invoiced", "allocated"}
  BY DEF SyncOrderStatuses, LineStatusFrom

LEMMA BilledLineStep ==
    ASSUME BillingInv, [Next]_vars
    PROVE  BilledLineIsInvoiced'
  <1> USE DEF BillingInv
  <1> SUFFICES ASSUME NEW j \in Invoices, invStatus'[j] = "finalized", NEW l \in items'[j]
               PROVE  lineStatus'[l] \in {"invoiced", "allocated"}
    BY DEF BilledLineIsInvoiced
  <1>1. /\ l \in items[j] /\ l \in Lines /\ OrderOf[l] \in Orders
        /\ invStatus[j] = "finalized" \/ FinalizeInvoice(j)
    BY FinalizedStep DEF TypeOK
  <1>2. IsBilled(l, invStatus')
    BY <1>1 DEF IsBilled
  <1>3. CASE FinalizeInvoice(j)
    BY <1>1, <1>2, <1>3, BilledLineSync DEF FinalizeInvoice
  <1>4. CASE invStatus[j] = "finalized"
    <2>1. /\ lineStatus[l] \in {"invoiced", "allocated"}
          /\ orderStatus[OrderOf[l]] \in {"shipped", "invoiced"}
      BY <1>1, <1>4 DEF BilledLineIsInvoiced, BilledOrderIsShipped, ShippedStatuses
    <2>2. ASSUME NEW o \in Orders, OrderStep(o)
          PROVE  lineStatus'[l] \in {"invoiced", "allocated"}
      <3>1. CASE CreateOrder(o) \/ UpdateOrder(o) \/ BuildDelivery(o)
        BY <2>1, <3>1 DEF CreateOrder, UpdateOrder, BuildDelivery, orderVars
      <3>2. ASSUME NEW rule \in TransitionRules, BulkTransition(o, rule)
            PROVE  lineStatus'[l] \in {"invoiced", "allocated"}
        BY <1>1, <2>1, <3>2 DEF BulkTransition, TransitionRules, LinesOf
      <3>3. QED
        BY <2>2, <3>1, <3>2 DEF OrderStep
    <2>3. ASSUME NEW k \in Lines, LineStep(k)
          PROVE  lineStatus'[l] \in {"invoiced", "allocated"}
      BY <1>1, <2>1, <2>3 DEF LineStep, CreateOrderItem, DeleteOrderItem, SaveAllocation,
                              RecordPurchase, TypeOK
    <2>4. ASSUME NEW i \in Invoices, DraftStep(i)
          PROVE  lineStatus'[l] \in {"invoiced", "allocated"}
      BY <2>1, <2>4 DEF DraftStep, CreateInvoice, GenerateInvoice,
         GenerateInvoiceFromDelivery, GenerateDraftFromPurchases, FinalizeItemLine, orderVars
    <2>5. ASSUME NEW i \in Invoices, InvoiceStep(i)
          PROVE  lineStatus'[l] \in {"invoiced", "allocated"}
      BY <1>1, <1>2, <2>1, <2>5, BilledLineOtherSync
         DEF InvoiceStep, FinalizeInvoice, ResetToDraft, UnlockInvoice, orderVars
    <2>6. ASSUME NEW S \in SUBSET Orders, BulkCancel(S)
          PROVE  lineStatus'[l] \in {"invoiced", "allocated"}
      BY <1>1, <2>1, <2>6 DEF BulkCancel, LinesOf
    <2>7. CASE UNCHANGED vars
      BY <2>1, <2>7 DEF vars, orderVars
    <2>8. QED
      BY <2>2, <2>3, <2>4, <2>5, <2>6, <2>7 DEF Next
  <1>5. QED
    BY <1>1, <1>3, <1>4

(* A line on a finalized invoice is invoiced, or a bulk-save has set it to *)
(* allocated; reopening another invoice of the line does not change that.  *)
THEOREM BilledLineInvoiced == Spec => []BilledLineIsInvoiced
  <1>1. Init => BilledLineIsInvoiced
    BY DEF Init, BilledLineIsInvoiced
  <1>2. /\ TypeOK /\ BilledOrderIsShipped /\ NoDanglingRows /\ BilledLineIsInvoiced
        /\ [Next]_vars
        => BilledLineIsInvoiced'
    BY BilledLineStep DEF BillingInv
  <1>3. QED
    BY <1>1, <1>2, TypeCorrect, BilledOrderShipped, NoDangling, PTL DEF Spec

-----------------------------------------------------------------------------
(* What one step does to lines and deliveries *)

(* A reopened invoice frees its lines: a line stays invoiced only if       *)
(* another finalized invoice bills it, its order only if all lines are.    *)
THEOREM ReopeningFrees == Spec => ReopeningFreesLines
  <1>1. ASSUME TypeOK, NoDanglingRows, [Next]_vars, NEW i \in Invoices,
               invStatus[i] = "finalized", invStatus'[i] = "draft", NEW l \in items[i]
        PROVE  /\ lineStatus'[l] = "invoiced" => IsBilled(l, invStatus')
               /\ orderStatus'[OrderOf[l]] = "invoiced" =>
                    \A k \in LinesOf(OrderOf[l]) : IsBilled(k, invStatus')
    <2>1. ResetToDraft(i)
      BY <1>1 DEF TypeOK, Next, OrderStep, LineStep, DraftStep, InvoiceStep, CreateOrder,
         UpdateOrder, BulkTransition, BulkCancel, BuildDelivery, CreateOrderItem,
         DeleteOrderItem, SaveAllocation, RecordPurchase, CreateInvoice, GenerateInvoice,
         GenerateInvoiceFromDelivery, GenerateDraftFromPurchases, NewDraft,
         FinalizeItemLine, FinalizeInvoice, ResetToDraft, UnlockInvoice, vars, invoiceVars
    <2>2. /\ l \in Lines /\ OrderOf[l] \in OrdersOf(i) /\ OrderOf[l] \in Orders
          /\ l \in LinesOf(OrderOf[l])
      BY <1>1 DEF TypeOK, OrdersOf, LinesOf, NoDanglingRows
    <2>3. /\ lineStatus'[l] = LineStatusFrom(l, invStatus')
          /\ orderStatus'[OrderOf[l]] = OrderStatusFrom(OrderOf[l], invStatus')
      BY <2>1, <2>2 DEF ResetToDraft, SyncOrderStatuses
    <2>4. QED
      BY <2>3 DEF LineStatusFrom, OrderStatusFrom
  <1>2. TypeOK /\ NoDanglingRows /\ [Next]_vars =>
          [\A i \in Invoices :
             invStatus[i] = "finalized" /\ invStatus'[i] = "draft" =>
               \A l \in items[i] :
                 /\ lineStatus'[l] = "invoiced" => IsBilled(l, invStatus')
                 /\ orderStatus'[OrderOf[l]] = "invoiced" =>
                      \A k \in LinesOf(OrderOf[l]) : IsBilled(k, invStatus')]_vars
    BY <1>1
  <1>3. QED
    BY <1>2, TypeCorrect, NoDangling, PTL DEF Spec, ReopeningFreesLines

(* Whenever an order becomes shipped or invoiced, its delivery document    *)
(* lists all its lines.                                                    *)
THEOREM StatusChangeRefreshes == Spec => StatusChangeRefreshesDelivery
  <1>1. ASSUME TypeOK, [Next]_vars, NEW o \in Orders,
               orderStatus'[o] # orderStatus[o], orderStatus'[o] \in ShippedStatuses
        PROVE  o \in hasDelivery' /\ LinesOf(o) \subseteq deliveryLines'
    <2> USE DEF TypeOK
    <2>1. ASSUME NEW os, EnsureDeliveries(os), o \in os
          PROVE  o \in hasDelivery' /\ LinesOf(o) \subseteq deliveryLines'
      BY <2>1 DEF EnsureDeliveries
    <2>2. ASSUME NEW p \in Orders, OrderStep(p)
          PROVE  o \in hasDelivery' /\ LinesOf(o) \subseteq deliveryLines'
      <3>1. PICK rule \in TransitionRules : BulkTransition(p, rule)
        BY <1>1, <2>2 DEF OrderStep, CreateOrder, UpdateOrder, BuildDelivery, orderVars,
           ShippedStatuses
      <3>2. o = p /\ rule.to \in ShippedStatuses
        BY <1>1, <3>1 DEF BulkTransition
      <3>3. EnsureDeliveries({o})
        BY <3>1, <3>2 DEF BulkTransition
      <3>4. QED
        BY <2>1, <3>3
    <2>3. ASSUME NEW i \in Invoices, NEW status, SyncOrderStatuses(i, status)
          PROVE  o \in hasDelivery' /\ LinesOf(o) \subseteq deliveryLines'
      <3>1. o \in OrdersOf(i) /\ OrderStatusFrom(o, status) # orderStatus[o]
        BY <1>1, <2>3 DEF SyncOrderStatuses
      <3>2. QED
        BY <2>1, <2>3, <3>1 DEF SyncOrderStatuses
    <2>4. ASSUME NEW S \in SUBSET Orders, BulkCancel(S) PROVE FALSE
      BY <1>1, <2>4 DEF BulkCancel, ShippedStatuses
    <2>5. ASSUME UNCHANGED orderStatus PROVE FALSE
      BY <1>1, <2>5
    <2>6. QED
      BY <1>1, <2>2, <2>3, <2>4, <2>5 DEF Next, LineStep, DraftStep, InvoiceStep,
         CreateOrderItem, DeleteOrderItem, SaveAllocation, RecordPurchase, CreateInvoice,
         GenerateInvoice, GenerateInvoiceFromDelivery, GenerateDraftFromPurchases,
         FinalizeItemLine, FinalizeInvoice, ResetToDraft, UnlockInvoice, vars, orderVars
  <1>2. TypeOK /\ [Next]_vars =>
          [\A o \in Orders :
             orderStatus'[o] # orderStatus[o] /\ orderStatus'[o] \in ShippedStatuses
               => o \in hasDelivery' /\ LinesOf(o) \subseteq deliveryLines']_vars
    BY <1>1
  <1>3. QED
    BY <1>2, TypeCorrect, PTL DEF Spec, StatusChangeRefreshesDelivery

-----------------------------------------------------------------------------
(* Invoices: their numbers, their lock, the orders they bill, and that     *)
(* they behave as InvoiceLedger says.                                      *)

(* The steps that leave status, lock, items and numbers of all invoices    *)
(* alone.                                                                  *)
LEMMA OtherStepsKeepInvoices ==
    ASSUME \/ \E o \in Orders : OrderStep(o)
           \/ \E S \in SUBSET Orders : BulkCancel(S)
           \/ \E l \in Lines : LineStep(l)
           \/ \E i \in Invoices, l \in Lines : FinalizeItemLine(i, l)
           \/ UNCHANGED vars
    PROVE  UNCHANGED <<invStatus, locked, items, official, nextSeq>>
  <1>1. ASSUME NEW o \in Orders, OrderStep(o)
        PROVE  UNCHANGED <<invStatus, locked, items, official, nextSeq>>
    BY <1>1 DEF OrderStep, CreateOrder, UpdateOrder, BulkTransition, BuildDelivery,
                invoiceVars
  <1>2. ASSUME NEW l \in Lines, LineStep(l)
        PROVE  UNCHANGED <<invStatus, locked, items, official, nextSeq>>
    BY <1>2 DEF LineStep, CreateOrderItem, DeleteOrderItem, SaveAllocation,
                RecordPurchase, invoiceVars
  <1>3. QED
    BY <1>1, <1>2 DEF BulkCancel, FinalizeItemLine, vars, invoiceVars

(* The four kinds of step the invoices see: a draft is opened with lines   *)
(* of one order, an invoice is finalized, reset or unlocked, or nothing.   *)
LEMMA InvoiceCases ==
    ASSUME TypeOK, [Next]_vars
    PROVE  \/ UNCHANGED <<invStatus, locked, items, official, nextSeq>>
           \/ \E i \in Invoices, o \in Orders :
                \E S \in SUBSET {l \in Lines : OrderOf[l] = o} : NewDraft(i, S)
           \/ \E i \in Invoices : InvoiceStep(i)
  <1>1. ASSUME NEW i \in Invoices, DraftStep(i)
        PROVE  \/ \E l \in Lines : FinalizeItemLine(i, l)
               \/ \E o \in Orders :
                    \E S \in SUBSET {l \in Lines : OrderOf[l] = o} : NewDraft(i, S)
    <2>1. ASSUME NEW o \in Orders, CreateInvoice(i, o)
          PROVE  \E S \in SUBSET {l \in Lines : OrderOf[l] = o} : NewDraft(i, S)
      BY <2>1 DEF CreateInvoice
    <2>2. ASSUME NEW o \in Orders, GenerateInvoice(i, o) \/ GenerateInvoiceFromDelivery(i, o)
          PROVE  \E S \in SUBSET {l \in Lines : OrderOf[l] = o} : NewDraft(i, S)
      BY <2>2 DEF GenerateInvoice, GenerateInvoiceFromDelivery, LinesOf
    <2>3. ASSUME NEW o \in Orders, NEW S \in SUBSET Lines, GenerateDraftFromPurchases(i, o, S)
          PROVE  \E T \in SUBSET {l \in Lines : OrderOf[l] = o} : NewDraft(i, T)
      BY <2>3 DEF GenerateDraftFromPurchases
    <2>4. QED
      BY <1>1, <2>1, <2>2, <2>3 DEF DraftStep
  <1>2. QED
    BY <1>1, OtherStepsKeepInvoices DEF Next

-----------------------------------------------------------------------------
(* Official numbers *)

(* Uniqueness needs to know that every number in use is below the sequence *)
(* row of its year; the absence of gaps says exactly that and more.        *)
NumberInv ==
    /\ \A y \in Years : nextSeq[y] >= 1
    /\ NumbersHaveNoGap
    /\ NumbersAreUnique

LEMMA NumberBelow ==
    ASSUME TypeOK, NumbersHaveNoGap, NEW i \in Invoices, official[i] # 0
    PROVE  official[i] < nextSeq[YearOf[i]]
  <1>1. i \in NumberedIn(YearOf[i]) /\ YearOf[i] \in Years
    BY DEF NumberedIn
  <1>2. official[i] \in 1 .. (nextSeq[YearOf[i]] - 1)
    BY <1>1 DEF NumbersHaveNoGap
  <1>3. QED
    BY <1>1, <1>2 DEF TypeOK

LEMMA NumberStep ==
    ASSUME TypeOK, NumberInv, [Next]_vars
    PROVE  NumberInv'
  <1> USE DEF NumberInv
  <1>1. CASE UNCHANGED <<official, nextSeq>>
    BY <1>1 DEF NumbersHaveNoGap, NumbersAreUnique, NumberedIn
  <1>2. ASSUME NEW i \in Invoices, official[i] = 0, AssignOfficialNumber(i)
        PROVE  NumberInv'
    <2> DEFINE yi == YearOf[i]
               n == nextSeq[yi]
    <2>1. /\ official' = [official EXCEPT ![i] = n]
          /\ nextSeq' = [nextSeq EXCEPT ![yi] = n + 1]
          /\ yi \in Years /\ n \in Nat /\ n >= 1
      BY <1>2 DEF AssignOfficialNumber, TypeOK
    <2>2. \A y \in Years : nextSeq'[y] >= 1
      BY <2>1 DEF TypeOK
    <2>3. NumbersHaveNoGap'
      <3> SUFFICES ASSUME NEW y \in Years
                   PROVE  {official'[j] : j \in NumberedIn(y)'} = 1 .. (nextSeq'[y] - 1)
        BY DEF NumbersHaveNoGap
      <3>1. {official[j] : j \in NumberedIn(y)} = 1 .. (nextSeq[y] - 1)
        BY DEF NumbersHaveNoGap
      <3>2. CASE y # yi
        <4>1. NumberedIn(y)' = NumberedIn(y) /\ i \notin NumberedIn(y)
          BY <2>1, <3>2 DEF NumberedIn, TypeOK
        <4>2. \A j \in NumberedIn(y) : official'[j] = official[j]
          BY <2>1, <4>1 DEF NumberedIn, TypeOK
        <4>3. QED
          BY <2>1, <3>1, <3>2, <4>1, <4>2 DEF TypeOK
      <3>3. CASE y = yi
        <4>1. NumberedIn(y)' = NumberedIn(y) \cup {i} /\ i \notin NumberedIn(y)
          BY <1>2, <2>1, <3>3 DEF NumberedIn, TypeOK
        <4>2. /\ \A j \in NumberedIn(y) : official'[j] = official[j]
              /\ official'[i] = n
          BY <2>1, <4>1 DEF NumberedIn, TypeOK
        <4>3. {official'[j] : j \in NumberedIn(y)'} =
                {official[j] : j \in NumberedIn(y)} \cup {n}
          BY <4>1, <4>2
        <4>4. (1 .. (n - 1)) \cup {n} = 1 .. n
          BY <2>1
        <4>5. nextSeq'[y] - 1 = n
          BY <2>1, <3>3 DEF TypeOK
        <4>6. QED
          BY <3>1, <3>3, <4>3, <4>4, <4>5
      <3>4. QED
        BY <3>2, <3>3
    <2>4. NumbersAreUnique'
      <3> SUFFICES ASSUME NEW j \in Invoices, NEW k \in Invoices, official'[j] # 0,
                          official'[j] = official'[k], YearOf[j] = YearOf[k]
                   PROVE  j = k
        BY DEF NumbersAreUnique
      <3>1. CASE j # i /\ k # i
        BY <2>1, <3>1 DEF NumbersAreUnique, TypeOK
      <3>2. ASSUME NEW m \in Invoices, m # i, YearOf[m] = yi, official[m] # 0
            PROVE  official[m] # n
        BY <2>1, <3>2, NumberBelow DEF TypeOK
      <3>3. CASE j = i \/ k = i
        BY <2>1, <3>2, <3>3 DEF TypeOK
      <3>4. QED
        BY <3>1, <3>3
    <2>5. QED
      BY <2>2, <2>3, <2>4
  <1>3. ASSUME NEW i \in Invoices, NEW S, NewDraft(i, S) PROVE UNCHANGED <<official, nextSeq>>
    BY <1>3 DEF NewDraft
  <1>4. ASSUME NEW i \in Invoices, InvoiceStep(i)
        PROVE  \/ UNCHANGED <<official, nextSeq>>
               \/ official[i] = 0 /\ AssignOfficialNumber(i)
    BY <1>4 DEF InvoiceStep, FinalizeInvoice, ResetToDraft, UnlockInvoice,
                AssignOfficialNumber
  <1>5. QED
    BY <1>1, <1>2, <1>3, <1>4, InvoiceCases

LEMMA NumberInit == Init => NumberInv
  <1> SUFFICES ASSUME Init PROVE NumberInv
    OBVIOUS
  <1>1. \A y \in Years : nextSeq[y] = 1 /\ NumberedIn(y) = {}
    BY DEF Init, NumberedIn
  <1>2. \A y \in Years : {official[i] : i \in NumberedIn(y)} = {}
    BY <1>1
  <1>3. 1 .. (1 - 1) = {}
    OBVIOUS
  <1>4. NumbersAreUnique
    BY DEF Init, NumbersAreUnique
  <1>5. QED
    BY <1>1, <1>2, <1>3, <1>4 DEF NumberInv, NumbersHaveNoGap

LEMMA NumbersInvariant == Spec => []NumberInv
  <1>1. TypeOK /\ NumberInv /\ [Next]_vars => NumberInv'
    BY NumberStep
  <1>2. QED
    BY <1>1, NumberInit, TypeCorrect, PTL DEF Spec

(* No two invoices of a year carry the same official number.               *)
THEOREM UniqueNumbers == Spec => []NumbersAreUnique
  <1>1. NumberInv => NumbersAreUnique
    BY DEF NumberInv
  <1>2. QED
    BY <1>1, NumbersInvariant, PTL

(* The official numbers in use in a year are 1, 2, ... without a gap.      *)
THEOREM GaplessNumbers == Spec => []NumbersHaveNoGap
  <1>1. NumberInv => NumbersHaveNoGap
    BY DEF NumberInv
  <1>2. QED
    BY <1>1, NumbersInvariant, PTL

(* A number once given to an invoice never changes.                        *)
THEOREM PermanentNumbers == Spec => OfficialNumberIsPermanent
  <1>1. ASSUME TypeOK, [Next]_vars, NEW i \in Invoices, official[i] # 0
        PROVE  official'[i] = official[i]
    <2>1. ASSUME NEW j \in Invoices, InvoiceStep(j) PROVE official'[i] = official[i]
      BY <1>1, <2>1 DEF InvoiceStep, FinalizeInvoice, ResetToDraft, UnlockInvoice,
                        AssignOfficialNumber, TypeOK
    <2>2. QED
      BY <1>1, <2>1, InvoiceCases DEF NewDraft
  <1>2. TypeOK /\ [Next]_vars =>
          [\A i \in Invoices : official[i] # 0 => official'[i] = official[i]]_vars
    BY <1>1
  <1>3. QED
    BY <1>2, TypeCorrect, PTL DEF Spec, OfficialNumberIsPermanent

-----------------------------------------------------------------------------
(* Locks *)

LEMMA LockStep ==
    ASSUME TypeOK, NumberInv, LockedIsIssued, [Next]_vars
    PROVE  LockedIsIssued'
  <1> USE DEF TypeOK, LockedIsIssued
  <1>1. CASE UNCHANGED <<invStatus, locked, items, official, nextSeq>>
    BY <1>1
  <1>2. ASSUME NEW i \in Invoices, NEW S, NewDraft(i, S) PROVE LockedIsIssued'
    BY <1>2 DEF NewDraft
  <1>3. ASSUME NEW i \in Invoices, InvoiceStep(i) PROVE LockedIsIssued'
    <2>1. CASE FinalizeInvoice(i)
      <3>1. \A y \in Years : nextSeq[y] # 0
        BY DEF NumberInv
      <3>2. /\ official'[i] # 0
            /\ \A j \in Invoices : j # i => official'[j] = official[j]
        BY <2>1, <3>1 DEF FinalizeInvoice, AssignOfficialNumber
      <3>3. QED
        BY <2>1, <3>2 DEF FinalizeInvoice
    <2>2. CASE ResetToDraft(i)
      BY <2>2 DEF ResetToDraft
    <2>3. CASE UnlockInvoice(i)
      BY <2>3 DEF UnlockInvoice
    <2>4. QED
      BY <1>3, <2>1, <2>2, <2>3 DEF InvoiceStep
  <1>4. QED
    BY <1>1, <1>2, <1>3, InvoiceCases

(* A locked invoice is finalized, a finalized one has items and a number.  *)
THEOREM LockedIssued == Spec => []LockedIsIssued
  <1>1. Init => LockedIsIssued
    BY DEF Init, LockedIsIssued
  <1>2. TypeOK /\ NumberInv /\ LockedIsIssued /\ [Next]_vars => LockedIsIssued'
    BY LockStep
  <1>3. QED
    BY <1>1, <1>2, TypeCorrect, NumbersInvariant, PTL DEF Spec

-----------------------------------------------------------------------------
(* One order per invoice, one order per step *)

LEMMA OneOrderStep ==
    ASSUME TypeOK, InvoiceBillsOneOrder, [Next]_vars
    PROVE  InvoiceBillsOneOrder'
  <1> USE DEF TypeOK, InvoiceBillsOneOrder
  <1>1. CASE UNCHANGED items
    BY <1>1
  <1>2. ASSUME NEW i \in Invoices, NEW o \in Orders,
               NEW S \in SUBSET {l \in Lines : OrderOf[l] = o}, NewDraft(i, S)
        PROVE  InvoiceBillsOneOrder'
    BY <1>2 DEF NewDraft
  <1>3. ASSUME NEW i \in Invoices, InvoiceStep(i) PROVE UNCHANGED items
    BY <1>3 DEF InvoiceStep, FinalizeInvoice, ResetToDraft, UnlockInvoice
  <1>4. QED
    BY <1>1, <1>2, <1>3, InvoiceCases

(* No invoice bills lines of two orders.                                   *)
THEOREM OneOrderInvoices == Spec => []InvoiceBillsOneOrder
  <1>1. Init => InvoiceBillsOneOrder
    BY DEF Init, InvoiceBillsOneOrder
  <1>2. TypeOK /\ InvoiceBillsOneOrder /\ [Next]_vars => InvoiceBillsOneOrder'
    BY OneOrderStep
  <1>3. QED
    BY <1>1, <1>2, TypeCorrect, PTL DEF Spec

LEMMA SyncStaysInOneOrder ==
    ASSUME TypeOK, InvoiceBillsOneOrder, NEW i \in Invoices, NEW status,
           SyncOrderStatuses(i, status), NEW o \in Orders, NEW p \in Orders,
           Touched(o), Touched(p)
    PROVE  o = p
  <1>1. ASSUME NEW q \in Orders, Touched(q) PROVE q \in OrdersOf(i)
    BY <1>1 DEF Touched, SyncOrderStatuses, LinesOf
  <1>2. o \in OrdersOf(i) /\ p \in OrdersOf(i)
    BY <1>1
  <1>3. QED
    BY <1>2 DEF OrdersOf, InvoiceBillsOneOrder

(* What an invoice does when it is opened, finalized or reopened stays     *)
(* within one order: the orders the sync reaches are those of the lines of *)
(* the invoice, and no draft bills lines of two (OneOrderInvoices).        *)
THEOREM OneOrderSteps == Spec => BillingStaysInOneOrder
  <1>1. ASSUME TypeOK, InvoiceBillsOneOrder, [Next]_vars, NEW i \in Invoices,
               invStatus'[i] # invStatus[i], NEW o \in Orders, NEW p \in Orders,
               Touched(o), Touched(p)
        PROVE  o = p
    <2>1. ASSUME \/ \E q \in Orders : OrderStep(q)
                 \/ \E S \in SUBSET Orders : BulkCancel(S)
                 \/ \E l \in Lines : LineStep(l)
                 \/ UNCHANGED vars
          PROVE  FALSE
      BY <1>1, <2>1, OtherStepsKeepInvoices
    <2>2. ASSUME NEW j \in Invoices, DraftStep(j) PROVE FALSE
      <3>1. UNCHANGED <<orderStatus, lineStatus>>
        BY <2>2 DEF DraftStep, CreateInvoice, GenerateInvoice, GenerateInvoiceFromDelivery,
           GenerateDraftFromPurchases, FinalizeItemLine, orderVars
      <3>2. QED
        BY <1>1, <3>1 DEF Touched
    <2>3. ASSUME NEW j \in Invoices, InvoiceStep(j) PROVE o = p
      <3>1. CASE UnlockInvoice(j)
        BY <1>1, <3>1 DEF UnlockInvoice
      <3>2. CASE FinalizeInvoice(j) \/ ResetToDraft(j)
        BY <1>1, <3>2, SyncStaysInOneOrder DEF FinalizeInvoice, ResetToDraft
      <3>3. QED
        BY <2>3, <3>1, <3>2 DEF InvoiceStep
    <2>4. QED
      BY <1>1, <2>1, <2>2, <2>3 DEF Next
  <1>2. TypeOK /\ InvoiceBillsOneOrder /\ [Next]_vars =>
          [\A i \in Invoices : invStatus'[i] # invStatus[i] =>
             \A o, p \in Orders : Touched(o) /\ Touched(p) => o = p]_vars
    BY <1>1
  <1>3. QED
    BY <1>2, TypeCorrect, OneOrderInvoices, PTL DEF Spec, BillingStaysInOneOrder

-----------------------------------------------------------------------------
(* The ledger *)

LEMMA LedgerInit == Init => Ledger!Init
  BY DEF Init, Ledger!Init, InvoicePhase

LEMMA LedgerStep ==
    ASSUME TypeOK, NumberInv, [Next]_vars
    PROVE  [Ledger!Next]_(Ledger!ledgerVars)
  <1> USE DEF TypeOK, InvoicePhase
  <1>1. CASE UNCHANGED <<invStatus, locked, items, official, nextSeq>>
    BY <1>1 DEF Ledger!ledgerVars
  <1>2. ASSUME NEW i \in Invoices, NEW S, NewDraft(i, S) PROVE Ledger!Open(i)
    BY <1>2 DEF NewDraft, Ledger!Open
  <1>3. ASSUME NEW i \in Invoices, FinalizeInvoice(i)
        PROVE  Ledger!IssueFirst(i) \/ Ledger!IssueAgain(i)
    <2>1. /\ InvoicePhase(i) = "draft"
          /\ [j \in Invoices |-> InvoicePhase(j)]' =
               [[j \in Invoices |-> InvoicePhase(j)] EXCEPT ![i] = "issued"]
      BY <1>3 DEF FinalizeInvoice
    <2>2. CASE official[i] # 0
      BY <1>3, <2>1, <2>2 DEF FinalizeInvoice, AssignOfficialNumber, Ledger!IssueAgain
    <2>3. CASE official[i] = 0
      <3> DEFINE yi == YearOf[i]
      <3>1. /\ official' = [official EXCEPT ![i] = nextSeq[yi]]
            /\ nextSeq' = [nextSeq EXCEPT ![yi] = nextSeq[yi] + 1]
            /\ yi \in Years /\ nextSeq[yi] \in Nat /\ nextSeq[yi] >= 1
        BY <1>3, <2>3 DEF FinalizeInvoice, AssignOfficialNumber, NumberInv
      <3>2. (nextSeq[yi] - 1) + 1 = nextSeq[yi]
        BY <3>1
      <3>3. \A y \in Years : nextSeq'[y] - 1 =
              IF y = yi THEN (nextSeq[yi] - 1) + 1 ELSE nextSeq[y] - 1
        BY <3>1
      <3>4. [y \in Years |-> nextSeq[y] - 1]' =
              [[y \in Years |-> nextSeq[y] - 1] EXCEPT ![yi] = (nextSeq[yi] - 1) + 1]
        BY <3>3, Zenon
      <3>5. official' = [official EXCEPT ![i] = (nextSeq[yi] - 1) + 1]
        BY <3>1, <3>2, Zenon
      <3>6. [y \in Years |-> nextSeq[y] - 1][yi] = nextSeq[yi] - 1
        BY <3>1
      <3>7. QED
        BY <2>1, <2>3, <3>4, <3>5, <3>6 DEF Ledger!IssueFirst
    <2>4. QED
      BY <2>2, <2>3
  <1>4. ASSUME NEW i \in Invoices, ResetToDraft(i) PROVE Ledger!Revoke(i)
    BY <1>4 DEF ResetToDraft, Ledger!Revoke
  <1>5. ASSUME NEW i \in Invoices, UnlockInvoice(i) PROVE Ledger!Release(i)
    BY <1>5 DEF UnlockInvoice, Ledger!Release
  <1>6. QED
    BY <1>1, <1>2, <1>3, <1>4, <1>5, InvoiceCases DEF InvoiceStep, Ledger!Next

(* Seen from its invoices the order system is the ledger: drafts are       *)
(* opened, issued under the next number or the one they have, released and *)
(* revoked, and nothing else happens to them.                              *)
THEOREM ImplementsInvoiceLedger == Spec => ImplementsLedger
  <1>1. TypeOK /\ NumberInv /\ [Next]_vars => [Ledger!Next]_(Ledger!ledgerVars)
    BY LedgerStep
  <1>2. QED
    BY <1>1, LedgerInit, TypeCorrect, NumbersInvariant, PTL
       DEF Spec, ImplementsLedger, Ledger!Spec

=============================================================================
