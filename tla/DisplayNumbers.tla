--------------------------- MODULE DisplayNumbers ---------------------------
(***************************************************************************)
(* The numbers people read (numbering.py): tracking and order numbers,     *)
(* order lines, deliveries and their lines, invoice drafts and their       *)
(* lines.  All but the official invoice number (see OrderBilling) are made *)
(* by reading the largest number in use and adding one; unique keys catch  *)
(* what other transactions have written in between.                        *)
(*                                                                         *)
(* Every request reads in one step, or several, and commits in another.    *)
(* The running number legacy_id, which every row has besides, is left out: *)
(* it only makes more overlapping requests fail, as Rollback allows.       *)
(***************************************************************************)
EXTENDS Naturals, FiniteSets, FiniteSetsExt, Functions

CONSTANTS
    Orders,     \* orders rows that may come to exist
    Lines,      \* order_items rows that may come to exist
    OrderOf,    \* the order each line belongs to
    Clients,    \* requests served at the same time
    Limit,      \* the largest number the patterns can read (99999, 9999, 99)
    MaxDay,     \* bound: days
    MaxDrafts   \* bound: invoice drafts of an order

ASSUME OrderOfAssumption == OrderOf \in [Lines -> Orders]
ASSUME LinesAssumption == IsFiniteSet(Lines)
ASSUME BoundsAssumption ==
    Limit \in Nat \ {0} /\ MaxDay \in Nat \ {0} /\ MaxDrafts \in Nat

VARIABLES
    today,          \* the date in Hong Kong
    tracking,       \* orders.tracking_no: day and sequence, 0 for no row
    lineNo,         \* the last part of order_items.order_line_no, 0 for no row
    orderDelivery,  \* the branch in orders.delivery_no, 0 for NULL
    delivery,       \* the branch in deliveries.delivery_no, 0 for no row
    deliveryLine,   \* branch and last part of delivery_line_no, 0 for no row
    drafts,         \* the invoices: order, branch in invoice_draft_no, lines
    tx              \* the request each client has in flight

orderRows == <<tracking, lineNo, orderDelivery>>
deliveryRows == <<delivery, deliveryLine>>
vars == <<today, orderRows, deliveryRows, drafts, tx>>

Idle == [op |-> "idle"]
NoTracking == [day |-> 0, seq |-> 0]
NoDeliveryLine == [branch |-> 0, n |-> 0]

(* Numbers stop at the first one that is too long for its pattern. *)
TypeOK ==
    /\ today \in 1 .. MaxDay
    /\ tracking \in [Orders -> [day : 0 .. today, seq : 0 .. Limit]]
    /\ lineNo \in [Lines -> 0 .. Limit + 1]
    /\ orderDelivery \in [Orders -> 0 .. Limit + 1]
    /\ delivery \in [Orders -> 0 .. Limit + 1]
    /\ deliveryLine \in [Lines -> [branch : 0 .. Limit + 1, n : 0 .. Limit + 1]]
    /\ \A d \in drafts : d.order \in Orders /\ d.branch \in 1 .. Limit + 1 /\ d.items \subseteq Lines
    /\ \A c \in Clients :
         tx[c].op \in {"idle", "order", "lines", "draft", "number", "find", "delivery"}

-----------------------------------------------------------------------------
Exists(o) == tracking[o] # NoTracking
LinesOf(o) == {l \in Lines : OrderOf[l] = o /\ lineNo[l] # 0}
Seq5(o) == tracking[o].seq

(* Mutant: numbers of any length are read. *)
MaxRead_AnyLength(used) == Max(used \cup {0})

(* _max_sequence: a number longer than its pattern is not seen. *)
MaxRead(used) == Max({n \in used : n <= Limit} \cup {0})

LineNumbers(o) == {lineNo[l] : l \in LinesOf(o)}
DraftNumbers(o) == {d.branch : d \in {e \in drafts : e.order = o}}

NextTracking == [day |-> today,
                 seq |-> MaxRead({tracking[o].seq : o \in {p \in Orders : tracking[p].day = today}}) + 1]

(* The numbers first, first + 1, ... given to the rows of S, in any order. *)
Numbered(S, first) == Bijection(S, first .. (first + Cardinality(S) - 1))

(* Numbers first, first + 1, ... of n rows written by one transaction are  *)
(* distinct: after Limit + 1 the generator repeats itself.                 *)
Distinct(first, n) == first + n - 1 <= Limit + 1

(* _invoice_branch_parts, _delivery_branch_parts: the branch as the line   *)
(* numbers of a draft or delivery repeat it; 01 if it cannot be read.      *)
LineBranch(branch) == IF branch <= Limit THEN branch ELSE 1

Init ==
    /\ today = 1
    /\ tracking = [o \in Orders |-> NoTracking]
    /\ lineNo = [l \in Lines |-> 0]
    /\ orderDelivery = [o \in Orders |-> 0]
    /\ delivery = [o \in Orders |-> 0]
    /\ deliveryLine = [l \in Lines |-> NoDeliveryLine]
    /\ drafts = {}
    /\ tx = [c \in Clients |-> Idle]

-----------------------------------------------------------------------------
Continue(c, t) ==
    /\ tx' = [tx EXCEPT ![c] = t]
    /\ UNCHANGED <<today, orderRows, deliveryRows, drafts>>

(* create_order; bound: no more than Limit orders a day. *)
BeginOrder(c, o) ==
    /\ tx[c] = Idle
    /\ ~Exists(o)
    /\ NextTracking.seq <= Limit
    /\ \A d \in Clients : tx[d].op = "order" => tx[d].order # o
    /\ Continue(c, [op |-> "order", order |-> o, no |-> NextTracking])

(* Mutant: tracking_no has no unique key. *)
CommitOrder_NotUnique(c) ==
    /\ tx[c].op = "order"
    /\ tracking' = [tracking EXCEPT ![tx[c].order] = tx[c].no]
    /\ tx' = [tx EXCEPT ![c] = Idle]
    /\ UNCHANGED <<today, lineNo, orderDelivery, deliveryRows, drafts>>

CommitOrder(c) ==
    /\ tx[c].op = "order"
    /\ \A o \in Orders : tracking[o] # tx[c].no
    /\ tracking' = [tracking EXCEPT ![tx[c].order] = tx[c].no]
    /\ tx' = [tx EXCEPT ![c] = Idle]
    /\ UNCHANGED <<today, lineNo, orderDelivery, deliveryRows, drafts>>

(* The lines a request in flight refers to. *)
Names(t) ==
    IF t.op \in {"lines", "delivery"} THEN DOMAIN t.no
    ELSE IF t.op = "draft" THEN t.items ELSE {}

(* create_order_item, and every item of bulk_create_order_items: the new   *)
(* line is numbered after the lines of the order and of this request.  Ids *)
(* are not given twice: no request refers to a line that is still to come. *)
NumberLine(c, l) ==
    /\ Exists(OrderOf[l])
    /\ lineNo[l] = 0
    /\ \A d \in Clients : l \notin Names(tx[d])
    /\ LET own == IF tx[c] = Idle THEN << >> ELSE tx[c].no
           n == MaxRead(LineNumbers(OrderOf[l]) \cup Range(own)) + 1
       IN
       /\ tx[c] = Idle \/ (tx[c].op = "lines" /\ tx[c].order = OrderOf[l])
       /\ Continue(c, [op |-> "lines", order |-> OrderOf[l],
                       no |-> [k \in DOMAIN own \cup {l} |-> IF k = l THEN n ELSE own[k]]])

(* Some other line has the order_line_no that line l is to get: the number *)
(* names the sequence of the order, but not its day.                       *)
LineNumberTaken(l, n) ==
    \E k \in Lines : lineNo[k] = n /\ Seq5(OrderOf[k]) = Seq5(OrderOf[l])

CommitLines(c) ==
    /\ tx[c].op = "lines"
    /\ IsInjective(tx[c].no)
    /\ \A l \in DOMAIN tx[c].no : ~LineNumberTaken(l, tx[c].no[l])
    /\ lineNo' = [l \in Lines |-> IF l \in DOMAIN tx[c].no THEN tx[c].no[l] ELSE lineNo[l]]
    /\ tx' = [tx EXCEPT ![c] = Idle]
    /\ UNCHANGED <<today, tracking, orderDelivery, deliveryRows, drafts>>

DeleteLine(l) ==
    /\ lineNo[l] # 0
    /\ deliveryLine[l] = NoDeliveryLine
    /\ \A d \in drafts : l \notin d.items
    /\ lineNo' = [lineNo EXCEPT ![l] = 0]
    /\ UNCHANGED <<today, tracking, orderDelivery, deliveryRows, drafts, tx>>

-----------------------------------------------------------------------------
(* A draft of order o for the lines of S: generate_invoice_draft_no, then  *)
(* generate_invoice_line_no for each line, from 1 on.                      *)
BeginDraft(c, o, S) ==
    /\ tx[c] = Idle
    /\ Exists(o)
    /\ S \subseteq LinesOf(o)
    /\ Cardinality({d \in drafts : d.order = o}) < MaxDrafts
    /\ Continue(c, [op |-> "draft", order |-> o, items |-> S,
                    branch |-> MaxRead(DraftNumbers(o)) + 1])

(* invoice_draft_no and invoice_line_no are unique; the latter names the   *)
(* sequence of the order and the branch, but not the day.                  *)
CommitDraft(c) ==
    LET t == tx[c] IN
    /\ t.op = "draft"
    /\ \A l \in t.items : lineNo[l] # 0
    /\ Distinct(1, Cardinality(t.items))
    /\ \A d \in drafts :
         /\ d.order = t.order => d.branch # t.branch
         /\ Seq5(d.order) = Seq5(t.order) /\ LineBranch(d.branch) = LineBranch(t.branch) =>
              d.items = {} \/ t.items = {}
    /\ drafts' = drafts \cup {[order |-> t.order, branch |-> t.branch, items |-> t.items]}
    /\ tx' = [tx EXCEPT ![c] = Idle]
    /\ UNCHANGED <<today, orderRows, deliveryRows>>

-----------------------------------------------------------------------------
(* ensure_delivery_document, whatever the request that calls it.  First    *)
(* the order is loaded, with its delivery number or without one.           *)
LoadOrder(c, o) ==
    /\ tx[c] = Idle
    /\ LinesOf(o) # {}
    /\ Continue(c, [op |-> "number", order |-> o, had |-> orderDelivery[o]])

(* Mutant: the order always gets the next number. *)
NumberDelivery_Always(c) ==
    /\ tx[c].op = "number"
    /\ LET o == tx[c].order IN
       Continue(c, [op |-> "find", order |-> o, had |-> tx[c].had,
                    branch |-> MaxRead({delivery[o]}) + 1])

(* ensure_order_delivery_number *)
NumberDelivery(c) ==
    /\ tx[c].op = "number"
    /\ LET o == tx[c].order IN
       Continue(c, [op |-> "find", order |-> o, had |-> tx[c].had,
                    branch |-> IF tx[c].had # 0 THEN tx[c].had
                               ELSE MaxRead({delivery[o]}) + 1])

(* Mutant: the numbers in use are looked up by their prefix, as the numbers *)
(* of deliveries and drafts are.                                           *)
FindDelivery_ByPrefix(c) ==
    /\ tx[c].op = "find"
    /\ LET t == tx[c]
           o == t.order
           items == {l \in LinesOf(o) : deliveryLine[l] # NoDeliveryLine}
           same == {l \in items : deliveryLine[l].branch = LineBranch(t.branch)}
           first == MaxRead({deliveryLine[l].n : l \in same}) + 1
       IN  \E no \in Numbered(LinesOf(o) \ items, first) :
             Continue(c, [op |-> "delivery", order |-> o, had |-> t.had, branch |-> t.branch,
                          found |-> delivery[o], first |-> first, no |-> no])

(* The delivery of the order is looked up; the lines it has no item for    *)
(* are numbered after those it has.                                        *)
FindDelivery(c) ==
    /\ tx[c].op = "find"
    /\ LET t == tx[c]
           o == t.order
           items == {l \in LinesOf(o) : deliveryLine[l] # NoDeliveryLine}
           first == MaxRead({deliveryLine[l].n : l \in items}) + 1
       IN  \E no \in Numbered(LinesOf(o) \ items, first) :
             Continue(c, [op |-> "delivery", order |-> o, had |-> t.had, branch |-> t.branch,
                          found |-> delivery[o], first |-> first, no |-> no])

(* One delivery per order, one item per line, unique delivery_line_no.  An *)
(* existing delivery row is written only if its number differs from the    *)
(* one loaded, and the order's number only if it was loaded without one.   *)
CommitDelivery(c) ==
    LET t == tx[c]
        o == t.order
        new == DOMAIN t.no
        number == [l \in new |-> [branch |-> LineBranch(t.branch), n |-> t.no[l]]]
    IN
    /\ t.op = "delivery"
    /\ t.found = 0 => delivery[o] = 0
    /\ \A l \in new : lineNo[l] # 0 /\ deliveryLine[l] = NoDeliveryLine
    /\ Distinct(t.first, Cardinality(new))
    /\ \A k \in Lines, l \in new :
         Seq5(OrderOf[k]) = Seq5(o) => deliveryLine[k] # number[l]
    /\ delivery' = IF t.found # t.branch THEN [delivery EXCEPT ![o] = t.branch] ELSE delivery
    /\ orderDelivery' = IF t.had = 0 THEN [orderDelivery EXCEPT ![o] = t.branch]
                        ELSE orderDelivery
    /\ deliveryLine' = [l \in Lines |-> IF l \in new THEN number[l] ELSE deliveryLine[l]]
    /\ tx' = [tx EXCEPT ![c] = Idle]
    /\ UNCHANGED <<today, tracking, lineNo, drafts>>

-----------------------------------------------------------------------------
(* A unique key is violated, a row is gone, or the worker is lost. *)
Rollback(c) == tx[c] # Idle /\ Continue(c, Idle)

NextDay ==
    /\ today < MaxDay
    /\ today' = today + 1
    /\ UNCHANGED <<orderRows, deliveryRows, drafts, tx>>

Step(c) ==
    \/ \E o \in Orders :
         \/ BeginOrder(c, o)
         \/ \E S \in SUBSET Lines : BeginDraft(c, o, S)
         \/ LoadOrder(c, o)
    \/ CommitOrder(c)
    \/ \E l \in Lines : NumberLine(c, l)
    \/ CommitLines(c)
    \/ CommitDraft(c)
    \/ NumberDelivery(c)
    \/ FindDelivery(c)
    \/ CommitDelivery(c)
    \/ Rollback(c)

Next ==
    \/ \E c \in Clients : Step(c)
    \/ \E l \in Lines : DeleteLine(l)
    \/ NextDay

Spec == Init /\ [][Next]_vars

-----------------------------------------------------------------------------
(* Properties *)

(* However lines are added, deleted and delivered by overlapping requests, *)
(* no two lines of an order have the same number, nor do their lines on    *)
(* the delivery.  The unique key of the latter is no help: it has the      *)
(* number of the delivery in it, which may change between two of its lines *)
(* (see DeliveryRenumberedOnlyByStaleRequest).  The exception is the       *)
(* number after the last one that can be read, which the generator         *)
(* repeats.                                                                *)
LinesOfAnOrderDiffer ==
    \A k, l \in Lines : k # l /\ OrderOf[k] = OrderOf[l] =>
        /\ lineNo[k] = lineNo[l] => lineNo[k] = 0
        /\ deliveryLine[k].n = deliveryLine[l].n => deliveryLine[k].n \in {0, Limit + 1}

(* An order has its own sequence of its day: no two orders share tracking, *)
(* however creations overlap.                                              *)
TrackingNamesOneOrder ==
    \A o, p \in Orders : Exists(o) /\ tracking[o] = tracking[p] => o = p

(* The number of a delivery on record is stable: a request changes it only *)
(* if it had loaded the order with another number than the order has now,  *)
(* or to bring it back to the number of the order.                         *)
DeliveryRenumberedOnlyByStaleRequest ==
    [][\A o \in Orders :
         delivery[o] # 0 /\ delivery'[o] # delivery[o] =>
           \/ delivery[o] # orderDelivery[o] /\ delivery'[o] = orderDelivery[o]
           \/ \E c \in Clients : /\ tx[c].op = "delivery" /\ tx[c].order = o
                                 /\ tx[c].had # orderDelivery[o]]_vars

(* docs/numbering-spec-2026-06-19.md:74-80 - ODL-XXXXX-ZZZZ identifies an  *)
(* order line: the number an order's next line would get is not the number *)
(* of a line of any other order.                                           *)
LineNumberIdentifiesLine ==
    \A o \in Orders : Exists(o) =>
        \A k \in Lines :
            lineNo[k] = MaxRead(LineNumbers(o)) + 1 /\ Seq5(OrderOf[k]) = Seq5(o)
              => OrderOf[k] = o

=============================================================================
