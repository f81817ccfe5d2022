------------------------ MODULE DisplayNumbersProofs ------------------------
(***************************************************************************)
(* Theorems of DisplayNumbers for any orders, lines, clients and Limit.    *)
(***************************************************************************)
EXTENDS DisplayNumbers, FiniteSetTheorems, WellFoundedInduction, TLAPS

USE OrderOfAssumption, LinesAssumption, BoundsAssumption
    DEF OrderOfAssumption, LinesAssumption, BoundsAssumption

(* A set of natural numbers that has an upper bound has a largest element. *)
LEMMA LargestExists ==
    ASSUME NEW bound \in Nat, NEW S \in SUBSET (0 .. bound), S # {}
    PROVE  \E x \in S : \A y \in S : x >= y
  <1> DEFINE T == {bound - n : n \in S}
  <1>1. T \subseteq Nat /\ T # {}
    <2>1. \A n \in S : bound - n \in Nat
      OBVIOUS
    <2>2. T \subseteq Nat
      BY <2>1
    <2>3. PICK n \in S : TRUE
      OBVIOUS
    <2>4. bound - n \in T
      BY <2>3
    <2>5. QED
      BY <2>2, <2>4
  <1>2. PICK t \in T : \A u \in T : <<u, t>> \notin OpToRel(<, Nat)
    <2>1. \E t \in T : \A u \in T : ~(<<u, t>> \in OpToRel(<, Nat))
      BY <1>1, WFMin, NatLessThanWellFounded
    <2>2. QED
      BY <2>1
  <1>3. \A u \in T : ~(u < t)
    BY <1>1, <1>2 DEF OpToRel
  <1>4. PICK x \in S : t = bound - x
    OBVIOUS
  <1>5. ASSUME NEW y \in S
        PROVE  x >= y
    <2>1. ~(bound - y < bound - x)
      BY <1>3, <1>4
    <2>2. QED
      BY <2>1
  <1>6. QED
    BY <1>5

(* What a generator reads: a number it can read, none of those in use that *)
(* it can read is larger, and it is in use unless it is 0.                 *)
LEMMA MaxReadProperties ==
    ASSUME NEW used \in SUBSET Nat
    PROVE  /\ MaxRead(used) \in 0 .. Limit
           /\ MaxRead(used) = 0 \/ MaxRead(used) \in used
           /\ \A n \in used : n <= Limit => n <= MaxRead(used)
  <1> DEFINE S == {n \in used : n <= Limit} \cup {0}
  <1>1. S \in SUBSET (0 .. Limit) /\ S # {}
    <2>1. 0 \in S
      OBVIOUS
    <2>2. \A n \in S : n \in 0 .. Limit
      OBVIOUS
    <2>3. QED
      BY <2>1, <2>2
  <1>2. \E x \in S : \A y \in S : x >= y
    BY <1>1, LargestExists
  <1>3. Max(S) \in S /\ \A y \in S : Max(S) >= y
    BY <1>2 DEF Max
  <1>4. MaxRead(used) = Max(S)
    BY DEF MaxRead
  <1>5. QED
    BY <1>1, <1>3, <1>4

-----------------------------------------------------------------------------
(* The requests in flight, and what stays true of what they have read. *)
Number == 1 .. Limit + 1
OrderTx == [op : {"order"}, order : Orders, no : [day : 1 .. today, seq : 1 .. Limit]]
LinesTx == [op : {"lines"}, order : Orders, no : UNION {[S -> Number] : S \in SUBSET Lines}]
DraftTx == [op : {"draft"}, order : Orders, items : SUBSET Lines, branch : Number]
LoadTx == [op : {"number"}, order : Orders, had : 0 .. Limit + 1]
FindTx == [op : {"find"}, order : Orders, had : 0 .. Limit + 1, branch : Number]
Fresh(first) == UNION {Numbered(S, first) : S \in SUBSET Lines}
DeliveryTx == UNION {[op : {"delivery"}, order : Orders, had : 0 .. Limit + 1, branch : Number,
                      found : 0 .. Limit + 1, first : {n}, no : Fresh(n)] : n \in Number}

TxOK == tx \in [Clients -> {Idle} \cup OrderTx \cup LinesTx \cup DraftTx \cup LoadTx
                            \cup FindTx \cup DeliveryTx]

RowsOK ==
    /\ today \in 1 .. MaxDay
    /\ tracking \in [Orders -> [day : 0 .. today, seq : 0 .. Limit]]
    /\ lineNo \in [Lines -> 0 .. Limit + 1]
    /\ orderDelivery \in [Orders -> 0 .. Limit + 1]
    /\ delivery \in [Orders -> 0 .. Limit + 1]
    /\ deliveryLine \in [Lines -> [branch : 0 .. Limit + 1, n : 0 .. Limit + 1]]
    /\ drafts \in SUBSET [order : Orders, branch : Number, items : SUBSET Lines]

(* A line is never without its order. *)
LinesHaveOrders ==
    /\ \A l \in Lines : lineNo[l] # 0 => Exists(OrderOf[l])
    /\ \A c \in Clients : tx[c].op = "lines" =>
         \A l \in DOMAIN tx[c].no : Exists(OrderOf[l])

IInv == RowsOK /\ TxOK /\ LinesHaveOrders

LEMMA TxCases ==
    ASSUME TxOK, NEW c \in Clients
    PROVE  /\ tx[c].op = "order" => tx[c] \in OrderTx
           /\ tx[c].op = "lines" => tx[c] \in LinesTx
           /\ tx[c].op = "draft" => tx[c] \in DraftTx
           /\ tx[c].op = "number" => tx[c] \in LoadTx
           /\ tx[c].op = "find" => tx[c] \in FindTx
           /\ tx[c].op = "delivery" => tx[c] \in DeliveryTx
  BY DEF TxOK, Idle, OrderTx, LinesTx, DraftTx, LoadTx, FindTx, DeliveryTx

LEMMA InitIInv == Init => IInv
  <1> SUFFICES ASSUME Init PROVE IInv
    OBVIOUS
  <1>1. RowsOK
    BY DEF Init, RowsOK, NoTracking, NoDeliveryLine
  <1>2. TxOK
    BY DEF Init, TxOK
  <1>3. LinesHaveOrders
    BY DEF Init, LinesHaveOrders, Idle
  <1>4. QED
    BY <1>1, <1>2, <1>3 DEF IInv

(* A request goes on with a record of its type. *)
LEMMA ContinueIInv ==
    ASSUME IInv, NEW c \in Clients,
           NEW t \in {Idle} \cup OrderTx \cup LinesTx \cup DraftTx \cup LoadTx \cup FindTx
                     \cup DeliveryTx,
           t.op = "lines" => \A l \in DOMAIN t.no : Exists(OrderOf[l]),
           Continue(c, t)
    PROVE  IInv'
  <1>1. tx' = [tx EXCEPT ![c] = t] /\ UNCHANGED <<today, orderRows, deliveryRows, drafts>>
    BY DEF Continue
  <1>2. RowsOK'
    BY <1>1 DEF IInv, RowsOK, orderRows, deliveryRows
  <1>3. TxOK'
    BY <1>1 DEF IInv, TxOK, OrderTx
  <1>4. LinesHaveOrders'
    BY <1>1 DEF IInv, TxOK, LinesHaveOrders, Exists, orderRows
  <1>5. QED
    BY <1>2, <1>3, <1>4 DEF IInv

(* The numbers in use. *)
LEMMA UsedNumbers ==
    ASSUME IInv, NEW o \in Orders
    PROVE  /\ LineNumbers(o) \in SUBSET Nat
           /\ DraftNumbers(o) \in SUBSET Nat
  BY DEF IInv, RowsOK, LineNumbers, LinesOf, DraftNumbers, Number

LEMMA NextTrackingType ==
    ASSUME IInv
    PROVE  NextTracking.seq <= Limit => NextTracking \in [day : 1 .. today, seq : 1 .. Limit]
  <1> DEFINE used == {tracking[o].seq : o \in {p \in Orders : tracking[p].day = today}}
  <1>1. used \in SUBSET Nat
    BY DEF IInv, RowsOK
  <1>2. MaxRead(used) \in 0 .. Limit
    BY <1>1, MaxReadProperties
  <1>3. NextTracking = [day |-> today, seq |-> MaxRead(used) + 1]
    BY DEF NextTracking
  <1> HIDE DEF used
  <1>4. QED
    BY <1>2, <1>3 DEF IInv, RowsOK

(* Every read of a request takes numbers that the rows of its table can    *)
(* hold, and leaves lines with orders.                                     *)
LEMMA ReadIInv ==
    ASSUME IInv, NEW c \in Clients,
           \/ \E o \in Orders : \/ BeginOrder(c, o)
                             \/ \E S \in SUBSET Lines : BeginDraft(c, o, S)
                             \/ LoadOrder(c, o)
           \/ \E l \in Lines : NumberLine(c, l)
           \/ NumberDelivery(c)
           \/ FindDelivery(c)
           \/ Rollback(c)
    PROVE  IInv'
  <1>1. ASSUME NEW o \in Orders, BeginOrder(c, o)
        PROVE  IInv'
    <2> DEFINE t == [op |-> "order", order |-> o, no |-> NextTracking]
    <2>1. t \in OrderTx
      BY <1>1, NextTrackingType DEF BeginOrder, OrderTx
    <2>2. QED
      BY <1>1, <2>1, ContinueIInv DEF BeginOrder
  <1>2. ASSUME NEW o \in Orders, NEW S \in SUBSET Lines, BeginDraft(c, o, S)
        PROVE  IInv'
    <2> DEFINE b == MaxRead(DraftNumbers(o)) + 1
               t == [op |-> "draft", order |-> o, items |-> S, branch |-> b]
    <2>1. b \in Number
      BY UsedNumbers, MaxReadProperties DEF Number
    <2> HIDE DEF b
    <2>2. t \in DraftTx
      BY <2>1 DEF DraftTx
    <2>3. Continue(c, t)
      BY <1>2 DEF BeginDraft, b
    <2>4. QED
      BY <2>2, <2>3, ContinueIInv
  <1>3. ASSUME NEW o \in Orders, LoadOrder(c, o)
        PROVE  IInv'
    <2> DEFINE t == [op |-> "number", order |-> o, had |-> orderDelivery[o]]
    <2>1. t \in LoadTx
      BY DEF IInv, RowsOK, LoadTx
    <2>2. QED
      BY <1>3, <2>1, ContinueIInv DEF LoadOrder
  <1>4. ASSUME NEW l \in Lines, NumberLine(c, l)
        PROVE  IInv'
    <2> DEFINE own == IF tx[c] = Idle THEN << >> ELSE tx[c].no
               n == MaxRead(LineNumbers(OrderOf[l]) \cup Range(own)) + 1
               no == [k \in DOMAIN own \cup {l} |-> IF k = l THEN n ELSE own[k]]
               t == [op |-> "lines", order |-> OrderOf[l], no |-> no]
    <2>1. /\ tx[c] # Idle => tx[c] \in LinesTx
          /\ Exists(OrderOf[l])
          /\ Continue(c, t)
      BY <1>4, TxCases DEF NumberLine, IInv
    <2>2. /\ DOMAIN own \subseteq Lines
          /\ \A k \in DOMAIN own : own[k] \in Number /\ Exists(OrderOf[k])
      BY <1>4, <2>1 DEF LinesTx, IInv, LinesHaveOrders, NumberLine
    <2> HIDE DEF own
    <2>3. Range(own) \in SUBSET Nat
      BY <2>2 DEF Range, Number
    <2>4. n \in Number
      BY <2>3, UsedNumbers, MaxReadProperties DEF Number
    <2> HIDE DEF n
    <2>5. no \in [DOMAIN own \cup {l} -> Number] /\ DOMAIN own \cup {l} \in SUBSET Lines
      BY <2>2, <2>4
    <2>6. \A k \in DOMAIN no : Exists(OrderOf[k])
      BY <2>1, <2>2
    <2> HIDE DEF no
    <2>7. t \in LinesTx
      BY <2>5 DEF LinesTx
    <2>8. QED
      BY <2>1, <2>6, <2>7, ContinueIInv
  <1>5. ASSUME NumberDelivery(c)
        PROVE  IInv'
    <2> DEFINE o == tx[c].order
               b == IF tx[c].had # 0 THEN tx[c].had ELSE MaxRead({delivery[o]}) + 1
               t == [op |-> "find", order |-> o, had |-> tx[c].had, branch |-> b]
    <2>1. tx[c] \in LoadTx /\ Continue(c, t)
      BY <1>5, TxCases DEF NumberDelivery, IInv
    <2>2. {delivery[o]} \in SUBSET Nat
      BY <2>1 DEF LoadTx, IInv, RowsOK
    <2>3. b \in Number
      BY <2>1, <2>2, MaxReadProperties DEF LoadTx, Number
    <2> HIDE DEF b
    <2>4. t \in FindTx
      BY <2>1, <2>3 DEF LoadTx, FindTx
    <2>5. QED
      BY <2>1, <2>4, ContinueIInv
  <1>6. ASSUME FindDelivery(c)
        PROVE  IInv'
    <2> DEFINE o == tx[c].order
               items == {l \in LinesOf(o) : deliveryLine[l] # NoDeliveryLine}
               read == {deliveryLine[l].n : l \in items}
               first == MaxRead(read) + 1
    <2>1. tx[c] \in FindTx
      BY <1>6, TxCases DEF FindDelivery, IInv
    <2>2. read \in SUBSET Nat
      BY DEF IInv, RowsOK, LinesOf
    <2> HIDE DEF read
    <2>3. first \in Number
      BY <2>2, MaxReadProperties DEF Number
    <2> HIDE DEF first
    <2>4. PICK no \in Numbered(LinesOf(o) \ items, first) :
            Continue(c, [op |-> "delivery", order |-> o, had |-> tx[c].had,
                         branch |-> tx[c].branch, found |-> delivery[o],
                         first |-> first, no |-> no])
      BY <1>6 DEF FindDelivery, first, read
    <2>5. no \in Fresh(first)
      BY <2>4 DEF Fresh, LinesOf
    <2> DEFINE t == [op |-> "delivery", order |-> o, had |-> tx[c].had, branch |-> tx[c].branch,
                     found |-> delivery[o], first |-> first, no |-> no]
    <2>6. t \in DeliveryTx
      BY <2>1, <2>3, <2>5 DEF FindTx, DeliveryTx, IInv, RowsOK
    <2>7. QED
      BY <2>4, <2>6, ContinueIInv
  <1>7. ASSUME Rollback(c)
        PROVE  IInv'
    BY <1>7, ContinueIInv DEF Rollback, Idle
  <1>8. QED
    BY <1>1, <1>2, <1>3, <1>4, <1>5, <1>6, <1>7

(* The last of n numbers from first on is at most Limit + 1 when they are  *)
(* distinct, so the new rows have numbers their columns can hold.          *)
LEMMA FreshNumbers ==
    ASSUME NEW first \in Number, NEW no \in Fresh(first),
           Distinct(first, Cardinality(DOMAIN no))
    PROVE  DOMAIN no \subseteq Lines /\ \A l \in DOMAIN no : no[l] \in Number
  <1>1. PICK S \in SUBSET Lines : no \in [S -> first .. (first + Cardinality(S) - 1)]
    BY DEF Fresh, Numbered, Bijection, Injection
  <1>2. Cardinality(S) \in Nat
    BY FS_Subset, FS_CardinalityType
  <1>3. first + Cardinality(S) - 1 <= Limit + 1
    BY <1>1 DEF Distinct
  <1>4. QED
    BY <1>1, <1>2, <1>3 DEF Number

LEMMA StepIInv ==
    ASSUME IInv, [Next]_vars
    PROVE  IInv'
  <1> USE DEF IInv
  <1>1. ASSUME NEW c \in Clients, CommitOrder(c)
        PROVE  IInv'
    <2>1. tx[c] \in OrderTx
      BY <1>1, TxCases DEF CommitOrder
    <2>2. RowsOK'
      BY <1>1, <2>1 DEF CommitOrder, OrderTx, RowsOK, deliveryRows
    <2>3. TxOK'
      BY <1>1 DEF CommitOrder, TxOK, OrderTx
    <2>4. \A o \in Orders : Exists(o) => Exists(o)'
      BY <1>1, <2>1 DEF CommitOrder, OrderTx, RowsOK, Exists, NoTracking
    <2>5. \A l \in Lines : Exists(OrderOf[l]) => Exists(OrderOf[l])'
      BY <2>4
    <2>6. \A l \in Lines : lineNo'[l] # 0 => Exists(OrderOf[l])'
      BY <1>1, <2>5 DEF CommitOrder, LinesHaveOrders
    <2>7. ASSUME NEW d \in Clients, tx'[d].op = "lines", NEW l \in DOMAIN tx'[d].no
          PROVE  Exists(OrderOf[l])'
      <3>1. tx'[d] = tx[d]
        BY <1>1, <2>7 DEF CommitOrder, TxOK, Idle
      <3>2. l \in Lines /\ Exists(OrderOf[l])
        BY <2>7, <3>1, TxCases DEF LinesHaveOrders, LinesTx
      <3>3. QED
        BY <2>5, <3>2
    <2>8. LinesHaveOrders'
      BY <2>6, <2>7 DEF LinesHaveOrders
    <2>9. QED
      BY <2>2, <2>3, <2>8
  <1>2. ASSUME NEW c \in Clients, CommitLines(c)
        PROVE  IInv'
    <2>1. tx[c] \in LinesTx
      BY <1>2, TxCases DEF CommitLines
    <2>2. RowsOK'
      BY <1>2, <2>1 DEF CommitLines, LinesTx, RowsOK, deliveryRows, Number
    <2>3. TxOK'
      BY <1>2 DEF CommitLines, TxOK, OrderTx
    <2>4. LinesHaveOrders'
      BY <1>2, <2>1 DEF CommitLines, TxOK, LinesHaveOrders, Exists, Idle
    <2>5. QED
      BY <2>2, <2>3, <2>4
  <1>3. ASSUME NEW c \in Clients, CommitDraft(c)
        PROVE  IInv'
    <2>1. tx[c] \in DraftTx
      BY <1>3, TxCases DEF CommitDraft
    <2>2. RowsOK'
      BY <1>3, <2>1 DEF CommitDraft, DraftTx, RowsOK, orderRows, deliveryRows
    <2>3. TxOK'
      BY <1>3 DEF CommitDraft, TxOK, OrderTx
    <2>4. LinesHaveOrders'
      BY <1>3 DEF CommitDraft, TxOK, LinesHaveOrders, Exists, orderRows, Idle
    <2>5. QED
      BY <2>2, <2>3, <2>4
  <1>4. ASSUME NEW c \in Clients, CommitDelivery(c)
        PROVE  IInv'
    <2>1. tx[c] \in DeliveryTx
      BY <1>4, TxCases DEF CommitDelivery
    <2>2. /\ DOMAIN tx[c].no \subseteq Lines
          /\ \A l \in DOMAIN tx[c].no : tx[c].no[l] \in Number
      BY <1>4, <2>1, FreshNumbers DEF CommitDelivery, DeliveryTx
    <2>3. RowsOK'
      BY <1>4, <2>1, <2>2 DEF CommitDelivery, DeliveryTx, RowsOK, Number, LineBranch
    <2>4. TxOK'
      BY <1>4 DEF CommitDelivery, TxOK, OrderTx
    <2>5. LinesHaveOrders'
      BY <1>4 DEF CommitDelivery, TxOK, LinesHaveOrders, Exists, Idle
    <2>6. QED
      BY <2>3, <2>4, <2>5
  <1>5. ASSUME NEW l \in Lines, DeleteLine(l)
        PROVE  IInv'
    BY <1>5 DEF DeleteLine, RowsOK, TxOK, OrderTx, LinesHaveOrders, Exists, deliveryRows
  <1>6. ASSUME NextDay
        PROVE  IInv'
    <2>1. RowsOK'
      BY <1>6 DEF NextDay, RowsOK, orderRows, deliveryRows
    <2>2. TxOK'
      <3>1. OrderTx \subseteq OrderTx'
        BY <1>6 DEF NextDay, OrderTx, RowsOK
      <3>2. QED
        BY <1>6, <3>1 DEF NextDay, TxOK
    <2>3. LinesHaveOrders'
      BY <1>6 DEF NextDay, LinesHaveOrders, Exists, orderRows
    <2>4. QED
      BY <2>1, <2>2, <2>3
  <1>7. CASE UNCHANGED vars
    BY <1>7 DEF vars, orderRows, deliveryRows, RowsOK, TxOK, OrderTx, LinesHaveOrders, Exists
  <1>8. QED
    BY <1>1, <1>2, <1>3, <1>4, <1>5, <1>6, <1>7, ReadIInv DEF Next, Step

LEMMA IInvHolds == Spec => []IInv
  BY InitIInv, StepIInv, PTL DEF Spec

-----------------------------------------------------------------------------
(* No two orders share a tracking number, however creations overlap. *)
THEOREM TrackingUnique == Spec => []TrackingNamesOneOrder
  <1>1. Init => TrackingNamesOneOrder
    BY DEF Init, TrackingNamesOneOrder, Exists
  <1>2. ASSUME IInv, TrackingNamesOneOrder, [Next]_vars
        PROVE  TrackingNamesOneOrder'
    <2>1. ASSUME NEW c \in Clients, CommitOrder(c)
          PROVE  TrackingNamesOneOrder'
      <3>1. tx[c] \in OrderTx
        BY <1>2, <2>1, TxCases DEF CommitOrder, IInv
      <3>2. QED
        BY <1>2, <2>1, <3>1 DEF CommitOrder, OrderTx, IInv, RowsOK, TrackingNamesOneOrder, Exists
    <2>2. CASE UNCHANGED tracking
      BY <1>2, <2>2 DEF TrackingNamesOneOrder, Exists
    <2>3. QED
      BY <1>2, <2>1, <2>2
         DEF Next, Step, BeginOrder, NumberLine, CommitLines, BeginDraft, CommitDraft, LoadOrder,
             NumberDelivery, FindDelivery, CommitDelivery, Rollback, Continue, DeleteLine,
             NextDay, vars, orderRows
  <1>3. QED
    BY <1>1, <1>2, IInvHolds, PTL DEF Spec

(* Every number fits the column it is written to: a number is never more   *)
(* than one longer than its pattern.                                       *)
THEOREM TypeCorrect == Spec => []TypeOK
  <1>1. ASSUME IInv
        PROVE  TypeOK
    <2>1. \A d \in drafts : /\ d.order \in Orders /\ d.branch \in 1 .. Limit + 1
                            /\ d.items \subseteq Lines
      BY <1>1 DEF IInv, RowsOK, Number
    <2>2. \A c \in Clients :
            tx[c].op \in {"idle", "order", "lines", "draft", "number", "find", "delivery"}
      BY <1>1 DEF IInv, TxOK, Idle, OrderTx, LinesTx, DraftTx, LoadTx, FindTx, DeliveryTx
    <2>3. QED
      BY <1>1, <2>1, <2>2 DEF IInv, RowsOK, TypeOK
  <1>2. QED
    BY <1>1, IInvHolds, PTL

(* A step of a client leaves the requests of the others alone. *)
LEMMA OthersWait ==
    ASSUME TxOK, NEW c \in Clients, Step(c)
    PROVE  \A e \in Clients \ {c} : tx'[e] = tx[e]
  <1>1. ASSUME NEW t, tx' = [tx EXCEPT ![c] = t]
        PROVE  \A e \in Clients \ {c} : tx'[e] = tx[e]
    BY <1>1 DEF TxOK
  <1>2. ASSUME NEW t, Continue(c, t)
        PROVE  \A e \in Clients \ {c} : tx'[e] = tx[e]
    BY <1>1, <1>2 DEF Continue
  <1>3. ASSUME NEW o \in Orders,
               BeginOrder(c, o) \/ (\E S \in SUBSET Lines : BeginDraft(c, o, S)) \/ LoadOrder(c, o)
        PROVE  \A e \in Clients \ {c} : tx'[e] = tx[e]
    BY <1>2, <1>3 DEF BeginOrder, BeginDraft, LoadOrder
  <1>4. ASSUME NEW l \in Lines, NumberLine(c, l)
        PROVE  \A e \in Clients \ {c} : tx'[e] = tx[e]
    BY <1>2, <1>4 DEF NumberLine
  <1>5. CASE CommitOrder(c) \/ CommitLines(c) \/ CommitDraft(c) \/ CommitDelivery(c)
    BY <1>1, <1>5 DEF CommitOrder, CommitLines, CommitDraft, CommitDelivery
  <1>6. CASE NumberDelivery(c)
    BY <1>2, <1>6 DEF NumberDelivery
  <1>7. CASE FindDelivery(c)
    BY <1>2, <1>7 DEF FindDelivery
  <1>8. CASE Rollback(c)
    BY <1>2, <1>8 DEF Rollback
  <1>9. QED
    BY <1>3, <1>4, <1>5, <1>6, <1>7, <1>8 DEF Step

-----------------------------------------------------------------------------
(* Lines of one order.  A delivery request is able to commit while all the *)
(* lines it numbers exist and have no delivery item.  Of two able requests *)
(* of one order the later one has found the lines of the earlier one, so   *)
(* that the commit of one stops the other; hence, while it is able, no     *)
(* number was given that it had not read.                                  *)
Able(c) ==
    /\ tx[c].op = "delivery"
    /\ DOMAIN tx[c].no # {}
    /\ \A l \in DOMAIN tx[c].no : lineNo[l] # 0 /\ deliveryLine[l] = NoDeliveryLine

LineInv ==
    /\ \A l \in Lines : deliveryLine[l] # NoDeliveryLine => lineNo[l] # 0
    /\ \A c \in Clients : tx[c].op = "lines" =>
         \A l \in DOMAIN tx[c].no :
           /\ lineNo[l] = 0
           /\ \A d \in Clients \ {c} : tx[d].op \in {"lines", "delivery"} => l \notin DOMAIN tx[d].no
    /\ \A c \in Clients : tx[c].op = "delivery" =>
         \A l \in DOMAIN tx[c].no : OrderOf[l] = tx[c].order
    /\ \A c \in Clients : Able(c) =>
         \A l \in Lines : OrderOf[l] = tx[c].order /\ deliveryLine[l].n <= Limit =>
           deliveryLine[l].n < tx[c].first
    /\ \A c, d \in Clients : Able(c) /\ Able(d) /\ tx[c].order = tx[d].order =>
         DOMAIN tx[c].no \cap DOMAIN tx[d].no # {}

(* Steps that give no line a number, on the order or on the delivery. *)
LEMMA LineInvFrame ==
    ASSUME LineInv, UNCHANGED <<lineNo, deliveryLine>>,
           \A e \in Clients : tx'[e].op \in {"lines", "delivery"} => tx'[e] = tx[e]
    PROVE  LineInv'
  <1>1. \A c \in Clients : Able(c)' => Able(c) /\ tx'[c] = tx[c]
    BY DEF Able
  <1>2. QED
    BY <1>1 DEF LineInv

(* Requests that number neither lines nor deliveries, or give up. *)
LEMMA LineInvOthers ==
    ASSUME IInv, LineInv, NEW c \in Clients,
           \/ \E o \in Orders : \/ BeginOrder(c, o)
                             \/ \E S \in SUBSET Lines : BeginDraft(c, o, S)
                             \/ LoadOrder(c, o)
           \/ CommitOrder(c)
           \/ CommitDraft(c)
           \/ NumberDelivery(c)
           \/ Rollback(c)
    PROVE  LineInv'
  <1>1. Step(c)
    BY DEF Step
  <1>2. ASSUME NEW t, t.op \notin {"lines", "delivery"}, Continue(c, t)
        PROVE  UNCHANGED <<lineNo, deliveryLine>> /\ tx'[c].op \notin {"lines", "delivery"}
    BY <1>2 DEF Continue, orderRows, deliveryRows, IInv, TxOK
  <1>3. UNCHANGED <<lineNo, deliveryLine>> /\ tx'[c].op \notin {"lines", "delivery"}
    <2>1. ASSUME NEW o \in Orders, BeginOrder(c, o) \/ LoadOrder(c, o)
          PROVE  UNCHANGED <<lineNo, deliveryLine>> /\ tx'[c].op \notin {"lines", "delivery"}
      BY <1>2, <2>1 DEF BeginOrder, LoadOrder
    <2>2. ASSUME NEW o \in Orders, NEW S \in SUBSET Lines, BeginDraft(c, o, S)
          PROVE  UNCHANGED <<lineNo, deliveryLine>> /\ tx'[c].op \notin {"lines", "delivery"}
      <3> DEFINE b == MaxRead(DraftNumbers(o)) + 1
      <3>1. Continue(c, [op |-> "draft", order |-> o, items |-> S, branch |-> b])
        BY <2>2 DEF BeginDraft
      <3> HIDE DEF b
      <3>2. QED
        BY <1>2, <3>1
    <2>3. CASE CommitOrder(c) \/ CommitDraft(c)
      BY <2>3 DEF CommitOrder, CommitDraft, IInv, TxOK, Idle, orderRows, deliveryRows
    <2>4. CASE NumberDelivery(c)
      BY <1>2, <2>4 DEF NumberDelivery
    <2>5. CASE Rollback(c)
      BY <1>2, <2>5 DEF Rollback, Idle
    <2>6. QED
      BY <2>1, <2>2, <2>3, <2>4, <2>5
  <1>4. QED
    BY <1>1, <1>3, OthersWait, LineInvFrame DEF IInv

LEMMA LineInvInductive ==
    ASSUME IInv, LineInv, [Next]_vars
    PROVE  LineInv'
  <1>1. ASSUME NEW c \in Clients, NEW l \in Lines, NumberLine(c, l)
        PROVE  LineInv'
    <2> DEFINE own == IF tx[c] = Idle THEN << >> ELSE tx[c].no
               n == MaxRead(LineNumbers(OrderOf[l]) \cup Range(own)) + 1
               no == [k \in DOMAIN own \cup {l} |-> IF k = l THEN n ELSE own[k]]
               t == [op |-> "lines", order |-> OrderOf[l], no |-> no]
    <2>1. /\ lineNo[l] = 0
          /\ \A d \in Clients : tx[d].op \in {"lines", "delivery"} => l \notin DOMAIN tx[d].no
          /\ tx[c] = Idle \/ tx[c].op = "lines"
          /\ Continue(c, t)
      BY <1>1 DEF NumberLine, Names
    <2>2. \A k \in DOMAIN own : tx[c].op = "lines" /\ k \in DOMAIN tx[c].no
      BY <2>1
    <2> HIDE DEF own, n
    <2>3. DOMAIN no = DOMAIN own \cup {l}
      OBVIOUS
    <2> HIDE DEF no
    <2>4. /\ tx'[c] = t
          /\ \A d \in Clients \ {c} : tx'[d] = tx[d]
          /\ UNCHANGED <<lineNo, deliveryLine>>
      BY <2>1 DEF Continue, IInv, TxOK, orderRows, deliveryRows
    <2>5. ASSUME NEW k \in DOMAIN no
          PROVE  /\ lineNo[k] = 0
                 /\ \A d \in Clients \ {c} : tx[d].op \in {"lines", "delivery"} =>
                      k \notin DOMAIN tx[d].no
      BY <2>1, <2>2, <2>3, <2>5 DEF LineInv
    <2>6. ASSUME NEW d \in Clients, tx'[d].op = "lines", NEW k \in DOMAIN tx'[d].no
          PROVE  /\ lineNo'[k] = 0
                 /\ \A e \in Clients \ {d} : tx'[e].op \in {"lines", "delivery"} =>
                      k \notin DOMAIN tx'[e].no
      <3>1. CASE d = c
        BY <2>4, <2>5, <2>6, <3>1
      <3>2. CASE d # c
        <4>1. tx[d].op = "lines" /\ k \in DOMAIN tx[d].no
          BY <2>4, <2>6, <3>2
        <4>2. /\ lineNo[k] = 0
              /\ \A e \in Clients \ {d} : tx[e].op \in {"lines", "delivery"} =>
                   k \notin DOMAIN tx[e].no
          BY <4>1 DEF LineInv
        <4>3. k \notin DOMAIN no
          BY <2>5, <3>2, <4>1
        <4>4. QED
          BY <2>4, <4>2, <4>3
      <3>3. QED
        BY <3>1, <3>2
    <2>7. \A d \in Clients : tx'[d].op = "delivery" => tx'[d] = tx[d]
      BY <2>4
    <2>8. \A d \in Clients : Able(d)' => Able(d) /\ tx'[d] = tx[d]
      BY <2>4, <2>7 DEF Able
    <2>9. QED
      BY <2>4, <2>6, <2>7, <2>8 DEF LineInv
  <1>2. ASSUME NEW c \in Clients, FindDelivery(c)
        PROVE  LineInv'
    <2> DEFINE o == tx[c].order
               items == {l \in LinesOf(o) : deliveryLine[l] # NoDeliveryLine}
               read == {deliveryLine[l].n : l \in items}
               first == MaxRead(read) + 1
    <2>1. PICK no \in Numbered(LinesOf(o) \ items, first) :
            Continue(c, [op |-> "delivery", order |-> o, had |-> tx[c].had,
                         branch |-> tx[c].branch, found |-> delivery[o],
                         first |-> first, no |-> no])
      BY <1>2 DEF FindDelivery
    <2>2. DOMAIN no = {l \in LinesOf(o) : deliveryLine[l] = NoDeliveryLine}
      <3>1. DOMAIN no = LinesOf(o) \ items
        BY <2>1 DEF Numbered, Bijection, Injection
      <3>2. QED
        BY <3>1
    <2>3. read \in SUBSET Nat
      BY DEF IInv, RowsOK, LinesOf
    <2> HIDE DEF read
    <2>4. ASSUME NEW l \in Lines, OrderOf[l] = o, deliveryLine[l].n <= Limit
          PROVE  deliveryLine[l].n < first
      <3>1. MaxRead(read) \in Nat /\ \A n \in read : n <= Limit => n <= MaxRead(read)
        BY <2>3, MaxReadProperties
      <3>2. CASE deliveryLine[l] = NoDeliveryLine
        BY <3>1, <3>2 DEF NoDeliveryLine
      <3>3. CASE deliveryLine[l] # NoDeliveryLine
        <4>1. l \in items
          BY <2>4, <3>3 DEF LineInv, LinesOf
        <4>2. deliveryLine[l].n \in read
          BY <4>1 DEF read
        <4>3. deliveryLine[l].n \in Nat
          BY <2>3, <4>2
        <4>4. QED
          BY <2>4, <3>1, <4>2, <4>3
      <3>4. QED
        BY <3>2, <3>3
    <2> HIDE DEF first
    <2>5. /\ tx'[c].op = "delivery" /\ tx'[c].order = o
          /\ tx'[c].first = first /\ tx'[c].no = no
          /\ \A d \in Clients \ {c} : tx'[d] = tx[d]
          /\ UNCHANGED <<lineNo, deliveryLine>>
      BY <2>1 DEF Continue, IInv, TxOK, orderRows, deliveryRows
    <2>6. \A l \in DOMAIN no : l \in Lines /\ OrderOf[l] = o /\ lineNo[l] # 0
      BY <2>2 DEF LinesOf
    <2>7. \A d \in Clients \ {c} : Able(d)' => Able(d)
      BY <2>5 DEF Able
    <2>8. \A d \in Clients \ {c} : Able(d) /\ tx[d].order = o =>
            DOMAIN tx[d].no \cap DOMAIN no # {}
      <3> SUFFICES ASSUME NEW d \in Clients \ {c}, Able(d), tx[d].order = o
                   PROVE  DOMAIN tx[d].no \cap DOMAIN no # {}
        OBVIOUS
      <3>1. PICK l \in DOMAIN tx[d].no : lineNo[l] # 0 /\ deliveryLine[l] = NoDeliveryLine
        BY DEF Able
      <3>2. OrderOf[l] = o
        BY DEF Able, LineInv
      <3>3. l \in Lines
        <4>1. tx[d] \in DeliveryTx
          BY TxCases DEF Able, IInv
        <4>2. QED
          BY <4>1 DEF DeliveryTx, Fresh, Numbered, Bijection, Injection
      <3>4. QED
        BY <2>2, <3>1, <3>2, <3>3 DEF LinesOf
    <2>9. \A d \in Clients : tx'[d].op = "lines" =>
            \A l \in DOMAIN tx'[d].no :
              /\ lineNo'[l] = 0
              /\ \A e \in Clients \ {d} : tx'[e].op \in {"lines", "delivery"} =>
                   l \notin DOMAIN tx'[e].no
      BY <2>5, <2>6 DEF LineInv
    <2>10. \A d \in Clients : Able(d)' =>
             \A l \in Lines : OrderOf[l] = tx'[d].order /\ deliveryLine'[l].n <= Limit =>
               deliveryLine'[l].n < tx'[d].first
      BY <2>4, <2>5, <2>7 DEF LineInv
    <2>11. \A d, e \in Clients : Able(d)' /\ Able(e)' /\ tx'[d].order = tx'[e].order =>
             DOMAIN tx'[d].no \cap DOMAIN tx'[e].no # {}
      <3>1. Able(c)' => DOMAIN no # {}
        BY <2>5 DEF Able
      <3>2. QED
        BY <2>5, <2>7, <2>8, <3>1 DEF LineInv
    <2>12. QED
      BY <2>5, <2>6, <2>9, <2>10, <2>11 DEF LineInv
  <1>3. ASSUME NEW c \in Clients, CommitLines(c)
        PROVE  LineInv'
    <2>1. tx[c] \in LinesTx /\ tx[c].op = "lines"
      BY <1>3, TxCases DEF CommitLines, IInv
    <2>2. /\ tx'[c].op = "idle"
          /\ \A d \in Clients \ {c} : tx'[d] = tx[d]
          /\ UNCHANGED deliveryLine
      BY <1>3 DEF CommitLines, Idle, IInv, TxOK, deliveryRows
    <2>3. \A l \in Lines : lineNo[l] # 0 => lineNo'[l] # 0
      BY <1>3, <2>1 DEF CommitLines, LinesTx, Number
    <2>4. \A d \in Clients \ {c} : tx[d].op \in {"lines", "delivery"} =>
            \A l \in DOMAIN tx[d].no : l \in Lines /\ lineNo'[l] = lineNo[l]
      <3> SUFFICES ASSUME NEW d \in Clients \ {c}, tx[d].op \in {"lines", "delivery"},
                          NEW l \in DOMAIN tx[d].no
                   PROVE  l \in Lines /\ lineNo'[l] = lineNo[l]
        OBVIOUS
      <3>1. l \notin DOMAIN tx[c].no
        BY <2>1 DEF LineInv
      <3>2. l \in Lines
        <4>1. tx[d] \in LinesTx \/ tx[d] \in DeliveryTx
          BY TxCases DEF IInv
        <4>2. QED
          BY <4>1 DEF LinesTx, DeliveryTx, Fresh, Numbered, Bijection, Injection
      <3>3. QED
        BY <1>3, <3>1, <3>2 DEF CommitLines
    <2>5. \A d \in Clients : Able(d)' => Able(d) /\ tx'[d] = tx[d]
      BY <2>2, <2>4 DEF Able
    <2>6. \A d \in Clients : tx'[d].op \in {"lines", "delivery"} => d # c /\ tx'[d] = tx[d]
      BY <2>2
    <2>7. \A l \in Lines : deliveryLine'[l] # NoDeliveryLine => lineNo'[l] # 0
      BY <2>2, <2>3 DEF LineInv
    <2>8. \A d \in Clients : tx'[d].op = "lines" =>
            \A l \in DOMAIN tx'[d].no :
              /\ lineNo'[l] = 0
              /\ \A e \in Clients \ {d} : tx'[e].op \in {"lines", "delivery"} =>
                   l \notin DOMAIN tx'[e].no
      BY <2>4, <2>6 DEF LineInv
    <2>9. QED
      BY <2>2, <2>5, <2>6, <2>7, <2>8 DEF LineInv
  <1>4. ASSUME NEW c \in Clients, CommitDelivery(c)
        PROVE  LineInv'
    <2> DEFINE new == DOMAIN tx[c].no
    <2>1. tx[c] \in DeliveryTx /\ tx[c].op = "delivery"
      BY <1>4, TxCases DEF CommitDelivery, IInv
    <2>2. /\ tx'[c].op = "idle"
          /\ \A d \in Clients \ {c} : tx'[d] = tx[d]
          /\ UNCHANGED lineNo
      BY <1>4 DEF CommitDelivery, Idle, IInv, TxOK
    <2>3. /\ new \subseteq Lines
          /\ \A l \in new : tx[c].no[l] \in Number
      BY <1>4, <2>1, FreshNumbers DEF CommitDelivery, DeliveryTx
    <2>4. /\ \A l \in new : /\ lineNo[l] # 0 /\ deliveryLine[l] = NoDeliveryLine
                            /\ OrderOf[l] = tx[c].order
                            /\ deliveryLine'[l] # NoDeliveryLine
          /\ \A l \in Lines \ new : deliveryLine'[l] = deliveryLine[l]
      <3>1. \A l \in new : deliveryLine'[l].n = tx[c].no[l]
        BY <1>4, <2>3 DEF CommitDelivery
      <3>2. \A l \in new : deliveryLine'[l].n # 0
        BY <2>3, <3>1 DEF Number
      <3>3. \A l \in new : /\ lineNo[l] # 0 /\ deliveryLine[l] = NoDeliveryLine
                          /\ OrderOf[l] = tx[c].order
        BY <1>4, <2>1 DEF CommitDelivery, LineInv
      <3>4. \A l \in new : deliveryLine'[l] # NoDeliveryLine
        BY <3>2 DEF NoDeliveryLine
      <3>5. \A l \in Lines \ new : deliveryLine'[l] = deliveryLine[l]
        BY <1>4 DEF CommitDelivery
      <3>6. QED
        BY <3>3, <3>4, <3>5
    <2>5. new # {} => Able(c)
      BY <2>1, <2>4 DEF Able
    <2>6. \A d \in Clients : tx'[d].op \in {"lines", "delivery"} => d # c /\ tx'[d] = tx[d]
      BY <2>2
    <2>7. ASSUME NEW d \in Clients, Able(d)'
          PROVE  /\ Able(d) /\ tx'[d] = tx[d]
                 /\ \A l \in Lines : OrderOf[l] = tx[d].order => deliveryLine'[l] = deliveryLine[l]
      <3>1. d # c /\ tx'[d] = tx[d]
        BY <2>6, <2>7 DEF Able
      <3>2. ASSUME NEW l \in DOMAIN tx[d].no
            PROVE  l \in Lines \ new
        <4>1. tx[d] \in DeliveryTx
          BY <2>7, <3>1, TxCases DEF Able, IInv
        <4>2. l \in Lines
          BY <4>1 DEF DeliveryTx, Fresh, Numbered, Bijection, Injection
        <4>3. deliveryLine'[l] = NoDeliveryLine
          BY <2>7, <3>1 DEF Able
        <4>4. QED
          BY <2>4, <4>2, <4>3
      <3>3. Able(d)
        BY <2>2, <2>4, <2>7, <3>1, <3>2 DEF Able
      <3>4. new = {} \/ tx[d].order # tx[c].order
        BY <2>5, <3>2, <3>3 DEF LineInv
      <3>5. QED
        BY <2>4, <3>1, <3>3, <3>4
    <2>8. \A l \in Lines : deliveryLine'[l] # NoDeliveryLine => lineNo'[l] # 0
      BY <2>2, <2>4 DEF LineInv
    <2>9. QED
      BY <2>2, <2>6, <2>7, <2>8 DEF LineInv
  <1>5. ASSUME NEW l \in Lines, DeleteLine(l)
        PROVE  LineInv'
    <2>1. /\ lineNo' = [lineNo EXCEPT ![l] = 0]
          /\ UNCHANGED <<deliveryLine, tx>>
          /\ deliveryLine[l] = NoDeliveryLine
          /\ lineNo \in [Lines -> 0 .. Limit + 1]
      BY <1>5 DEF DeleteLine, deliveryRows, IInv, RowsOK
    <2>2. ASSUME NEW d \in Clients, Able(d)'
          PROVE  Able(d)
      <3>1. tx[d] \in DeliveryTx /\ tx[d].op = "delivery"
        BY <2>1, <2>2, TxCases DEF Able, IInv
      <3>2. DOMAIN tx[d].no \subseteq Lines
        BY <3>1 DEF DeliveryTx, Fresh, Numbered, Bijection, Injection
      <3>3. QED
        BY <2>1, <2>2, <3>2 DEF Able
    <2>3. ASSUME NEW d \in Clients, tx[d].op = "lines", NEW k \in DOMAIN tx[d].no
          PROVE  lineNo'[k] = 0
      <3>1. k \in Lines
        BY <2>3, TxCases DEF IInv, LinesTx
      <3>2. QED
        BY <2>1, <2>3, <3>1 DEF LineInv
    <2>4. QED
      BY <2>1, <2>2, <2>3 DEF LineInv
  <1>6. CASE NextDay \/ UNCHANGED vars
    BY <1>6, LineInvFrame DEF NextDay, vars, orderRows, deliveryRows
  <1>7. QED
    BY <1>1, <1>2, <1>3, <1>4, <1>5, <1>6, LineInvOthers DEF Next, Step

LEMMA LinesDifferStep ==
    ASSUME IInv, LineInv, LinesOfAnOrderDiffer, [Next]_vars
    PROVE  LinesOfAnOrderDiffer'
  <1> USE DEF LinesOfAnOrderDiffer
  <1>1. ASSUME NEW c \in Clients, CommitLines(c)
        PROVE  LinesOfAnOrderDiffer'
    <2> DEFINE no == tx[c].no
    <2>1. tx[c] \in LinesTx
      BY <1>1, TxCases DEF CommitLines, IInv
    <2>2. /\ DOMAIN no \subseteq Lines
          /\ \A k, l \in DOMAIN no : no[k] = no[l] => k = l
      BY <1>1, <2>1 DEF CommitLines, LinesTx, IsInjective
    <2>3. \A l \in DOMAIN no : \A k \in Lines : OrderOf[k] = OrderOf[l] => lineNo[k] # no[l]
      BY <1>1 DEF CommitLines, LineNumberTaken
    <2>4. \A l \in Lines : lineNo'[l] = IF l \in DOMAIN no THEN no[l] ELSE lineNo[l]
      BY <1>1 DEF CommitLines
    <2>5. UNCHANGED deliveryLine
      BY <1>1 DEF CommitLines, deliveryRows
    <2>6. QED
      BY <2>2, <2>3, <2>4, <2>5
  <1>2. ASSUME NEW c \in Clients, CommitDelivery(c)
        PROVE  LinesOfAnOrderDiffer'
    <2> DEFINE no == tx[c].no
               new == DOMAIN no
    <2>1. tx[c] \in DeliveryTx /\ tx[c].op = "delivery"
      BY <1>2, TxCases DEF CommitDelivery, IInv
    <2>2. no \in Fresh(tx[c].first) /\ tx[c].first \in Number
      BY <2>1 DEF DeliveryTx
    <2>3. PICK S \in SUBSET Lines : no \in Bijection(S, tx[c].first .. (tx[c].first + Cardinality(S) - 1))
      BY <2>2 DEF Fresh, Numbered
    <2>4. /\ new = S
          /\ \A k, l \in new : no[k] = no[l] => k = l
          /\ \A l \in new : no[l] >= tx[c].first
      <3>1. no \in [S -> tx[c].first .. (tx[c].first + Cardinality(S) - 1)] /\ IsInjective(no)
        BY <2>3 DEF Bijection, Injection
      <3>2. QED
        BY <2>2, <3>1 DEF IsInjective, Number
    <2>5. UNCHANGED lineNo
      BY <1>2 DEF CommitDelivery
    <2>6. \A l \in Lines : deliveryLine'[l].n = IF l \in new THEN no[l] ELSE deliveryLine[l].n
      BY <1>2 DEF CommitDelivery
    <2>7. ASSUME NEW k \in new, NEW l \in Lines \ new, OrderOf[l] = OrderOf[k]
          PROVE  deliveryLine[l].n = no[k] => deliveryLine[l].n = Limit + 1
      <3>1. Able(c) /\ OrderOf[k] = tx[c].order
        BY <1>2, <2>1, <2>7 DEF Able, CommitDelivery, LineInv
      <3>2. deliveryLine[l].n <= Limit => deliveryLine[l].n < tx[c].first
        BY <2>7, <3>1 DEF LineInv
      <3>3. deliveryLine[l].n \in 0 .. Limit + 1
        BY DEF IInv, RowsOK
      <3>4. no[k] >= tx[c].first
        BY <2>4
      <3>5. QED
        BY <2>2, <3>2, <3>3, <3>4 DEF Number
    <2> HIDE DEF no
    <2>8. QED
      BY <2>3, <2>4, <2>5, <2>6, <2>7
  <1>3. ASSUME NEW l \in Lines, DeleteLine(l)
        PROVE  LinesOfAnOrderDiffer'
    BY <1>3 DEF DeleteLine, deliveryRows, IInv, RowsOK
  <1>4. CASE UNCHANGED <<lineNo, deliveryLine>>
    BY <1>4
  <1>5. QED
    BY <1>1, <1>2, <1>3, <1>4
       DEF Next, Step, BeginOrder, CommitOrder, NumberLine, BeginDraft, CommitDraft, LoadOrder,
           NumberDelivery, FindDelivery, Rollback, Continue, NextDay, vars, orderRows,
           deliveryRows

(* However requests overlap, no two lines of an order have the same number *)
(* and no two of its delivery lines do, whatever the delivery was numbered *)
(* when they were, up to the last number that can be read.                 *)
THEOREM LinesDiffer == Spec => []LinesOfAnOrderDiffer
  <1>1. Init => LineInv /\ LinesOfAnOrderDiffer
    BY DEF Init, LineInv, LinesOfAnOrderDiffer, Able, Idle, NoDeliveryLine
  <1>2. QED
    BY <1>1, LineInvInductive, LinesDifferStep, IInvHolds, PTL DEF Spec

-----------------------------------------------------------------------------
(* Renumbered deliveries.  An order keeps the delivery number it has got,  *)
(* and a request that had loaded one goes on with it.                      *)
DeliveryInv ==
    /\ \A o \in Orders : delivery[o] # 0 => orderDelivery[o] # 0
    /\ \A c \in Clients :
         /\ tx[c].op \in {"find", "delivery"} /\ tx[c].had # 0 => tx[c].branch = tx[c].had
         /\ tx[c].op \in {"number", "find", "delivery"} /\ tx[c].had # 0 =>
              orderDelivery[tx[c].order] # 0

LEMMA DeliveryInvInductive ==
    ASSUME IInv, DeliveryInv, [Next]_vars
    PROVE  DeliveryInv'
  <1> USE DEF DeliveryInv
  <1>1. ASSUME NEW c \in Clients, NEW t, Continue(c, t),
               t.op \in {"find", "delivery"} /\ t.had # 0 => t.branch = t.had,
               t.op \in {"number", "find", "delivery"} /\ t.had # 0 => orderDelivery[t.order] # 0
        PROVE  DeliveryInv'
    BY <1>1 DEF Continue, orderRows, deliveryRows, IInv, TxOK
  <1>2. ASSUME NEW c \in Clients, NEW o \in Orders, LoadOrder(c, o)
        PROVE  DeliveryInv'
    BY <1>1, <1>2 DEF LoadOrder
  <1>3. ASSUME NEW c \in Clients, NumberDelivery(c)
        PROVE  DeliveryInv'
    <2> DEFINE b == IF tx[c].had # 0 THEN tx[c].had ELSE MaxRead({delivery[tx[c].order]}) + 1
               t == [op |-> "find", order |-> tx[c].order, had |-> tx[c].had, branch |-> b]
    <2>1. Continue(c, t) /\ tx[c].op = "number"
      BY <1>3 DEF NumberDelivery
    <2>2. tx[c].had # 0 => b = tx[c].had
      OBVIOUS
    <2> HIDE DEF b
    <2>3. QED
      BY <1>1, <2>1, <2>2
  <1>4. ASSUME NEW c \in Clients, FindDelivery(c)
        PROVE  DeliveryInv'
    <2>1. PICK first, no :
            Continue(c, [op |-> "delivery", order |-> tx[c].order, had |-> tx[c].had,
                         branch |-> tx[c].branch, found |-> delivery[tx[c].order],
                         first |-> first, no |-> no])
      BY <1>4 DEF FindDelivery
    <2>2. QED
      BY <1>1, <1>4, <2>1 DEF FindDelivery
  <1>5. ASSUME NEW c \in Clients, CommitDelivery(c)
        PROVE  DeliveryInv'
    <2>1. tx[c] \in DeliveryTx /\ tx[c].op = "delivery"
      BY <1>5, TxCases DEF CommitDelivery, IInv
    <2>2. tx[c].branch # 0 /\ tx[c].order \in Orders
      BY <2>1 DEF DeliveryTx, Number
    <2>3. \A o \in Orders : orderDelivery[o] # 0 => orderDelivery'[o] # 0
      BY <1>5, <2>2 DEF CommitDelivery, IInv, RowsOK
    <2>4. \A o \in Orders : delivery'[o] # 0 => orderDelivery'[o] # 0
      BY <1>5, <2>1, <2>2, <2>3 DEF CommitDelivery, IInv, RowsOK
    <2>5. \A e \in Clients : tx'[e].op \in {"number", "find", "delivery"} =>
            tx'[e] = tx[e] /\ tx[e].order \in Orders
      <3> SUFFICES ASSUME NEW e \in Clients, tx'[e].op \in {"number", "find", "delivery"}
                   PROVE  tx'[e] = tx[e] /\ tx[e].order \in Orders
        OBVIOUS
      <3>1. tx'[e] = tx[e]
        BY <1>5 DEF CommitDelivery, Idle, IInv, TxOK
      <3>2. QED
        BY <3>1, TxCases DEF IInv, LoadTx, FindTx, DeliveryTx
    <2>6. QED
      BY <2>3, <2>4, <2>5
  <1>6. CASE /\ UNCHANGED <<orderDelivery, delivery>>
             /\ \A c \in Clients : tx'[c].op \in {"number", "find", "delivery"} => tx'[c] = tx[c]
    BY <1>6
  <1>7. ASSUME NEW c \in Clients, Step(c),
               ~\E o \in Orders : LoadOrder(c, o),
               ~NumberDelivery(c), ~FindDelivery(c), ~CommitDelivery(c)
        PROVE  /\ UNCHANGED <<orderDelivery, delivery>>
               /\ tx'[c].op \notin {"number", "find", "delivery"}
    <2> DEFINE Other == {"idle", "order", "lines", "draft"}
    <2>1. ASSUME NEW t, t.op \in Other, Continue(c, t)
          PROVE  UNCHANGED <<orderDelivery, delivery>> /\ tx'[c].op \in Other
      BY <2>1 DEF Continue, IInv, TxOK, orderRows, deliveryRows
    <2>2. ASSUME NEW o \in Orders,
                 BeginOrder(c, o) \/ (\E S \in SUBSET Lines : BeginDraft(c, o, S))
          PROVE  UNCHANGED <<orderDelivery, delivery>> /\ tx'[c].op \in Other
      <3>1. CASE BeginOrder(c, o)
        BY <2>1, <3>1 DEF BeginOrder
      <3>2. ASSUME NEW S \in SUBSET Lines, BeginDraft(c, o, S)
            PROVE  UNCHANGED <<orderDelivery, delivery>> /\ tx'[c].op \in Other
        <4> DEFINE b == MaxRead(DraftNumbers(o)) + 1
        <4>1. Continue(c, [op |-> "draft", order |-> o, items |-> S, branch |-> b])
          BY <3>2 DEF BeginDraft
        <4> HIDE DEF b
        <4>2. QED
          BY <2>1, <4>1
      <3>3. QED
        BY <2>2, <3>1, <3>2
    <2>3. ASSUME NEW l \in Lines, NumberLine(c, l)
          PROVE  UNCHANGED <<orderDelivery, delivery>> /\ tx'[c].op \in Other
      BY <2>1, <2>3 DEF NumberLine
    <2>4. CASE CommitOrder(c) \/ CommitLines(c) \/ CommitDraft(c)
      BY <2>4 DEF CommitOrder, CommitLines, CommitDraft, IInv, TxOK, Idle, orderRows, deliveryRows
    <2>5. CASE Rollback(c)
      <3>1. Idle.op \in Other
        BY DEF Idle
      <3>2. QED
        BY <2>1, <2>5, <3>1 DEF Rollback
    <2>6. QED
      BY <1>7, <2>2, <2>3, <2>4, <2>5 DEF Step
  <1>8. ASSUME NEW c \in Clients, Step(c),
               ~\E o \in Orders : LoadOrder(c, o),
               ~NumberDelivery(c), ~FindDelivery(c), ~CommitDelivery(c)
        PROVE  DeliveryInv'
    <2>1. \A e \in Clients : tx'[e].op \in {"number", "find", "delivery"} => tx'[e] = tx[e]
      BY <1>7, <1>8, OthersWait DEF IInv
    <2>2. QED
      BY <1>6, <1>7, <1>8, <2>1
  <1>9. CASE (\E l \in Lines : DeleteLine(l)) \/ NextDay \/ UNCHANGED vars
    BY <1>9 DEF DeleteLine, NextDay, vars, orderRows, deliveryRows
  <1>10. QED
    BY <1>2, <1>3, <1>4, <1>5, <1>8, <1>9 DEF Next

(* A delivery on record gets another number only from a request that had   *)
(* loaded its order before the order got the number it has, or to bring it *)
(* back to that number.                                                    *)
THEOREM DeliveryNumberIsStable == Spec => DeliveryRenumberedOnlyByStaleRequest
  <1>1. Init => DeliveryInv
    BY DEF Init, DeliveryInv, Idle
  <1>2. ASSUME IInv, DeliveryInv, [Next]_vars
        PROVE  [\A o \in Orders :
                  delivery[o] # 0 /\ delivery'[o] # delivery[o] =>
                    \/ delivery[o] # orderDelivery[o] /\ delivery'[o] = orderDelivery[o]
                    \/ \E c \in Clients : /\ tx[c].op = "delivery" /\ tx[c].order = o
                                          /\ tx[c].had # orderDelivery[o]]_vars
    <2> SUFFICES ASSUME Next, NEW o \in Orders, delivery[o] # 0, delivery'[o] # delivery[o]
                 PROVE  \/ delivery[o] # orderDelivery[o] /\ delivery'[o] = orderDelivery[o]
                        \/ \E c \in Clients : /\ tx[c].op = "delivery" /\ tx[c].order = o
                                              /\ tx[c].had # orderDelivery[o]
      BY <1>2
    <2>1. PICK c \in Clients : CommitDelivery(c)
      BY DEF Next, Step, BeginOrder, CommitOrder, NumberLine, CommitLines, BeginDraft,
             CommitDraft, LoadOrder, NumberDelivery, FindDelivery, Rollback, Continue,
             DeleteLine, NextDay, deliveryRows
    <2>2. /\ tx[c].op = "delivery" /\ tx[c].order = o
          /\ delivery'[o] = tx[c].branch
      BY <1>2, <2>1 DEF CommitDelivery, IInv, RowsOK
    <2>3. CASE tx[c].had = orderDelivery[o]
      BY <1>2, <2>2, <2>3 DEF DeliveryInv
    <2>4. QED
      BY <2>2, <2>3
  <1>3. QED
    BY <1>1, <1>2, DeliveryInvInductive, IInvHolds, PTL
       DEF Spec, DeliveryRenumberedOnlyByStaleRequest

=============================================================================
