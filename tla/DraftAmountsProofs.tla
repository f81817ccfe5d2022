------------------------- MODULE DraftAmountsProofs -------------------------
(***************************************************************************)
(* Theorems of DraftAmounts for any invoices, items, prices and clients,   *)
(* however many requests overlap.                                          *)
(***************************************************************************)
EXTENDS DraftAmounts, FiniteSetTheorems, Sums, TLAPS

HeaderFields == {"status", "locked", "total"}
ItemFields == {"qty", "price", "amount", "basis", "jpy"}

AmountOps == {"edit", "recalculate"}
StatusOps == {"finalize", "reset", "unlock"}

(* What an edit makes of an item. *)
Edited(new) ==
    \E q, p \in Nat : new.qty = q /\ new.price = Amount(p) /\ new.amount = Amount(q * p)

(* A request on an invoice: its rows are there, and as long as nobody else *)
(* committed, they are as they were loaded and read.                       *)
OnInv(t) ==
    /\ DOMAIN t = {"at", "op", "inv", "old", "new", "changed", "read"}
    /\ t.op \in AmountOps \cup StatusOps
    /\ t.inv \in DOMAIN invoice
    /\ DOMAIN t.old = HeaderFields /\ DOMAIN t.new = HeaderFields
    /\ DOMAIN t.changed \subseteq ItemsOf[t.inv]
    /\ t.op \in AmountOps => t.old.status = "draft"
    /\ t.op \in StatusOps => t.new.total = t.old.total
    /\ t.op = "edit" => \A k \in DOMAIN t.changed : Edited(t.changed[k].new)
    /\ t.op = "recalculate" =>
         \A k \in DOMAIN t.changed : \A f \in {"qty", "price", "amount"} :
           t.changed[k].new[f] = t.changed[k].old[f]

Current(t) ==
    t.at = commits =>
      /\ t.old = invoice[t.inv]
      /\ \A k \in DOMAIN t.changed : t.changed[k].old = item[k]
      /\ t.op = "edit" /\ t.read => t.new.total = Total(InSession(t), ItemsOf[t.inv])
      /\ t.op = "recalculate" /\ t.read => t.new.total = Total(item, ItemsOf[t.inv])

OnNew(t) ==
    /\ DOMAIN t = {"at", "op", "inv", "items"}
    /\ t.op = "generate"
    /\ t.inv \in Invoices \ DOMAIN invoice
    /\ DOMAIN t.items = ItemsOf[t.inv]
    /\ \A k \in DOMAIN t.items : DOMAIN t.items[k] = ItemFields

OnSettings(t) == DOMAIN t = {"at", "op", "old", "new"} /\ t.op = "settings"

Request(t) == (OnInv(t) /\ Current(t)) \/ OnNew(t) \/ OnSettings(t)

RowsOK ==
    /\ DOMAIN invoice \subseteq Invoices
    /\ \A i \in DOMAIN invoice : DOMAIN invoice[i] = HeaderFields
    /\ DOMAIN item = UNION {ItemsOf[i] : i \in DOMAIN invoice}
    /\ \A k \in DOMAIN item : DOMAIN item[k] = ItemFields
    /\ commits \in Nat

TxOK ==
    /\ DOMAIN tx = Clients
    /\ \A c \in Clients : tx[c] # Idle => Request(tx[c]) /\ tx[c].at \in Nat /\ tx[c].at <= commits
    /\ \A c, d \in Clients :
         tx[c].op = "generate" /\ tx[d].op = "generate" /\ c # d => tx[c].inv # tx[d].inv

(* The inductive invariant. *)
Inv == RowsOK /\ TxOK

LEMMA TxCases ==
    ASSUME TxOK, NEW c \in Clients
    PROVE  /\ tx[c] = Idle <=> tx[c].op = "idle"
           /\ tx[c].op \in AmountOps \cup StatusOps => OnInv(tx[c]) /\ Current(tx[c])
           /\ tx[c].op = "generate" => OnNew(tx[c])
           /\ tx[c].op = "settings" => OnSettings(tx[c])
           /\ tx[c].op # "idle" => tx[c].at \in Nat /\ tx[c].at <= commits
  BY DEF TxOK, Idle, Request, OnInv, OnNew, OnSettings, AmountOps, StatusOps

-----------------------------------------------------------------------------
(* What loading puts in flight. *)
Loads(c, t) ==
    /\ Begin(c, t)
    /\ t.at = commits
    /\ Request(t)
    /\ t.op = "generate" => \A d \in Clients : tx[d].op = "generate" => tx[d].inv # t.inv
    /\ t.op # "idle"

LEMMA ItemsExist ==
    ASSUME RowsOK, NEW i \in DOMAIN invoice, NEW k \in ItemsOf[i]
    PROVE  k \in DOMAIN item /\ DOMAIN item[k] = ItemFields
  BY DEF RowsOK

LEMMA LoadCases ==
    ASSUME Inv, NEW c \in Clients, Load(c)
    PROVE  \E t : Loads(c, t)
  <1>1. ASSUME NEW op \in AmountOps \cup StatusOps, NEW i \in DOMAIN invoice, NEW new, NEW changed,
               Begin(c, OnInvoice(op, i, new, changed)),
               DOMAIN new = HeaderFields, DOMAIN changed \subseteq ItemsOf[i],
               op \in AmountOps => invoice[i].status = "draft",
               op \in StatusOps => new.total = invoice[i].total,
               \A k \in DOMAIN changed : changed[k].old = item[k],
               op = "edit" => \A k \in DOMAIN changed : Edited(changed[k].new),
               op = "recalculate" => changed = <<>>
        PROVE  \E t : Loads(c, t)
    <2> DEFINE t == [at |-> commits, op |-> op, inv |-> i, old |-> invoice[i], new |-> new,
                     changed |-> changed, read |-> FALSE]
    <2>1. Begin(c, t)
      BY <1>1 DEF OnInvoice
    <2>2. /\ DOMAIN t = {"at", "op", "inv", "old", "new", "changed", "read"}
          /\ t.at = commits /\ t.op = op /\ t.inv = i /\ t.old = invoice[i] /\ t.new = new
          /\ t.changed = changed /\ t.read = FALSE
      OBVIOUS
    <2>3. DOMAIN invoice[i] = HeaderFields
      BY DEF Inv, RowsOK
    <2> HIDE DEF t
    <2>4. OnInv(t)
      BY <1>1, <2>2, <2>3 DEF OnInv
    <2>5. Current(t)
      BY <1>1, <2>2 DEF Current
    <2>6. t.op # "generate" /\ t.op # "idle"
      BY <2>2 DEF AmountOps, StatusOps
    <2>7. QED
      BY <2>1, <2>2, <2>4, <2>5, <2>6 DEF Loads, Request
  <1>2. ASSUME NEW i \in Invoices, NEW k \in ItemsOf[i], NEW q \in Quantities, NEW p \in Prices,
               LoadEdit(c, i, k, q, p)
        PROVE  \E t : Loads(c, t)
    <2> DEFINE new == [item[k] EXCEPT !.qty = q, !.price = Amount(p), !.amount = Amount(q * p)]
               changed == Change(k, new)
    <2>1. /\ i \in DOMAIN invoice /\ invoice[i].status = "draft"
          /\ Begin(c, OnInvoice("edit", i, invoice[i], changed))
      BY <1>2 DEF LoadEdit
    <2>2. DOMAIN item[k] = ItemFields
      BY <2>1, ItemsExist DEF Inv
    <2>3. new.qty = q /\ new.price = Amount(p) /\ new.amount = Amount(q * p)
      BY <2>2 DEF ItemFields
    <2>4. Edited(new)
      BY <2>3, NumbersAssumption DEF Edited, NumbersAssumption
    <2> HIDE DEF new
    <2>5. /\ DOMAIN changed = {k} /\ changed[k].old = item[k] /\ changed[k].new = new
      BY DEF Change
    <2> HIDE DEF changed
    <2>6. DOMAIN invoice[i] = HeaderFields
      BY <2>1 DEF Inv, RowsOK
    <2>7. QED
      BY <1>1, <2>1, <2>4, <2>5, <2>6 DEF AmountOps, StatusOps
  <1>3. ASSUME NEW i \in Invoices, LoadRecalculate(c, i)
        PROVE  \E t : Loads(c, t)
    <2>1. /\ i \in DOMAIN invoice /\ invoice[i].status = "draft"
          /\ Begin(c, OnInvoice("recalculate", i, invoice[i], <<>>))
      BY <1>3 DEF LoadRecalculate
    <2>2. DOMAIN invoice[i] = HeaderFields
      BY <2>1 DEF Inv, RowsOK
    <2>3. QED
      BY <1>1, <2>1, <2>2 DEF AmountOps, StatusOps
  <1>4. ASSUME NEW i \in Invoices, LoadFinalize(c, i) \/ LoadReset(c, i) \/ LoadUnlock(c, i)
        PROVE  \E t : Loads(c, t)
    <2>1. i \in DOMAIN invoice
      BY <1>4 DEF LoadFinalize, LoadReset, LoadUnlock
    <2>2. DOMAIN invoice[i] = HeaderFields
      BY <2>1 DEF Inv, RowsOK
    <2>3. \E op \in StatusOps : \E new :
            /\ Begin(c, OnInvoice(op, i, new, <<>>))
            /\ DOMAIN new = HeaderFields /\ new.total = invoice[i].total
      <3>1. ASSUME NEW op \in StatusOps, NEW st, NEW lk,
                   Begin(c, OnInvoice(op, i, [[invoice[i] EXCEPT !.status = st] EXCEPT !.locked = lk], <<>>))
            PROVE  \E o \in StatusOps : \E new :
                     /\ Begin(c, OnInvoice(o, i, new, <<>>))
                     /\ DOMAIN new = HeaderFields /\ new.total = invoice[i].total
        <4> DEFINE new == [[invoice[i] EXCEPT !.status = st] EXCEPT !.locked = lk]
        <4>1. DOMAIN new = HeaderFields /\ new.total = invoice[i].total
          BY <2>2 DEF HeaderFields
        <4> HIDE DEF new
        <4>2. Begin(c, OnInvoice(op, i, new, <<>>))
          BY <3>1 DEF new
        <4>3. QED
          BY <4>1, <4>2
      <3>2. CASE LoadFinalize(c, i)
        BY <3>1, <3>2 DEF LoadFinalize, StatusOps
      <3>3. CASE LoadReset(c, i)
        BY <3>1, <3>3 DEF LoadReset, StatusOps
      <3>4. CASE LoadUnlock(c, i)
        <4> DEFINE new == [invoice[i] EXCEPT !.locked = FALSE]
        <4>1. DOMAIN new = HeaderFields /\ new.total = invoice[i].total
          BY <2>2 DEF HeaderFields
        <4> HIDE DEF new
        <4>2. Begin(c, OnInvoice("unlock", i, new, <<>>))
          BY <3>4 DEF LoadUnlock, new
        <4>3. QED
          BY <4>1, <4>2 DEF StatusOps
      <3>5. QED
        BY <1>4, <3>2, <3>3, <3>4
    <2>4. QED
      BY <1>1, <2>1, <2>3 DEF AmountOps, StatusOps
  <1>5. ASSUME NEW i \in Invoices, NEW new \in Generated(ItemsOf[i]), LoadGenerate(c, i, new)
        PROVE  \E t : Loads(c, t)
    <2> DEFINE t == [at |-> commits, op |-> "generate", inv |-> i, items |-> new]
    <2>1. Begin(c, t) /\ i \notin DOMAIN invoice
          /\ \A d \in Clients : tx[d].op = "generate" => tx[d].inv # i
      BY <1>5 DEF LoadGenerate
    <2>2. DOMAIN new = ItemsOf[i] /\ \A k \in DOMAIN new : DOMAIN new[k] = ItemFields
      <3>1. ASSUME NEW q, NEW p
            PROVE  /\ DOMAIN FromOrder(ItemsOf[i], q, p) = ItemsOf[i]
                   /\ \A k \in ItemsOf[i] : DOMAIN FromOrder(ItemsOf[i], q, p)[k] = ItemFields
        BY DEF FromOrder, NewItem, ItemFields
      <3>2. ASSUME NEW q, NEW jpy
            PROVE  /\ DOMAIN FromPurchases(ItemsOf[i], q, jpy) = ItemsOf[i]
                   /\ \A k \in ItemsOf[i] : DOMAIN FromPurchases(ItemsOf[i], q, jpy)[k] = ItemFields
        BY DEF FromPurchases, NewItem, ItemFields
      <3>3. \E q, x : new = FromOrder(ItemsOf[i], q, x) \/ new = FromPurchases(ItemsOf[i], q, x)
        BY DEF Generated
      <3>4. QED
        BY <3>1, <3>2, <3>3
    <2>3. OnNew(t)
      BY <2>1, <2>2 DEF OnNew
    <2>4. QED
      BY <2>1, <2>3 DEF Loads, Request
  <1>6. ASSUME NEW s \in Settings, LoadSettings(c, s)
        PROVE  \E t : Loads(c, t)
    <2> DEFINE t == [at |-> commits, op |-> "settings", old |-> settings, new |-> s]
    <2>1. Begin(c, t) /\ OnSettings(t)
      BY <1>6 DEF LoadSettings, OnSettings
    <2>2. QED
      BY <2>1 DEF Loads, Request
  <1>7. QED
    BY <1>2, <1>3, <1>4, <1>5, <1>6 DEF Load

-----------------------------------------------------------------------------
(* What an UPDATE leaves of a row: a changed column is the new one, and a  *)
(* row that is as it was loaded becomes the new row.                       *)
LEMMA WrittenRow ==
    ASSUME NEW old, NEW new, NEW row, NEW maybe, NEW w \in Written(old, new, row, maybe)
    PROVE  /\ DOMAIN w = DOMAIN row
           /\ \A f \in DOMAIN row :
                /\ new[f] = old[f] /\ f \notin maybe => w[f] = row[f]
                /\ row[f] = old[f] => w[f] = new[f]
  BY DEF Written

LEMMA AmountsEffect ==
    ASSUME Inv, NEW c \in Clients, CommitAmounts(c)
    PROVE  LET t == tx[c] IN
           /\ t.op \in AmountOps /\ t.read = TRUE /\ OnInv(t) /\ Current(t)
           /\ Finish(c) /\ UNCHANGED settings
           /\ \E w \in Written(t.old, t.new, invoice[t.inv], {"total"}) :
                invoice' = [invoice EXCEPT ![t.inv] = w]
           /\ DOMAIN item' = DOMAIN item
           /\ \A k \in DOMAIN item \ DOMAIN t.changed : item'[k] = item[k]
           /\ \A k \in DOMAIN t.changed :
                item'[k] \in Written(t.changed[k].old, t.changed[k].new, item[k], SetInItem(t.op))
  <1> DEFINE t == tx[c]
  <1>1. t.op \in AmountOps /\ Finish(c) /\ UNCHANGED settings
    BY DEF CommitAmounts, AmountOps
  <1>2. OnInv(t) /\ Current(t)
    BY <1>1, TxCases DEF Inv
  <1>3. DOMAIN t.changed \subseteq DOMAIN item
    BY <1>2, ItemsExist DEF OnInv, Inv
  <1>4. \E w \in Written(t.old, t.new, invoice[t.inv], {"total"}) :
          invoice' = [invoice EXCEPT ![t.inv] = w]
    BY DEF CommitAmounts
  <1>5. PICK n :
          /\ DOMAIN n = DOMAIN t.changed
          /\ \A k \in DOMAIN t.changed :
               n[k] \in Written(t.changed[k].old, t.changed[k].new, item[k], SetInItem(t.op))
          /\ item' = [k \in DOMAIN item |-> IF k \in DOMAIN n THEN n[k] ELSE item[k]]
    BY DEF CommitAmounts
  <1>6. /\ DOMAIN item' = DOMAIN item
        /\ \A k \in DOMAIN item \ DOMAIN t.changed : item'[k] = item[k]
        /\ \A k \in DOMAIN t.changed :
             item'[k] \in Written(t.changed[k].old, t.changed[k].new, item[k], SetInItem(t.op))
    BY <1>3, <1>5
  <1>7. t.read = TRUE
    BY DEF CommitAmounts
  <1>8. QED
    BY <1>1, <1>2, <1>4, <1>6, <1>7

LEMMA StatusEffect ==
    ASSUME Inv, NEW c \in Clients, CommitStatus(c)
    PROVE  LET t == tx[c] IN
           /\ t.op \in StatusOps /\ OnInv(t) /\ Finish(c) /\ UNCHANGED <<item, settings>>
           /\ \E w \in Written(t.old, t.new, invoice[t.inv], {}) :
                /\ invoice' = [invoice EXCEPT ![t.inv] = w]
                /\ w.total = invoice[t.inv].total
  <1> DEFINE t == tx[c]
  <1>1. t.op \in StatusOps /\ Finish(c) /\ UNCHANGED <<item, settings>>
    BY DEF CommitStatus, StatusOps
  <1>2. OnInv(t)
    BY <1>1, TxCases DEF Inv
  <1>3. PICK w \in Written(t.old, t.new, invoice[t.inv], {}) :
          invoice' = [invoice EXCEPT ![t.inv] = w]
    BY DEF CommitStatus
  <1>4. DOMAIN invoice[t.inv] = HeaderFields /\ t.new.total = t.old.total
    BY <1>1, <1>2 DEF OnInv, Inv, RowsOK
  <1>5. w.total = invoice[t.inv].total
    BY <1>4, WrittenRow DEF HeaderFields
  <1>6. QED
    BY <1>1, <1>2, <1>3, <1>5

(* A draft that is generated leaves the other invoices and their items.    *)
LEMMA GenerateEffect ==
    ASSUME Inv, NEW c \in Clients, CommitGenerate(c)
    PROVE  LET t == tx[c] IN
           /\ t.op = "generate" /\ OnNew(t) /\ Finish(c) /\ UNCHANGED settings
           /\ DOMAIN invoice' = DOMAIN invoice \cup {t.inv}
           /\ invoice'[t.inv] = NewInvoice(t.items)
           /\ \A i \in DOMAIN invoice : invoice'[i] = invoice[i]
           /\ DOMAIN item' = DOMAIN item \cup ItemsOf[t.inv]
           /\ \A k \in DOMAIN item : item'[k] = item[k]
           /\ \A k \in ItemsOf[t.inv] : item'[k] = t.items[k]
  <1> DEFINE t == tx[c]
  <1>1. t.op = "generate" /\ Finish(c) /\ UNCHANGED settings
    BY DEF CommitGenerate
  <1>2. OnNew(t)
    BY <1>1, TxCases DEF Inv
  <1>3. /\ invoice' = [i \in DOMAIN invoice \cup {t.inv} |->
                         IF i = t.inv THEN NewInvoice(t.items) ELSE invoice[i]]
        /\ item' = [k \in DOMAIN item \cup ItemsOf[t.inv] |->
                      IF k \in ItemsOf[t.inv] THEN t.items[k] ELSE item[k]]
    BY <1>2 DEF CommitGenerate, OnNew
  <1>4. ASSUME NEW k \in DOMAIN item
        PROVE  k \notin ItemsOf[t.inv]
    <2>1. PICK i \in DOMAIN invoice : k \in ItemsOf[i]
      BY DEF Inv, RowsOK
    <2>2. i # t.inv /\ i \in Invoices /\ t.inv \in Invoices
      BY <1>2 DEF Inv, RowsOK, OnNew
    <2>3. QED
      BY <2>1, <2>2, ItemsAssumption DEF ItemsAssumption
  <1>5. t.inv \notin DOMAIN invoice
    BY <1>2 DEF OnNew
  <1>6. QED
    BY <1>1, <1>2, <1>3, <1>4, <1>5

-----------------------------------------------------------------------------
LEMMA InvStarts == Init => Inv
  <1> SUFFICES ASSUME Init PROVE Inv
    OBVIOUS
  <1>1. PICK S \in SUBSET Invoices :
          /\ item \in Generated(UNION {ItemsOf[i] : i \in S})
          /\ invoice = [i \in S |-> NewInvoice([k \in ItemsOf[i] |-> item[k]])]
    BY DEF Init
  <1>2. ASSUME NEW T, NEW n \in Generated(T)
        PROVE  DOMAIN n = T /\ \A k \in T : DOMAIN n[k] = ItemFields
    <2>1. ASSUME NEW q, NEW p
          PROVE  /\ DOMAIN FromOrder(T, q, p) = T
                 /\ \A k \in T : DOMAIN FromOrder(T, q, p)[k] = ItemFields
      BY DEF FromOrder, NewItem, ItemFields
    <2>2. ASSUME NEW q, NEW jpy
          PROVE  /\ DOMAIN FromPurchases(T, q, jpy) = T
                 /\ \A k \in T : DOMAIN FromPurchases(T, q, jpy)[k] = ItemFields
      BY DEF FromPurchases, NewItem, ItemFields
    <2>3. \E q, x : n = FromOrder(T, q, x) \/ n = FromPurchases(T, q, x)
      BY DEF Generated
    <2>4. QED
      BY <2>1, <2>2, <2>3
  <1>3. DOMAIN item = UNION {ItemsOf[i] : i \in S} /\ \A k \in DOMAIN item : DOMAIN item[k] = ItemFields
    BY <1>1, <1>2
  <1>4. \A n : DOMAIN NewInvoice(n) = HeaderFields
    BY DEF NewInvoice, HeaderFields
  <1>5. DOMAIN invoice = S /\ \A i \in S : DOMAIN invoice[i] = HeaderFields
    BY <1>1, <1>4
  <1>6. commits = 0 /\ DOMAIN tx = Clients /\ \A c \in Clients : tx[c] = Idle
    BY DEF Init
  <1>7. \A c \in Clients : tx[c].op = "idle"
    BY <1>6 DEF Idle
  <1>8. QED
    BY <1>3, <1>5, <1>6, <1>7 DEF Inv, RowsOK, TxOK

LEMMA InvStep ==
    ASSUME Inv, [Next]_vars
    PROVE  Inv'
  <1>1. CASE UNCHANGED vars
    BY <1>1 DEF vars, rows, Inv, RowsOK, TxOK, Request, OnInv, Current, OnNew, OnSettings, InSession
  <1>2. ASSUME NEW c \in Clients, NEW t, UNCHANGED <<rows, commits>>,
               tx' = [tx EXCEPT ![c] = t],
               t = Idle \/ (Request(t) /\ t.at \in Nat /\ t.at <= commits),
               t.op = "generate" => \A d \in Clients : tx[d].op = "generate" => tx[d].inv # t.inv
        PROVE  Inv'
    <2>1. UNCHANGED <<invoice, item, settings, commits>>
      BY <1>2 DEF rows
    <2>2. RowsOK'
      BY <2>1 DEF Inv, RowsOK
    <2>3. DOMAIN tx' = Clients /\ tx'[c] = t /\ \A d \in Clients : d # c => tx'[d] = tx[d]
      BY <1>2 DEF Inv, TxOK
    <2>4. ASSUME NEW d \in Clients, tx'[d] # Idle
          PROVE  Request(tx[d])' /\ tx'[d].at \in Nat /\ tx'[d].at <= commits'
      <3>1. PICK u : u = tx'[d]
        OBVIOUS
      <3>2. Request(u) /\ u.at \in Nat /\ u.at <= commits
        BY <1>2, <2>3, <2>4, <3>1 DEF Inv, TxOK
      <3>3. Request(tx[d])'
        BY <2>1, <3>1, <3>2 DEF Request, OnInv, Current, OnNew, OnSettings, InSession
      <3>4. QED
        BY <2>1, <3>1, <3>2, <3>3
    <2>5. \A d, e \in Clients :
            tx'[d].op = "generate" /\ tx'[e].op = "generate" /\ d # e => tx'[d].inv # tx'[e].inv
      BY <1>2, <2>3 DEF Inv, TxOK
    <2>6. QED
      BY <2>2, <2>3, <2>4, <2>5 DEF Inv, TxOK
  <1>3. ASSUME NEW c \in Clients, Load(c)
        PROVE  Inv'
    <2>1. PICK t : Loads(c, t)
      BY <1>3, LoadCases
    <2>2. commits \in Nat
      BY DEF Inv, RowsOK
    <2>3. /\ UNCHANGED <<rows, commits>> /\ tx' = [tx EXCEPT ![c] = t]
          /\ Request(t) /\ t.at = commits
          /\ t.op = "generate" => \A d \in Clients : tx[d].op = "generate" => tx[d].inv # t.inv
      BY <2>1 DEF Loads, Begin
    <2>4. t.at \in Nat /\ t.at <= commits
      BY <2>2, <2>3
    <2>5. QED
      BY <1>2, <2>3, <2>4
  <1>4. ASSUME NEW c \in Clients, ReadForEdit(c)
        PROVE  Inv'
    <2> DEFINE t == tx[c]
               new == [t.new EXCEPT !.total = Total(InSession(t), ItemsOf[t.inv])]
               u == [[t EXCEPT !.read = TRUE] EXCEPT !.new = new]
    <2>1. t.op = "edit" /\ UNCHANGED <<rows, commits>>
      BY <1>4 DEF ReadForEdit
    <2>2. OnInv(t) /\ Current(t) /\ t.at \in Nat /\ t.at <= commits
      BY <2>1, TxCases DEF Inv, AmountOps
    <2>3. tx' = [tx EXCEPT ![c] = u]
      BY <1>4, <2>2 DEF ReadForEdit, OnInv, Inv, TxOK
    <2>4. /\ DOMAIN u = DOMAIN t /\ u.at = t.at /\ u.op = t.op /\ u.inv = t.inv /\ u.old = t.old
          /\ u.new = new /\ u.changed = t.changed /\ u.read = TRUE
      BY <2>2 DEF OnInv
    <2>5. DOMAIN new = HeaderFields /\ new.total = Total(InSession(t), ItemsOf[t.inv])
      BY <2>2 DEF OnInv, HeaderFields
    <2> HIDE DEF u, new
    <2>6. OnInv(u)
      BY <2>1, <2>2, <2>4, <2>5 DEF OnInv, AmountOps, StatusOps
    <2>7. InSession(u) = InSession(t)
      BY <2>4 DEF InSession
    <2>8. Current(u)
      BY <2>1, <2>2, <2>4, <2>5, <2>7 DEF Current
    <2>9. QED
      BY <1>2, <2>1, <2>2, <2>3, <2>4, <2>6, <2>8 DEF Request
  <1>5. ASSUME NEW c \in Clients, ReadForRecalculate(c)
        PROVE  Inv'
    <2> DEFINE t == tx[c]
               S == ItemsOf[t.inv]
               row(k) == [item[k] EXCEPT !.basis = UnitCost(item[k].jpy, WeightOf[k], settings)]
               changed == [k \in S |-> [old |-> item[k], new |-> row(k)]]
               new == [t.new EXCEPT !.total = Total(item, S)]
               u == [[[t EXCEPT !.read = TRUE] EXCEPT !.new = new] EXCEPT !.changed = changed]
    <2>1. t.op = "recalculate" /\ UNCHANGED <<rows, commits>>
      BY <1>5 DEF ReadForRecalculate
    <2>2. OnInv(t) /\ Current(t) /\ t.at \in Nat /\ t.at <= commits
      BY <2>1, TxCases DEF Inv, AmountOps
    <2>3. tx' = [tx EXCEPT ![c] = u]
      BY <1>5, <2>2 DEF ReadForRecalculate, OnInv, Inv, TxOK
    <2>4. /\ DOMAIN u = DOMAIN t /\ u.at = t.at /\ u.op = t.op /\ u.inv = t.inv /\ u.old = t.old
          /\ u.new = new /\ u.changed = changed /\ u.read = TRUE
      BY <2>2 DEF OnInv
    <2>5. DOMAIN new = HeaderFields /\ new.total = Total(item, S)
      BY <2>2 DEF OnInv, HeaderFields
    <2>6. \A k \in S : \A f \in {"qty", "price", "amount"} : row(k)[f] = item[k][f]
      BY <2>2, ItemsExist DEF OnInv, Inv, ItemFields
    <2>7. DOMAIN changed = S /\ \A k \in S : /\ changed[k].old = item[k]
                                             /\ changed[k].new = row(k)
      OBVIOUS
    <2> HIDE DEF u, new, changed, row
    <2>8. OnInv(u)
      BY <2>1, <2>2, <2>4, <2>5, <2>6, <2>7 DEF OnInv, AmountOps, StatusOps
    <2>9. Current(u)
      BY <2>1, <2>2, <2>4, <2>5, <2>7 DEF Current
    <2>10. QED
      BY <1>2, <2>1, <2>2, <2>3, <2>4, <2>8, <2>9 DEF Request
  <1>6. ASSUME NEW c \in Clients, Finish(c), RowsOK', DOMAIN invoice \subseteq DOMAIN invoice',
               \A i \in DOMAIN invoice' \ DOMAIN invoice : tx[c].op = "generate" /\ i = tx[c].inv
        PROVE  Inv'
    <2>1. /\ DOMAIN tx' = Clients /\ tx'[c] = Idle /\ \A d \in Clients : d # c => tx'[d] = tx[d]
          /\ commits' = commits + 1 /\ commits \in Nat
      BY <1>6 DEF Finish, Inv, TxOK, RowsOK
    <2>2. ASSUME NEW d \in Clients, tx'[d] # Idle
          PROVE  Request(tx[d])' /\ tx'[d].at \in Nat /\ tx'[d].at <= commits'
      <3>1. tx'[d] = tx[d] /\ d # c /\ tx[d] # Idle
        BY <2>1, <2>2
      <3>2. PICK u : u = tx[d]
        OBVIOUS
      <3>3. Request(u) /\ u.at \in Nat /\ u.at <= commits
        BY <3>1, <3>2 DEF Inv, TxOK
      <3>4. u.at # commits'
        BY <2>1, <3>3
      <3>5. OnInv(u) => OnInv(tx[d])' /\ Current(tx[d])'
        BY <1>6, <3>1, <3>2, <3>4 DEF OnInv, Current
      <3>6. OnNew(u) => OnNew(tx[d])'
        <4>1. u.op = "generate" /\ u.inv \in DOMAIN invoice' => u.inv \in DOMAIN invoice
          BY <1>6, <3>1, <3>2 DEF Inv, TxOK
        <4>2. QED
          BY <3>1, <3>2, <4>1 DEF OnNew
      <3>7. OnSettings(u) => OnSettings(tx[d])'
        BY <3>1, <3>2 DEF OnSettings
      <3>8. QED
        BY <2>1, <3>1, <3>2, <3>3, <3>5, <3>6, <3>7 DEF Request
    <2>3. \A d, e \in Clients :
            tx'[d].op = "generate" /\ tx'[e].op = "generate" /\ d # e => tx'[d].inv # tx'[e].inv
      BY <2>1 DEF Inv, TxOK, Idle
    <2>4. QED
      BY <1>6, <2>1, <2>2, <2>3 DEF Inv, TxOK
  <1>7. ASSUME NEW c \in Clients, CommitAmounts(c)
        PROVE  Inv'
    <2> DEFINE t == tx[c]
    <2>1. OnInv(t) /\ Finish(c)
      BY <1>7, AmountsEffect
    <2>2. PICK w \in Written(t.old, t.new, invoice[t.inv], {"total"}) :
            invoice' = [invoice EXCEPT ![t.inv] = w]
      BY <1>7, AmountsEffect
    <2>3. DOMAIN w = DOMAIN invoice[t.inv]
      BY <2>2, WrittenRow
    <2>4. DOMAIN item' = DOMAIN item /\ \A k \in DOMAIN item : DOMAIN item'[k] = DOMAIN item[k]
      <3>1. \A k \in DOMAIN t.changed : DOMAIN item'[k] = DOMAIN item[k]
        <4>1. TAKE k \in DOMAIN t.changed
        <4>2. item'[k] \in Written(t.changed[k].old, t.changed[k].new, item[k], SetInItem(t.op))
          BY <1>7, AmountsEffect
        <4>3. QED
          BY <4>2, WrittenRow
      <3>2. QED
        BY <1>7, <3>1, AmountsEffect
    <2>5. RowsOK'
      BY <2>1, <2>2, <2>3, <2>4 DEF Inv, RowsOK, Finish
    <2>6. QED
      BY <1>6, <2>1, <2>2, <2>5
  <1>8. ASSUME NEW c \in Clients, CommitStatus(c)
        PROVE  Inv'
    <2> DEFINE t == tx[c]
    <2>1. OnInv(t) /\ Finish(c) /\ UNCHANGED item
      BY <1>8, StatusEffect
    <2>2. PICK w \in Written(t.old, t.new, invoice[t.inv], {}) :
            invoice' = [invoice EXCEPT ![t.inv] = w]
      BY <1>8, StatusEffect
    <2>3. DOMAIN w = DOMAIN invoice[t.inv]
      BY <2>2, WrittenRow
    <2>4. RowsOK'
      BY <2>1, <2>2, <2>3 DEF Inv, RowsOK, Finish
    <2>5. QED
      BY <1>6, <2>1, <2>2, <2>4
  <1>9. ASSUME NEW c \in Clients, CommitGenerate(c)
        PROVE  Inv'
    <2> DEFINE t == tx[c]
    <2>1. /\ t.op = "generate" /\ OnNew(t) /\ Finish(c)
          /\ DOMAIN invoice' = DOMAIN invoice \cup {t.inv}
          /\ invoice'[t.inv] = NewInvoice(t.items)
          /\ \A i \in DOMAIN invoice : invoice'[i] = invoice[i]
          /\ DOMAIN item' = DOMAIN item \cup ItemsOf[t.inv]
          /\ \A k \in DOMAIN item : item'[k] = item[k]
          /\ \A k \in ItemsOf[t.inv] : item'[k] = t.items[k]
      BY <1>9, GenerateEffect
    <2>2. DOMAIN invoice'[t.inv] = HeaderFields
      BY <2>1 DEF NewInvoice, HeaderFields
    <2>3. \A k \in DOMAIN item' : DOMAIN item'[k] = ItemFields
      BY <2>1 DEF Inv, RowsOK, OnNew
    <2>4. DOMAIN item' = UNION {ItemsOf[i] : i \in DOMAIN invoice'}
      BY <2>1 DEF Inv, RowsOK
    <2>5. RowsOK'
      BY <2>1, <2>2, <2>3, <2>4 DEF Inv, RowsOK, OnNew, Finish
    <2>6. QED
      BY <1>6, <2>1, <2>5
  <1>10. ASSUME NEW c \in Clients, CommitSettings(c)
         PROVE  Inv'
    <2>1. Finish(c) /\ UNCHANGED <<invoice, item>>
      BY <1>10 DEF CommitSettings
    <2>2. RowsOK'
      BY <2>1 DEF Inv, RowsOK, Finish
    <2>3. QED
      BY <1>6, <2>1, <2>2
  <1>11. ASSUME NEW c \in Clients, Rollback(c)
         PROVE  Inv'
    BY <1>2, <1>11 DEF Rollback, Idle
  <1>12. QED
    BY <1>1, <1>3, <1>4, <1>5, <1>7, <1>8, <1>9, <1>10, <1>11 DEF Next, Commit

LEMMA Invariant == Spec => []Inv
  BY InvStarts, InvStep, PTL DEF Spec

-----------------------------------------------------------------------------
(* Who commits, and that nothing else changes rows.                        *)
LEMMA RowsChangeByCommit ==
    ASSUME Inv, Next
    PROVE  UNCHANGED <<rows, commits>> \/ \E c \in Clients : Commit(c)
  <1>1. PICK c \in Clients : Load(c) \/ ReadForEdit(c) \/ ReadForRecalculate(c) \/ Commit(c) \/ Rollback(c)
    BY DEF Next
  <1>2. Load(c) => UNCHANGED <<rows, commits>>
    BY LoadCases DEF Loads, Begin
  <1>3. QED
    BY <1>1, <1>2 DEF ReadForEdit, ReadForRecalculate, Rollback

LEMMA CommitFinishes ==
    ASSUME Inv, NEW c \in Clients, Commit(c)
    PROVE  Finish(c) /\ Commits(c) /\ \A d \in Clients : Commits(d) => d = c
  <1>1. Finish(c)
    BY DEF Commit, CommitAmounts, CommitStatus, CommitGenerate, CommitSettings
  <1>2. tx[c] # Idle
    BY DEF Commit, CommitAmounts, CommitStatus, CommitGenerate, CommitSettings, Idle
  <1>3. tx'[c] = Idle /\ \A d \in Clients : d # c => tx'[d] = tx[d]
    BY <1>1 DEF Finish, Inv, TxOK
  <1>4. QED
    BY <1>1, <1>2, <1>3 DEF Finish, Commits

(* A commit leaves what an invoice bills, unless it is an edit or a        *)
(* recalculation of this invoice.                                          *)
LEMMA ContentKept ==
    ASSUME Inv, NEW c \in Clients, Commit(c), NEW i \in DOMAIN invoice,
           ~(CommitAmounts(c) /\ tx[c].inv = i)
    PROVE  /\ invoice'[i].total = invoice[i].total
           /\ \A k \in ItemsOf[i] : item'[k] = item[k]
  <1> DEFINE t == tx[c]
  <1>1. \A k \in ItemsOf[i] : k \in DOMAIN item
    BY ItemsExist DEF Inv
  <1>2. CASE CommitAmounts(c)
    <2>1. OnInv(t) /\ t.inv # i
      BY <1>2, AmountsEffect
    <2>2. invoice'[i] = invoice[i]
      BY <1>2, <2>1, AmountsEffect DEF OnInv
    <2>3. ASSUME NEW k \in ItemsOf[i]
          PROVE  k \notin DOMAIN t.changed
      <3>1. i \in Invoices /\ t.inv \in Invoices /\ DOMAIN t.changed \subseteq ItemsOf[t.inv]
        BY <2>1 DEF OnInv, Inv, RowsOK
      <3>2. QED
        BY <2>1, <3>1, ItemsAssumption DEF ItemsAssumption
    <2>4. \A k \in ItemsOf[i] : item'[k] = item[k]
      BY <1>1, <1>2, <2>3, AmountsEffect
    <2>5. QED
      BY <2>2, <2>4
  <1>3. CASE CommitStatus(c)
    <2>1. UNCHANGED item /\ OnInv(t)
      BY <1>3, StatusEffect
    <2>2. PICK w : invoice' = [invoice EXCEPT ![t.inv] = w] /\ w.total = invoice[t.inv].total
      BY <1>3, StatusEffect
    <2>3. QED
      BY <2>1, <2>2 DEF OnInv
  <1>4. CASE CommitGenerate(c)
    BY <1>1, <1>4, GenerateEffect
  <1>5. CASE CommitSettings(c)
    BY <1>5 DEF CommitSettings
  <1>6. QED
    BY <1>2, <1>3, <1>4, <1>5 DEF Commit

(* What a finalized invoice bills changes only by an edit or a             *)
(* recalculation that loaded it while it was a draft.                      *)
THEOREM IssuedIsKept == Spec => IssuedChangesOnlyByStaleRequest
  <1>1. ASSUME Inv, Next, NEW i \in DOMAIN invoice, invoice[i].status = "finalized",
               Content(i)' # Content(i)
        PROVE  \E c \in Clients :
                 /\ Commits(c) /\ Stale(c)
                 /\ tx[c].op \in {"edit", "recalculate"} /\ tx[c].inv = i
                 /\ tx[c].old.status = "draft"
    <2>1. ~(invoice'[i].total = invoice[i].total /\ \A k \in ItemsOf[i] : item'[k] = item[k])
      BY <1>1 DEF Content
    <2>2. PICK c \in Clients : Commit(c)
      BY <1>1, <2>1, RowsChangeByCommit DEF rows
    <2>3. CommitAmounts(c) /\ tx[c].inv = i
      BY <1>1, <2>1, <2>2, ContentKept
    <2>4. /\ tx[c].op \in AmountOps /\ tx[c].old.status = "draft"
          /\ tx[c].at = commits => tx[c].old = invoice[i]
      BY <1>1, <2>3, AmountsEffect DEF OnInv, Current
    <2>5. Stale(c)
      BY <1>1, <2>4 DEF Stale
    <2>6. Commits(c)
      BY <1>1, <2>2, CommitFinishes
    <2>7. QED
      BY <2>3, <2>4, <2>5, <2>6 DEF AmountOps
  <1>2. ASSUME Inv, [Next]_vars
        PROVE  [\A i \in DOMAIN invoice :
                   invoice[i].status = "finalized" /\ Content(i)' # Content(i) =>
                     \E c \in Clients :
                       /\ Commits(c) /\ Stale(c)
                       /\ tx[c].op \in {"edit", "recalculate"} /\ tx[c].inv = i
                       /\ tx[c].old.status = "draft"]_vars
    BY <1>1, <1>2
  <1>3. QED
    BY <1>2, Invariant, PTL DEF Spec, IssuedChangesOnlyByStaleRequest

-----------------------------------------------------------------------------
(* An edit or a recalculation that is not stale leaves the rows it made.   *)
LEMMA FreshEffect ==
    ASSUME Inv, NEW c \in Clients, CommitAmounts(c), ~Stale(c)
    PROVE  LET t == tx[c] IN
           /\ invoice'[t.inv].total = t.new.total
           /\ \A k \in DOMAIN t.changed : item[k] = t.changed[k].old
                /\ \A f \in ItemFields : item'[k][f] = t.changed[k].new[f]
  <1> DEFINE t == tx[c]
  <1>1. OnInv(t) /\ Current(t) /\ t.at = commits
    BY AmountsEffect DEF Stale
  <1>2. t.old = invoice[t.inv] /\ \A k \in DOMAIN t.changed : t.changed[k].old = item[k]
    BY <1>1 DEF Current
  <1>3. PICK w \in Written(t.old, t.new, invoice[t.inv], {"total"}) :
          invoice' = [invoice EXCEPT ![t.inv] = w]
    BY AmountsEffect
  <1>4. w.total = t.new.total
    <2>1. "total" \in DOMAIN invoice[t.inv] /\ invoice[t.inv].total = t.old.total
      BY <1>1, <1>2 DEF OnInv, HeaderFields
    <2>2. QED
      BY <1>3, <2>1, WrittenRow
  <1>5. ASSUME NEW k \in DOMAIN t.changed
        PROVE  item[k] = t.changed[k].old /\ \A f \in ItemFields : item'[k][f] = t.changed[k].new[f]
    <2>1. DOMAIN item[k] = ItemFields
      BY <1>1, ItemsExist DEF OnInv, Inv
    <2>2. item'[k] \in Written(t.changed[k].old, t.changed[k].new, item[k], SetInItem(t.op))
      BY AmountsEffect
    <2>3. QED
      BY <1>2, <2>1, <2>2, WrittenRow
  <1>6. QED
    BY <1>1, <1>3, <1>4, <1>5 DEF OnInv

(* Totals of rows with the same amounts are the same.                      *)
LEMMA SameTotal ==
    ASSUME NEW r, NEW s, NEW S, \A k \in S : r[k].amount = s[k].amount
    PROVE  Total(r, S) = Total(s, S)
  <1>1. [k \in S |-> r[k].amount] = [k \in S |-> s[k].amount]
    OBVIOUS
  <1>2. QED
    BY <1>1 DEF Total

(* The total of an invoice stops being the sum of its items only by a      *)
(* stale edit or recalculation of this invoice.                            *)
THEOREM TotalsBalance == Spec => UnbalancedOnlyByStaleRequest
  <1>1. ASSUME Inv, Next, NEW c \in Clients, NEW i \in DOMAIN invoice,
               Commits(c), Balanced(i), ~Balanced(i)'
        PROVE  tx[c].op \in {"edit", "recalculate"} /\ tx[c].inv = i /\ Stale(c)
    <2> DEFINE t == tx[c]
    <2>1. Commit(c)
      <3>1. commits' # commits
        BY <1>1 DEF Commits, Inv, RowsOK
      <3>2. QED
        BY <1>1, <3>1, RowsChangeByCommit, CommitFinishes
    <2>2. CommitAmounts(c) /\ t.inv = i
      <3>1. SUFFICES ASSUME ~(CommitAmounts(c) /\ t.inv = i)
                     PROVE  FALSE
        OBVIOUS
      <3>2. invoice'[i].total = invoice[i].total /\ \A k \in ItemsOf[i] : item'[k] = item[k]
        BY <1>1, <2>1, <3>1, ContentKept
      <3>3. Total(item', ItemsOf[i]) = Total(item, ItemsOf[i])
        BY <3>2, SameTotal
      <3>4. QED
        BY <1>1, <3>2, <3>3 DEF Balanced
    <2>3. t.op \in AmountOps /\ t.read = TRUE /\ OnInv(t) /\ Current(t)
      BY <1>1, <2>2, AmountsEffect
    <2>4. Stale(c)
      <3> SUFFICES ASSUME ~Stale(c)
                   PROVE  FALSE
        OBVIOUS
      <3>1. /\ invoice'[i].total = t.new.total
            /\ \A k \in DOMAIN t.changed : item[k] = t.changed[k].old
                 /\ \A f \in ItemFields : item'[k][f] = t.changed[k].new[f]
        BY <1>1, <2>2, FreshEffect
      <3>2. \A k \in ItemsOf[i] : k \notin DOMAIN t.changed => item'[k] = item[k]
        BY <1>1, <2>2, AmountsEffect, ItemsExist DEF Inv
      <3>3. CASE t.op = "edit"
        <4>1. t.new.total = Total(InSession(t), ItemsOf[i])
          BY <2>2, <2>3, <3>3 DEF Current, Stale
        <4>2. \A k \in ItemsOf[i] : InSession(t)[k].amount = item'[k].amount
          BY <2>2, <3>1, <3>2 DEF InSession, ItemFields
        <4>3. Total(InSession(t), ItemsOf[i]) = Total(item', ItemsOf[i])
          BY <4>2, SameTotal
        <4>4. QED
          BY <1>1, <3>1, <4>1, <4>3 DEF Balanced
      <3>4. CASE t.op = "recalculate"
        <4>1. t.new.total = Total(item, ItemsOf[i])
          BY <2>2, <2>3, <3>4 DEF Current, Stale
        <4>2. \A k \in ItemsOf[i] : item[k].amount = item'[k].amount
          BY <2>3, <3>1, <3>2, <3>4 DEF OnInv, ItemFields
        <4>3. Total(item, ItemsOf[i]) = Total(item', ItemsOf[i])
          BY <4>2, SameTotal
        <4>4. QED
          BY <1>1, <3>1, <4>1, <4>3 DEF Balanced
      <3>5. QED
        BY <2>3, <3>3, <3>4 DEF AmountOps
    <2>5. QED
      BY <2>2, <2>3, <2>4 DEF AmountOps
  <1>2. ASSUME Inv, [Next]_vars
        PROVE  [\A c \in Clients, i \in DOMAIN invoice :
                  Commits(c) /\ Balanced(i) /\ ~Balanced(i)' =>
                    tx[c].op \in {"edit", "recalculate"} /\ tx[c].inv = i /\ Stale(c)]_vars
    BY <1>1, <1>2
  <1>3. QED
    BY <1>2, Invariant, PTL DEF Spec, UnbalancedOnlyByStaleRequest

-----------------------------------------------------------------------------
(* Rounding to a whole number moves an amount by at most half of one.      *)
LEMMA AmountRounds ==
    ASSUME NEW n \in Nat
    PROVE  /\ Amount(n) \in Int
           /\ 10 * Amount(n) - n \in -5 .. 5
  <1>1. Amount(n) = (2 * n + 10) \div 20
    BY DEF Amount, HalfUp
  <1>2. QED
    BY <1>1

LEMMA Scaled ==
    ASSUME NEW q \in Nat, NEW x \in -5 .. 5
    PROVE  q * x \in Int /\ q * x <= 5 * q /\ -(5 * q) <= q * x
  OBVIOUS

LEMMA EditFits ==
    ASSUME NEW q \in Nat, NEW p \in Nat
    PROVE  LET d == Amount(q * p) - q * Amount(p) IN 2 * d <= q + 1 /\ -2 * d <= q + 1
  <1> DEFINE a == Amount(q * p)
             b == Amount(p)
  <1>1. q * p \in Nat
    OBVIOUS
  <1>2. a \in Int /\ 10 * a - q * p \in -5 .. 5
    BY <1>1, AmountRounds
  <1>3. b \in Int /\ 10 * b - p \in -5 .. 5
    BY AmountRounds
  <1> HIDE DEF a, b
  <1>4. q * (10 * b - p) <= 5 * q /\ -(5 * q) <= q * (10 * b - p)
    BY <1>3, Scaled
  <1>5. q * (10 * b - p) = 10 * (q * b) - q * p
    BY <1>3
  <1>6. q * b \in Int
    BY <1>3
  <1>7. 2 * (a - q * b) <= q + 1 /\ -2 * (a - q * b) <= q + 1
    BY <1>1, <1>2, <1>4, <1>5, <1>6
  <1>8. QED
    BY <1>7 DEF a, b

(* Quantity, price and amount of an item come to disagree only by a stale  *)
(* edit.                                                                   *)
THEOREM EditsAreWhole == Spec => TornOnlyByStaleEdit
  <1>1. ASSUME Inv, Next, NEW c \in Clients, NEW k \in DOMAIN item,
               Commits(c), Fits(k), ~Fits(k)'
        PROVE  tx[c].op = "edit" /\ k \in DOMAIN tx[c].changed /\ Stale(c)
    <2> DEFINE t == tx[c]
    <2>1. Commit(c)
      <3>1. commits' # commits
        BY <1>1 DEF Commits, Inv, RowsOK
      <3>2. QED
        BY <1>1, <3>1, RowsChangeByCommit, CommitFinishes
    <2>2. ~(/\ item'[k].qty = item[k].qty
            /\ item'[k].price = item[k].price
            /\ item'[k].amount = item[k].amount)
      BY <1>1 DEF Fits
    <2>3. CommitAmounts(c)
      <3>1. CommitStatus(c) => item'[k] = item[k]
        BY DEF CommitStatus
      <3>2. CommitGenerate(c) => item'[k] = item[k]
        BY <1>1, GenerateEffect
      <3>3. CommitSettings(c) => item'[k] = item[k]
        BY DEF CommitSettings
      <3>4. QED
        BY <2>1, <2>2, <3>1, <3>2, <3>3 DEF Commit
    <2>4. t.op \in AmountOps /\ OnInv(t) /\ k \in DOMAIN t.changed
      BY <1>1, <2>2, <2>3, AmountsEffect
    <2>5. t.op = "edit"
      <3> SUFFICES ASSUME t.op = "recalculate"
                   PROVE  FALSE
        BY <2>4 DEF AmountOps
      <3>1. item'[k] \in Written(t.changed[k].old, t.changed[k].new, item[k], {})
        BY <1>1, <2>3, <2>4, AmountsEffect DEF SetInItem
      <3>2. \A f \in {"qty", "price", "amount"} : t.changed[k].new[f] = t.changed[k].old[f]
        BY <2>4 DEF OnInv
      <3>3. DOMAIN item[k] = ItemFields
        BY <1>1 DEF Inv, RowsOK
      <3>4. \A f \in {"qty", "price", "amount"} : item'[k][f] = item[k][f]
        BY <3>1, <3>2, <3>3, WrittenRow DEF ItemFields
      <3>5. QED
        BY <2>2, <3>4
    <2>6. Stale(c)
      <3> SUFFICES ASSUME ~Stale(c)
                   PROVE  FALSE
        OBVIOUS
      <3>1. \A f \in ItemFields : item'[k][f] = t.changed[k].new[f]
        BY <1>1, <2>3, <2>4, FreshEffect
      <3>2. PICK q \in Nat, p \in Nat :
              /\ t.changed[k].new.qty = q /\ t.changed[k].new.price = Amount(p)
              /\ t.changed[k].new.amount = Amount(q * p)
        BY <2>4, <2>5 DEF OnInv, Edited
      <3>3. item'[k].qty = q /\ item'[k].price = Amount(p) /\ item'[k].amount = Amount(q * p)
        BY <3>1, <3>2 DEF ItemFields
      <3>4. QED
        BY <1>1, <3>3, EditFits DEF Fits
    <2>7. QED
      BY <2>4, <2>5, <2>6
  <1>2. ASSUME Inv, [Next]_vars
        PROVE  [\A c \in Clients, k \in DOMAIN item :
                  Commits(c) /\ Fits(k) /\ ~Fits(k)' =>
                    tx[c].op = "edit" /\ k \in DOMAIN tx[c].changed /\ Stale(c)]_vars
    BY <1>1, <1>2
  <1>3. QED
    BY <1>2, Invariant, PTL DEF Spec, TornOnlyByStaleEdit

-----------------------------------------------------------------------------
(* Types.  Rounding and adding up give amounts again. *)
LEMMA Product ==
    ASSUME NEW m \in Nat, NEW n \in Nat
    PROVE  m * n \in Nat
  OBVIOUS

LEMMA HalfUpType ==
    ASSUME NEW n \in Nat, NEW d \in Nat \ {0}
    PROVE  HalfUp(n, d) \in Nat
  <1> DEFINE a == 2 * n + d
             b == 2 * d
  <1>1. a \in Nat /\ b \in Nat \ {0}
    OBVIOUS
  <1> HIDE DEF a, b
  <1>2. a \div b \in Nat
    BY <1>1
  <1>3. QED
    BY <1>2 DEF HalfUp, a, b

LEMMA AmountType ==
    ASSUME NEW n \in Nat
    PROVE  Amount(n) \in Nat
  BY HalfUpType DEF Amount

LEMMA UnitCostType ==
    ASSUME NEW jpy \in Costs \cup {Null}, NEW w \in Nat, NEW s \in SettingsRows,
           CostsComputable({jpy}, s)
    PROVE  UnitCost(jpy, w, s) \in Nat \cup {Null}
  <1>1. CASE jpy = Null
    BY <1>1 DEF UnitCost
  <1>2. CASE jpy # Null
    <2> DEFINE d == s.margin * s.rate
               f == s.freight * w * w * d
    <2>1. jpy \in Nat /\ s.rate \in Nat \ {0} /\ s.margin \in Nat \ {0} /\ s.freight \in Nat
      BY <1>2, NumbersAssumption DEF CostsComputable, SettingsRows, NumbersAssumption
    <2>2. d \in Nat \ {0}
      <3>1. \A m, n \in Nat \ {0} : m * n \in Nat \ {0}
        OBVIOUS
      <3>2. QED
        BY <2>1, <3>1
    <2> HIDE DEF d
    <2>3. s.freight * w \in Nat
      BY <2>1, Product
    <2>4. s.freight * w * w \in Nat
      BY <2>3, Product
    <2>5. f \in Nat
      BY <2>2, <2>4, Product
    <2> HIDE DEF f
    <2>6. HalfUp(jpy + f, d) \in Nat
      BY <2>1, <2>2, <2>5, HalfUpType
    <2>7. QED
      BY <1>2, <2>6 DEF UnitCost, d, f
  <1>3. QED
    BY <1>1, <1>2

LEMMA TotalType ==
    ASSUME NEW i \in Invoices, NEW row, \A k \in ItemsOf[i] : row[k] \in ItemRows
    PROVE  Total(row, ItemsOf[i]) \in Nat
  <1> DEFINE f == [k \in ItemsOf[i] |-> row[k].amount]
  <1>1. IsFiniteSet(DOMAIN f)
    BY FiniteAssumption DEF FiniteAssumption
  <1>2. \A k \in DOMAIN f : f[k] \in Nat
    BY DEF ItemRows
  <1> HIDE DEF f
  <1>3. SumFunction(f) \in Nat
    BY <1>1, <1>2, SumIsNat
  <1>4. QED
    BY <1>3 DEF Total, f

LEMMA GeneratedType ==
    ASSUME settings \in SettingsRows, NEW S \in SUBSET Items, NEW new \in Generated(S)
    PROVE  DOMAIN new = S /\ \A k \in S : new[k] \in ItemRows
  <1>1. ASSUME NEW q \in Quantities, NEW p \in Nat, NEW jpy \in Costs \cup {Null}, NEW b \in Nat \cup {Null}
        PROVE  NewItem(q, p, jpy, b) \in ItemRows
    <2>1. q \in Nat /\ q * p \in Nat
      BY NumbersAssumption, Product DEF NumbersAssumption
    <2>2. QED
      BY <2>1 DEF NewItem, ItemRows
  <1>2. PICK q \in [S -> Quantities \ {0}] :
          \/ \E p \in Prices : new = FromOrder(S, q, p)
          \/ \E jpy \in [S -> Costs \cup {Null}] :
               CostsComputable({jpy[k] : k \in S}, settings) /\ new = FromPurchases(S, q, jpy)
    BY DEF Generated
  <1>3. ASSUME NEW p \in Prices, new = FromOrder(S, q, p)
        PROVE  DOMAIN new = S /\ \A k \in S : new[k] \in ItemRows
    <2>1. Amount(p) \in Nat
      BY AmountType, NumbersAssumption DEF NumbersAssumption
    <2>2. \A k \in S : NewItem(q[k], Amount(p), Null, Null) \in ItemRows
      BY <1>1, <2>1
    <2>3. QED
      BY <1>3, <2>2 DEF FromOrder
  <1>4. ASSUME NEW jpy \in [S -> Costs \cup {Null}], CostsComputable({jpy[k] : k \in S}, settings),
               new = FromPurchases(S, q, jpy)
        PROVE  DOMAIN new = S /\ \A k \in S : new[k] \in ItemRows
    <2>1. ASSUME NEW k \in S
          PROVE  NewItem(q[k], AutoPrice(jpy[k]), jpy[k], UnitCost(jpy[k], WeightOf[k], settings)) \in ItemRows
      <3>1. AutoPrice(jpy[k]) \in Nat
        <4>1. CASE jpy[k] = Null
          BY <4>1 DEF AutoPrice
        <4>2. CASE jpy[k] # Null
          <5>1. jpy[k] \in Costs
            BY <4>2
          <5>2. jpy[k] \in Nat
            BY <5>1, NumbersAssumption DEF NumbersAssumption
          <5>3. HalfUp(jpy[k] + 100000, 15) \in Nat
            BY <5>2, HalfUpType
          <5>4. QED
            BY <4>2, <5>3 DEF AutoPrice
        <4>3. QED
          BY <4>1, <4>2
      <3>2. UnitCost(jpy[k], WeightOf[k], settings) \in Nat \cup {Null}
        <4>1. CostsComputable({jpy[k]}, settings)
          BY <1>4 DEF CostsComputable
        <4>2. WeightOf[k] \in Nat
          BY NumbersAssumption DEF NumbersAssumption
        <4>3. QED
          BY <4>1, <4>2, UnitCostType
      <3>3. QED
        BY <1>1, <3>1, <3>2
    <2>2. QED
      BY <1>4, <2>1 DEF FromPurchases
  <1>5. QED
    BY <1>2, <1>3, <1>4

(* A row that is written column by column has the type of its columns. *)
LEMMA WrittenTypes ==
    ASSUME NEW old, NEW new, NEW row, NEW maybe, NEW w \in Written(old, new, row, maybe)
    PROVE  /\ new \in InvoiceRows /\ row \in InvoiceRows => w \in InvoiceRows
           /\ new \in ItemRows /\ row \in ItemRows => w \in ItemRows
           /\ new \in SettingsRows /\ row \in SettingsRows => w \in SettingsRows
  <1>1. w = [f \in DOMAIN row |-> w[f]] /\ \A f \in DOMAIN row : w[f] \in {new[f], row[f]}
    BY DEF Written
  <1>2. ASSUME new \in InvoiceRows, row \in InvoiceRows
        PROVE  w \in InvoiceRows
    <2>1. DOMAIN row = {"status", "locked", "total"}
      BY <1>2 DEF InvoiceRows
    <2>2. w = [status |-> w.status, locked |-> w.locked, total |-> w.total]
      BY <1>1, <2>1
    <2>3. w.status \in {"draft", "finalized"} /\ w.locked \in BOOLEAN /\ w.total \in Nat
      BY <1>1, <1>2, <2>1 DEF InvoiceRows
    <2>4. QED
      BY <2>2, <2>3 DEF InvoiceRows
  <1>3. ASSUME new \in ItemRows, row \in ItemRows
        PROVE  w \in ItemRows
    <2>1. DOMAIN row = {"qty", "price", "amount", "basis", "jpy"}
      BY <1>3 DEF ItemRows
    <2>2. w = [qty |-> w.qty, price |-> w.price, amount |-> w.amount, basis |-> w.basis, jpy |-> w.jpy]
      BY <1>1, <2>1
    <2>3. /\ w.qty \in Nat /\ w.price \in Nat /\ w.amount \in Nat
          /\ w.basis \in Nat \cup {Null} /\ w.jpy \in Costs \cup {Null}
      BY <1>1, <1>3, <2>1 DEF ItemRows
    <2>4. QED
      BY <2>2, <2>3 DEF ItemRows
  <1>4. ASSUME new \in SettingsRows, row \in SettingsRows
        PROVE  w \in SettingsRows
    <2>1. DOMAIN row = {"rate", "margin", "freight"}
      BY <1>4 DEF SettingsRows
    <2>2. w = [rate |-> w.rate, margin |-> w.margin, freight |-> w.freight]
      BY <1>1, <2>1
    <2>3. w.rate \in Nat \ {0} /\ w.margin \in Nat /\ w.freight \in Nat
      BY <1>1, <1>4, <2>1 DEF SettingsRows
    <2>4. QED
      BY <2>2, <2>3 DEF SettingsRows
  <1>5. QED
    BY <1>2, <1>3, <1>4

TypedRows ==
    /\ \A i \in DOMAIN invoice : invoice[i] \in InvoiceRows
    /\ \A k \in DOMAIN item : item[k] \in ItemRows
    /\ settings \in SettingsRows

TypedTx(t) ==
    /\ t.op \in AmountOps \cup StatusOps =>
         /\ t.old \in InvoiceRows /\ t.new \in InvoiceRows
         /\ \A k \in DOMAIN t.changed : t.changed[k].old \in ItemRows /\ t.changed[k].new \in ItemRows
    /\ t.op = "generate" => \A k \in ItemsOf[t.inv] : t.items[k] \in ItemRows
    /\ t.op = "settings" => t.old \in SettingsRows /\ t.new \in SettingsRows

Typed == TypedRows /\ \A c \in Clients : TypedTx(tx[c])

LEMMA LoadTyped ==
    ASSUME Inv, Typed, NEW c \in Clients, Load(c)
    PROVE  \E t : tx' = [tx EXCEPT ![c] = t] /\ UNCHANGED <<rows, commits>> /\ TypedTx(t)
  <1>1. ASSUME NEW t, Begin(c, t), TypedTx(t)
        PROVE  \E u : tx' = [tx EXCEPT ![c] = u] /\ UNCHANGED <<rows, commits>> /\ TypedTx(u)
    BY <1>1 DEF Begin
  <1>2. ASSUME NEW op \in AmountOps \cup StatusOps, NEW i \in DOMAIN invoice,
               NEW new \in InvoiceRows, NEW changed,
               \A k \in DOMAIN changed : changed[k].old \in ItemRows /\ changed[k].new \in ItemRows
        PROVE  TypedTx(OnInvoice(op, i, new, changed))
    <2> DEFINE t == OnInvoice(op, i, new, changed)
    <2>1. t.op = op /\ t.old = invoice[i] /\ t.new = new /\ t.changed = changed
      BY DEF OnInvoice
    <2>2. invoice[i] \in InvoiceRows /\ op \notin {"generate", "settings"}
      BY DEF Typed, TypedRows, AmountOps, StatusOps
    <2> HIDE DEF t
    <2>3. TypedTx(t)
      BY <1>2, <2>1, <2>2 DEF TypedTx
    <2>4. QED
      BY <2>3 DEF t
  <1>3. ASSUME NEW i \in Invoices, NEW k \in ItemsOf[i], NEW q \in Quantities, NEW p \in Prices,
               LoadEdit(c, i, k, q, p)
        PROVE  \E t : Begin(c, t) /\ TypedTx(t)
    <2> DEFINE new == [item[k] EXCEPT !.qty = q, !.price = Amount(p), !.amount = Amount(q * p)]
               changed == Change(k, new)
    <2>1. i \in DOMAIN invoice /\ Begin(c, OnInvoice("edit", i, invoice[i], changed))
      BY <1>3 DEF LoadEdit
    <2>2. item[k] \in ItemRows
      BY <2>1, ItemsExist DEF Inv, Typed, TypedRows
    <2>3. q \in Nat /\ Amount(p) \in Nat /\ Amount(q * p) \in Nat
      <3>1. q \in Nat /\ p \in Nat
        BY NumbersAssumption DEF NumbersAssumption
      <3>2. q * p \in Nat
        BY <3>1, Product
      <3>3. QED
        BY <3>1, <3>2, AmountType
    <2>4. new \in ItemRows
      BY <2>2, <2>3 DEF ItemRows
    <2> HIDE DEF new
    <2>5. \A x \in DOMAIN changed : changed[x].old \in ItemRows /\ changed[x].new \in ItemRows
      BY <2>2, <2>4 DEF Change
    <2> HIDE DEF changed
    <2>6. invoice[i] \in InvoiceRows /\ "edit" \in AmountOps
      BY <2>1 DEF Typed, TypedRows, AmountOps
    <2>7. QED
      BY <1>2, <2>1, <2>5, <2>6
  <1>4. ASSUME NEW i \in Invoices,
               \/ LoadRecalculate(c, i) \/ LoadFinalize(c, i) \/ LoadReset(c, i) \/ LoadUnlock(c, i)
        PROVE  \E t : Begin(c, t) /\ TypedTx(t)
    <2>1. i \in DOMAIN invoice
      BY <1>4 DEF LoadRecalculate, LoadFinalize, LoadReset, LoadUnlock
    <2>2. invoice[i] \in InvoiceRows
      BY <2>1 DEF Typed, TypedRows
    <2>3. ASSUME NEW op \in AmountOps \cup StatusOps, NEW new \in InvoiceRows
          PROVE  TypedTx(OnInvoice(op, i, new, <<>>))
      BY <1>2, <2>1
    <2>4. /\ [[invoice[i] EXCEPT !.status = "finalized"] EXCEPT !.locked = TRUE] \in InvoiceRows
          /\ [[invoice[i] EXCEPT !.status = "draft"] EXCEPT !.locked = FALSE] \in InvoiceRows
          /\ [invoice[i] EXCEPT !.locked = FALSE] \in InvoiceRows
      BY <2>2 DEF InvoiceRows
    <2>5. CASE LoadRecalculate(c, i)
      BY <2>2, <2>3, <2>5 DEF LoadRecalculate, AmountOps
    <2>6. CASE LoadFinalize(c, i)
      BY <2>3, <2>4, <2>6 DEF LoadFinalize, StatusOps
    <2>7. CASE LoadReset(c, i)
      BY <2>3, <2>4, <2>7 DEF LoadReset, StatusOps
    <2>8. CASE LoadUnlock(c, i)
      BY <2>3, <2>4, <2>8 DEF LoadUnlock, StatusOps
    <2>9. QED
      BY <1>4, <2>5, <2>6, <2>7, <2>8
  <1>5. ASSUME NEW i \in Invoices, NEW new \in Generated(ItemsOf[i]), LoadGenerate(c, i, new)
        PROVE  \E t : Begin(c, t) /\ TypedTx(t)
    <2> DEFINE t == [at |-> commits, op |-> "generate", inv |-> i, items |-> new]
    <2>1. Begin(c, t)
      BY <1>5 DEF LoadGenerate
    <2>2. ItemsOf[i] \in SUBSET Items
      BY DEF Items
    <2>3. \A k \in ItemsOf[i] : new[k] \in ItemRows
      BY <2>2, GeneratedType DEF Typed, TypedRows
    <2>4. TypedTx(t)
      BY <2>3 DEF TypedTx, AmountOps, StatusOps
    <2>5. QED
      BY <2>1, <2>4
  <1>6. ASSUME NEW s \in Settings, LoadSettings(c, s)
        PROVE  \E t : Begin(c, t) /\ TypedTx(t)
    <2> DEFINE t == [at |-> commits, op |-> "settings", old |-> settings, new |-> s]
    <2>1. s \in SettingsRows
      BY SettingsAssumption DEF SettingsAssumption, SettingsRows
    <2>2. Begin(c, t) /\ TypedTx(t)
      BY <1>6, <2>1 DEF LoadSettings, TypedTx, AmountOps, StatusOps, Typed, TypedRows
    <2>3. QED
      BY <2>2
  <1>7. QED
    BY <1>1, <1>3, <1>4, <1>5, <1>6 DEF Load

LEMMA TypedStep ==
    ASSUME Inv, Typed, [Next]_vars
    PROVE  Typed'
  <1>1. DOMAIN tx = Clients
    BY DEF Inv, TxOK
  <1>2. ASSUME NEW c \in Clients, NEW t, tx' = [tx EXCEPT ![c] = t], TypedTx(t), TypedRows'
        PROVE  Typed'
    <2>1. \A d \in Clients : TypedTx(tx'[d])
      BY <1>1, <1>2 DEF Typed
    <2>2. \A d \in Clients : TypedTx(tx[d])'
      BY <2>1 DEF TypedTx
    <2>3. QED
      BY <1>2, <2>2 DEF Typed
  <1>3. UNCHANGED rows => TypedRows'
    BY DEF rows, Typed, TypedRows
  <1>4. TypedTx(Idle)
    BY DEF TypedTx, Idle, AmountOps, StatusOps
  <1>5. CASE UNCHANGED vars
    BY <1>5 DEF vars, rows, Typed, TypedRows, TypedTx
  <1>6. ASSUME NEW c \in Clients, Load(c)
        PROVE  Typed'
    BY <1>2, <1>3, <1>6, LoadTyped
  <1>7. ASSUME NEW c \in Clients, ReadForEdit(c)
        PROVE  Typed'
    <2> DEFINE t == tx[c]
               total == Total(InSession(t), ItemsOf[t.inv])
               new == [t.new EXCEPT !.total = total]
               u == [[t EXCEPT !.read = TRUE] EXCEPT !.new = new]
    <2>1. t.op = "edit" /\ UNCHANGED rows
      BY <1>7 DEF ReadForEdit
    <2>2. OnInv(t) /\ TypedTx(t) /\ t.inv \in Invoices
      BY <2>1, TxCases DEF Inv, AmountOps, Typed, OnInv, RowsOK
    <2>3. tx' = [tx EXCEPT ![c] = u]
      BY <1>1, <1>7, <2>2 DEF ReadForEdit, OnInv
    <2>4. u.op = t.op /\ u.old = t.old /\ u.new = new /\ u.changed = t.changed
      BY <2>2 DEF OnInv
    <2>5. \A k \in ItemsOf[t.inv] : InSession(t)[k] \in ItemRows
      <3>1. \A k \in ItemsOf[t.inv] : item[k] \in ItemRows
        BY <2>2, ItemsExist DEF OnInv, Inv, Typed, TypedRows
      <3>2. QED
        BY <2>1, <2>2, <3>1 DEF InSession, TypedTx, AmountOps
    <2>6. total \in Nat
      BY <2>2, <2>5, TotalType
    <2> HIDE DEF u, total
    <2>7. new \in InvoiceRows
      BY <2>1, <2>2, <2>6 DEF TypedTx, AmountOps, InvoiceRows
    <2>8. TypedTx(u)
      BY <2>1, <2>2, <2>4, <2>7 DEF TypedTx, AmountOps, StatusOps
    <2>9. QED
      BY <1>2, <1>3, <2>1, <2>3, <2>8
  <1>8. ASSUME NEW c \in Clients, ReadForRecalculate(c)
        PROVE  Typed'
    <2> DEFINE t == tx[c]
               S == ItemsOf[t.inv]
               row(k) == [item[k] EXCEPT !.basis = UnitCost(item[k].jpy, WeightOf[k], settings)]
               changed == [k \in S |-> [old |-> item[k], new |-> row(k)]]
               total == Total(item, S)
               new == [t.new EXCEPT !.total = total]
               u == [[[t EXCEPT !.read = TRUE] EXCEPT !.new = new] EXCEPT !.changed = changed]
    <2>1. t.op = "recalculate" /\ UNCHANGED rows /\ CostsComputable({item[k].jpy : k \in S}, settings)
      BY <1>8 DEF ReadForRecalculate
    <2>2. OnInv(t) /\ TypedTx(t) /\ t.inv \in Invoices
      BY <2>1, TxCases DEF Inv, AmountOps, Typed, OnInv, RowsOK
    <2>3. tx' = [tx EXCEPT ![c] = u]
      BY <1>1, <1>8, <2>2 DEF ReadForRecalculate, OnInv
    <2>4. u.op = t.op /\ u.old = t.old /\ u.new = new /\ u.changed = changed
      BY <2>2 DEF OnInv
    <2>5. \A k \in S : item[k] \in ItemRows /\ k \in Items
      BY <2>2, ItemsExist DEF OnInv, Inv, Typed, TypedRows, Items
    <2>6. total \in Nat
      BY <2>2, <2>5, TotalType
    <2>7. \A k \in S : row(k) \in ItemRows
      <3>1. ASSUME NEW k \in S
            PROVE  UnitCost(item[k].jpy, WeightOf[k], settings) \in Nat \cup {Null}
        <4>1. item[k].jpy \in Costs \cup {Null} /\ CostsComputable({item[k].jpy}, settings)
          BY <2>1, <2>5 DEF ItemRows, CostsComputable
        <4>2. WeightOf[k] \in Nat /\ settings \in SettingsRows
          BY <2>5, NumbersAssumption DEF NumbersAssumption, Typed, TypedRows
        <4>3. QED
          BY <4>1, <4>2, UnitCostType
      <3>2. QED
        BY <2>5, <3>1 DEF ItemRows
    <2> HIDE DEF row
    <2>8. \A k \in DOMAIN changed : changed[k].old \in ItemRows /\ changed[k].new \in ItemRows
      BY <2>5, <2>7
    <2> HIDE DEF u, total, changed
    <2>9. new \in InvoiceRows
      BY <2>1, <2>2, <2>6 DEF TypedTx, AmountOps, InvoiceRows
    <2>10. TypedTx(u)
      BY <2>1, <2>2, <2>4, <2>8, <2>9 DEF TypedTx, AmountOps, StatusOps
    <2>11. QED
      BY <1>2, <1>3, <2>1, <2>3, <2>10
  <1>9. ASSUME NEW c \in Clients, Finish(c), TypedRows'
        PROVE  Typed'
    BY <1>2, <1>4, <1>9 DEF Finish
  <1>10. ASSUME NEW c \in Clients, CommitAmounts(c)
         PROVE  Typed'
    <2> DEFINE t == tx[c]
    <2>1. t.op \in AmountOps /\ OnInv(t) /\ TypedTx(t) /\ Finish(c) /\ UNCHANGED settings
      BY <1>10, AmountsEffect DEF Typed
    <2>2. PICK w \in Written(t.old, t.new, invoice[t.inv], {"total"}) :
            invoice' = [invoice EXCEPT ![t.inv] = w]
      BY <1>10, AmountsEffect
    <2>3. w \in InvoiceRows
      BY <2>1, <2>2, WrittenTypes DEF OnInv, TypedTx, Typed, TypedRows
    <2>4. ASSUME NEW k \in DOMAIN item'
          PROVE  item'[k] \in ItemRows
      <3>1. k \in DOMAIN item /\ item[k] \in ItemRows
        BY <1>10, AmountsEffect DEF Typed, TypedRows
      <3>2. CASE k \in DOMAIN t.changed
        <4>1. item'[k] \in Written(t.changed[k].old, t.changed[k].new, item[k], SetInItem(t.op))
          BY <1>10, <3>2, AmountsEffect
        <4>2. t.changed[k].new \in ItemRows
          BY <2>1, <3>2 DEF TypedTx
        <4>3. QED
          BY <3>1, <4>1, <4>2, WrittenTypes
      <3>3. CASE k \notin DOMAIN t.changed
        BY <1>10, <3>1, <3>3, AmountsEffect
      <3>4. QED
        BY <3>2, <3>3
    <2>5. TypedRows'
      BY <2>1, <2>2, <2>3, <2>4 DEF Typed, TypedRows
    <2>6. QED
      BY <1>9, <2>1, <2>5
  <1>11. ASSUME NEW c \in Clients, CommitStatus(c)
         PROVE  Typed'
    <2> DEFINE t == tx[c]
    <2>1. t.op \in StatusOps /\ OnInv(t) /\ TypedTx(t) /\ Finish(c) /\ UNCHANGED <<item, settings>>
      BY <1>11, StatusEffect DEF Typed
    <2>2. PICK w \in Written(t.old, t.new, invoice[t.inv], {}) :
            invoice' = [invoice EXCEPT ![t.inv] = w]
      BY <1>11, StatusEffect
    <2>3. w \in InvoiceRows
      BY <2>1, <2>2, WrittenTypes DEF OnInv, TypedTx, Typed, TypedRows
    <2>4. TypedRows'
      BY <2>1, <2>2, <2>3 DEF Typed, TypedRows
    <2>5. QED
      BY <1>9, <2>1, <2>4
  <1>12. ASSUME NEW c \in Clients, CommitGenerate(c)
         PROVE  Typed'
    <2> DEFINE t == tx[c]
    <2>1. /\ t.op = "generate" /\ OnNew(t) /\ Finish(c) /\ UNCHANGED settings
          /\ DOMAIN invoice' = DOMAIN invoice \cup {t.inv}
          /\ invoice'[t.inv] = NewInvoice(t.items)
          /\ \A i \in DOMAIN invoice : invoice'[i] = invoice[i]
          /\ DOMAIN item' = DOMAIN item \cup ItemsOf[t.inv]
          /\ \A k \in DOMAIN item : item'[k] = item[k]
          /\ \A k \in ItemsOf[t.inv] : item'[k] = t.items[k]
      BY <1>12, GenerateEffect
    <2>2. \A k \in ItemsOf[t.inv] : t.items[k] \in ItemRows
      BY <2>1 DEF Typed, TypedTx
    <2>3. NewInvoice(t.items) \in InvoiceRows
      <3>1. DOMAIN t.items = ItemsOf[t.inv] /\ t.inv \in Invoices
        BY <2>1 DEF OnNew
      <3>2. Total(t.items, DOMAIN t.items) \in Nat
        BY <2>2, <3>1, TotalType
      <3>3. QED
        BY <3>2 DEF NewInvoice, InvoiceRows
    <2>4. TypedRows'
      BY <2>1, <2>2, <2>3 DEF Typed, TypedRows
    <2>5. QED
      BY <1>9, <2>1, <2>4
  <1>13. ASSUME NEW c \in Clients, CommitSettings(c)
         PROVE  Typed'
    <2>1. tx[c].op = "settings" /\ TypedTx(tx[c]) /\ Finish(c) /\ UNCHANGED <<invoice, item>>
      BY <1>13 DEF CommitSettings, Typed
    <2>2. settings' \in Written(tx[c].old, tx[c].new, settings, {})
      BY <1>13 DEF CommitSettings
    <2>3. settings' \in SettingsRows
      BY <2>1, <2>2, WrittenTypes DEF TypedTx, Typed, TypedRows
    <2>4. QED
      BY <1>9, <2>1, <2>3 DEF Typed, TypedRows
  <1>14. ASSUME NEW c \in Clients, Rollback(c)
         PROVE  Typed'
    BY <1>2, <1>3, <1>4, <1>14 DEF Rollback
  <1>15. QED
    BY <1>5, <1>6, <1>7, <1>8, <1>10, <1>11, <1>12, <1>13, <1>14 DEF Next, Commit

LEMMA TypedStarts == Init => Typed
  <1> SUFFICES ASSUME Init PROVE Typed
    OBVIOUS
  <1>1. settings \in SettingsRows
    BY SettingsAssumption DEF Init, SettingsAssumption, SettingsRows
  <1>2. PICK S \in SUBSET Invoices :
          /\ item \in Generated(UNION {ItemsOf[i] : i \in S})
          /\ invoice = [i \in S |-> NewInvoice([k \in ItemsOf[i] |-> item[k]])]
    BY DEF Init
  <1> DEFINE T == UNION {ItemsOf[i] : i \in S}
  <1>3. DOMAIN item = T /\ \A k \in T : item[k] \in ItemRows
    <2>1. T \in SUBSET Items
      BY DEF Items
    <2> HIDE DEF T
    <2>2. item \in Generated(T)
      BY <1>2 DEF T
    <2>3. QED
      BY <1>1, <2>1, <2>2, GeneratedType
  <1>4. ASSUME NEW i \in S
        PROVE  invoice[i] \in InvoiceRows
    <2> DEFINE new == [k \in ItemsOf[i] |-> item[k]]
    <2>1. DOMAIN new = ItemsOf[i] /\ \A k \in ItemsOf[i] : new[k] \in ItemRows
      BY <1>3
    <2>2. invoice[i] = NewInvoice(new)
      BY <1>2
    <2> HIDE DEF new
    <2>3. Total(new, DOMAIN new) \in Nat
      BY <2>1, TotalType
    <2>4. QED
      BY <2>2, <2>3 DEF NewInvoice, InvoiceRows
  <1>5. TypedRows
    BY <1>1, <1>2, <1>3, <1>4 DEF TypedRows
  <1>6. \A c \in Clients : TypedTx(tx[c])
    BY DEF Init, Idle, TypedTx, AmountOps, StatusOps
  <1>7. QED
    BY <1>5, <1>6 DEF Typed

-----------------------------------------------------------------------------
(* The bound of the requests that commit or are in flight. *)
InFlight == {d \in Clients : tx[d] # Idle}

Budget == commits + Cardinality(InFlight) <= MaxCommits

LEMMA BudgetStep ==
    ASSUME Inv, Budget, [Next]_vars
    PROVE  Budget'
  <1>1. IsFiniteSet(InFlight) /\ Cardinality(InFlight) \in Nat
    BY FiniteAssumption, FS_Subset, FS_CardinalityType DEF FiniteAssumption, InFlight
  <1>2. DOMAIN tx = Clients /\ commits \in Nat
    BY DEF Inv, TxOK, RowsOK
  <1>3. CASE UNCHANGED vars
    BY <1>3 DEF vars, Budget, InFlight
  <1>4. ASSUME NEW c \in Clients, Load(c)
        PROVE  Budget'
    <2>1. PICK t : Loads(c, t)
      BY <1>4, LoadCases
    <2>2. /\ tx[c] = Idle /\ t # Idle /\ tx' = [tx EXCEPT ![c] = t] /\ commits' = commits
          /\ commits + Cardinality(InFlight) < MaxCommits
      BY <2>1 DEF Loads, Begin, InFlight, Idle
    <2>3. InFlight' = InFlight \cup {c} /\ c \notin InFlight
      BY <1>2, <2>2 DEF InFlight
    <2>4. Cardinality(InFlight') = Cardinality(InFlight) + 1
      BY <1>1, <2>3, FS_AddElement
    <2>5. QED
      BY <1>1, <1>2, <2>2, <2>4, BoundAssumption DEF Budget, BoundAssumption
  <1>5. ASSUME NEW c \in Clients, ReadForEdit(c) \/ ReadForRecalculate(c)
        PROVE  Budget'
    <2>1. /\ tx[c].op \in AmountOps /\ UNCHANGED commits
          /\ \A d \in Clients \ {c} : tx'[d] = tx[d]
          /\ DOMAIN tx' = DOMAIN tx
      BY <1>2, <1>5 DEF ReadForEdit, ReadForRecalculate, AmountOps
    <2>2. DOMAIN tx[c] = {"at", "op", "inv", "old", "new", "changed", "read"} /\ tx[c] # Idle
      BY <2>1, TxCases DEF Inv, OnInv, AmountOps
    <2>3. tx'[c].op = tx[c].op
      BY <1>2, <1>5, <2>2 DEF ReadForEdit, ReadForRecalculate
    <2>4. tx'[c] # Idle
      BY <2>1, <2>3 DEF Idle, AmountOps
    <2>5. InFlight' = InFlight
      BY <2>1, <2>2, <2>4 DEF InFlight
    <2>6. QED
      BY <2>1, <2>5 DEF Budget
  <1>6. ASSUME NEW c \in Clients, tx' = [tx EXCEPT ![c] = Idle], tx[c] # Idle
        PROVE  Cardinality(InFlight') = Cardinality(InFlight) - 1
    <2>1. InFlight' = InFlight \ {c} /\ c \in InFlight
      BY <1>2, <1>6 DEF InFlight
    <2>2. QED
      BY <1>1, <2>1, FS_RemoveElement
  <1>7. ASSUME NEW c \in Clients, Commit(c)
        PROVE  Budget'
    <2>1. tx' = [tx EXCEPT ![c] = Idle] /\ commits' = commits + 1 /\ tx[c] # Idle
      BY <1>7, CommitFinishes DEF Finish, Commits
    <2>2. Cardinality(InFlight') = Cardinality(InFlight) - 1
      BY <1>6, <2>1
    <2>3. QED
      BY <1>1, <1>2, <2>1, <2>2, BoundAssumption DEF Budget, BoundAssumption
  <1>8. ASSUME NEW c \in Clients, Rollback(c)
        PROVE  Budget'
    <2>1. Cardinality(InFlight') = Cardinality(InFlight) - 1 /\ commits' = commits
      BY <1>6, <1>8 DEF Rollback
    <2>2. QED
      BY <1>1, <1>2, <2>1, BoundAssumption DEF Budget, BoundAssumption
  <1>9. QED
    BY <1>3, <1>4, <1>5, <1>7, <1>8 DEF Next

LEMMA BudgetStarts == Init => Budget
  <1> SUFFICES ASSUME Init PROVE Budget
    OBVIOUS
  <1>1. InFlight = {}
    BY DEF Init, InFlight
  <1>2. QED
    BY <1>1, FS_EmptySet, BoundAssumption DEF Init, Budget, BoundAssumption

(* Every row holds values of its columns: amounts, costs and totals stay   *)
(* non-negative whole cents, whatever was rounded on the way               *)
(* (routes_invoices.py, core/invoice_pricing.py).                          *)
THEOREM TypeCorrect == Spec => []TypeOK
  <1>1. ASSUME Inv, Typed, Budget
        PROVE  TypeOK
    <2>1. \A c \in Clients :
            tx[c].op \in {"idle", "edit", "recalculate", "generate", "finalize", "reset", "unlock", "settings"}
      BY <1>1 DEF Inv, TxOK, Request, OnInv, OnNew, OnSettings, Idle, AmountOps, StatusOps
    <2>2. Cardinality(InFlight) \in Nat
      BY FiniteAssumption, FS_Subset, FS_CardinalityType DEF FiniteAssumption, InFlight
    <2>3. commits \in 0 .. MaxCommits
      BY <1>1, <2>2, BoundAssumption DEF Inv, RowsOK, Budget, BoundAssumption
    <2>4. QED
      BY <1>1, <2>1, <2>3 DEF TypeOK, Inv, RowsOK, Typed, TypedRows
  <1>2. QED
    BY <1>1, InvStarts, InvStep, TypedStarts, TypedStep, BudgetStarts, BudgetStep, PTL DEF Spec

=============================================================================
