----------------------------- MODULE MasterData -----------------------------
(***************************************************************************)
(* Products, suppliers and customers, and the supplier-product mappings:   *)
(* single-row requests, bulk requests on products and the import of rows   *)
(* (routes_products.py, routes_suppliers.py, routes_customers.py,          *)
(* routes_supplier_product_mappings.py, core/codegen.py).                  *)
(*                                                                         *)
(* A single-row request loads and checks, and writes and commits later.  A *)
(* batch handles its items one after the other in one transaction: it      *)
(* looks an item up, then flushes it, and holds what it flushed until it   *)
(* commits.  An import gives every item a savepoint and reports the item   *)
(* that fails; the bulk requests fail as a whole.                          *)
(*                                                                         *)
(* A code is an integer: n > 0 is PREFIX-n as generate_next_code formats   *)
(* it, -n stands for another spelling of the same number (SKU-7), which    *)
(* bulk requests may send.  Orders, allocations and results that refer to  *)
(* a row are not kept apart.                                               *)
(***************************************************************************)
EXTENDS Integers, Sequences, FiniteSets, FiniteSetsExt, Functions

CONSTANTS
    Ids,            \* rows that may exist
    TableOf,        \* the table of each: "products", "suppliers" or "customers"
    Keys,           \* import keys
    Names,          \* what a row says otherwise
    Starts,         \* what the tables may hold at first: [row, mapping, used]
    Batches,        \* what imports and bulk requests ask: [kind, table, items]
    Ranks,          \* the places a mapping may have in the order of preference
    Clients,        \* requests served at the same time
    Null,
    LeftOut,        \* a field that a request does not mention
    MaxCommits      \* bound: requests that commit or are in flight

Products == {id \in Ids : TableOf[id] = "products"}
Suppliers == {id \in Ids : TableOf[id] = "suppliers"}
Customers == {id \in Ids : TableOf[id] = "customers"}

Tables == {"products", "suppliers", "customers"}

ASSUME TablesAssumption == TableOf \in [Ids -> Tables]
ASSUME FiniteAssumption == IsFiniteSet(Ids) /\ IsFiniteSet(Clients)
ASSUME NullAssumption == Null \notin Keys \cup Names \cup Ids \cup Int
ASSUME LeftOutAssumption == LeftOut \notin Names \cup {Null}
ASSUME RanksAssumption == Ranks \subseteq Nat
ASSUME BoundAssumption == MaxCommits \in Nat

(* An item of a batch; each kind reads some of it.  The schemas of the     *)
(* bulk requests require what a new row or the row to be changed needs,    *)
(* but let a bulk update set a name to null.  An import takes null and a   *)
(* blank for a field that is left out.                                     *)
Items ==
    [key : Keys \cup {Null}, code : (Int \ {0}) \cup {Null}, id : Products \cup {Null},
     name : Names \cup {Null, LeftOut}]

BulkKinds == {"bulk_create", "bulk_update", "bulk_upsert"}

Required(kind, i) ==
    /\ kind \in {"bulk_create", "bulk_upsert"} => i.code # Null /\ i.name \in Names
    /\ kind = "bulk_update" => i.id # Null
    /\ kind = "import" => i.name # Null

ASSUME BatchesAssumption ==
    \A b \in Batches :
      /\ b.kind \in {"import"} \cup BulkKinds /\ b.table \in Tables
      /\ b.items \in Seq(Items) /\ \A n \in DOMAIN b.items : Required(b.kind, b.items[n])

VARIABLES
    row,        \* the rows of the three tables
    mapping,    \* the supplier_products rows, by supplier and product
    used,       \* the products and customers that orders refer to
    tx,         \* the request each client has in flight
    commits     \* how many requests have committed

rows == <<row, mapping, used>>
vars == <<rows, tx, commits>>

(* sku, supplier_code or customer_code; import_key; name and the like; active. *)
Row == [code : Int \ {0}, key : Keys \cup {Null}, name : Names, active : BOOLEAN]

(* What the tables hold at first was stored by these handlers. *)
ASSUME StartsAssumption ==
    \A s \in Starts :
      /\ DOMAIN s.row \subseteq Ids /\ \A id \in DOMAIN s.row : s.row[id] \in Row
      /\ DOMAIN s.mapping \subseteq Suppliers \X Products
      /\ \A m \in DOMAIN s.mapping : s.mapping[m] \in Ranks /\ {m[1], m[2]} \subseteq DOMAIN s.row
      /\ s.used \subseteq (Products \cup Customers) \cap DOMAIN s.row

Idle == [op |-> "idle"]

(* The rows a batch has flushed and not committed. *)
Pending(c) == IF tx[c].op = "batch" THEN tx[c].pending ELSE <<>>

TypeOK ==
    /\ DOMAIN row \subseteq Ids
    /\ \A id \in DOMAIN row : row[id] \in Row
    /\ DOMAIN mapping \subseteq Suppliers \X Products
    /\ \A m \in DOMAIN mapping : mapping[m] \in Ranks
    /\ used \subseteq Products \cup Customers
    /\ \A c \in Clients :
         /\ tx[c].op \in {"idle", "create", "change", "delete", "purge", "map", "rank", "unmap", "batch"}
         /\ DOMAIN Pending(c) \subseteq Ids
         /\ \A id \in DOMAIN Pending(c) : Pending(c)[id] \in Row
    /\ commits \in 0 .. MaxCommits

-----------------------------------------------------------------------------
(* The rows of table t among those of f. *)
In(t, f) == {id \in DOMAIN f : TableOf[id] = t}

Number(code) == IF code < 0 THEN -code ELSE code

(* Mutant: the rows are counted. *)
NextCode_Count(t, f) == Cardinality(In(t, f)) + 1

(* generate_next_code: one more than the largest number in a code. *)
NextCode(t, f) == Max({0} \cup {Number(f[id].code) : id \in In(t, f)}) + 1

(* The unique columns of the three tables. *)
Clash(a, b) == a.code = b.code \/ (a.key # Null /\ a.key = b.key)

(* Row new of table t cannot be inserted beside the rows of f. *)
Clashes(t, new, f) == \E id \in In(t, f) : Clash(f[id], new)

(* Mutant: the order lines and orders alone are looked at. *)
InUse_OrdersOnly(id) == id \in used

(* What the delete handlers look for: orders and lines, and mappings.      *)
(* (Allocations and results that name a supplier are in Purchasing.)       *)
InUse(id) == id \in used \/ \E m \in DOMAIN mapping : id \in {m[1], m[2]}

(* Table f, and where it has no row, table g; a table of one row. *)
Over(f, g) == [k \in DOMAIN f \cup DOMAIN g |-> IF k \in DOMAIN f THEN f[k] ELSE g[k]]
Only(k, new) == [x \in {k} |-> new]

(* The row c sees under an id: its own flushed one or the committed one. *)
Seen(c) == Over(Pending(c), row)

(* Flushed rows of other requests make an insert or an update wait.        *)
Others(c) == Clients \ {c}
InsertWaits(c, d, t, new) == d # c /\ Clashes(t, new, Pending(d))
UpdateWaits(c, d, id) == d # c /\ id \in DOMAIN Pending(d)

Init ==
    /\ \E s \in Starts : row = s.row /\ mapping = s.mapping /\ used = s.used
    /\ tx = [c \in Clients |-> Idle]
    /\ commits = 0

Begin(c, t) ==
    /\ tx[c] = Idle
    /\ commits + Cardinality({d \in Clients : tx[d] # Idle}) < MaxCommits
    /\ tx' = [tx EXCEPT ![c] = t]
    /\ UNCHANGED <<rows, commits>>

Finish(c) ==
    /\ tx' = [tx EXCEPT ![c] = Idle]
    /\ commits' = commits + 1

End(c) ==
    /\ tx' = [tx EXCEPT ![c] = Idle]
    /\ UNCHANGED <<rows, commits>>

-----------------------------------------------------------------------------
(* Single rows.  The three tables have the same handlers.                  *)
LoadCreate(c, t, n, a) ==
    Begin(c, [at |-> commits, op |-> "create", table |-> t,
              new |-> [code |-> NextCode(t, row), key |-> Null, name |-> n, active |-> a]])

CreateProduct(c, n) == LoadCreate(c, "products", n, TRUE)
CreateSupplier(c, n, a) == LoadCreate(c, "suppliers", n, a)
CreateCustomer(c, n, a) == LoadCreate(c, "customers", n, a)

LoadChange(c, id, new) ==
    /\ id \in DOMAIN row
    /\ Begin(c, [at |-> commits, op |-> "change", id |-> id, old |-> row[id], new |-> new])

(* update, archive and unarchive; an update may ask for a null. *)
ChangeRow(c, id) ==
    /\ id \in DOMAIN row
    /\ \/ \E n \in Names \cup {Null} : LoadChange(c, id, [row[id] EXCEPT !.name = n])
       \/ \E a \in BOOLEAN : LoadChange(c, id, [row[id] EXCEPT !.active = a])

ChangeProduct(c) == \E id \in Products : ChangeRow(c, id)
ChangeSupplier(c) == \E id \in Suppliers : ChangeRow(c, id)
ChangeCustomer(c) == \E id \in Customers : ChangeRow(c, id)

LoadDelete(c, id) ==
    /\ id \in DOMAIN row
    /\ ~InUse(id)
    /\ Begin(c, [at |-> commits, op |-> "delete", ids |-> {id}])

DeleteProduct(c) == \E id \in Products : LoadDelete(c, id)
DeleteSupplier(c) == \E id \in Suppliers : LoadDelete(c, id)
DeleteCustomer(c) == \E id \in Customers : LoadDelete(c, id)

(* bulk_delete_products: those that exist are deleted, whatever refers to them. *)
BulkDelete(c) ==
    \E S \in SUBSET (Products \cap DOMAIN row) : S # {} /\ Begin(c, [at |-> commits, op |-> "purge", ids |-> S])

(* create_supplier_product and create_supplier_product_mapping *)
LoadMap(c, s, p, r) ==
    /\ {s, p} \subseteq DOMAIN row /\ <<s, p>> \notin DOMAIN mapping
    /\ Begin(c, [at |-> commits, op |-> "map", pair |-> <<s, p>>, rank |-> r])

(* update_supplier_product and update_supplier_product_mapping: its        *)
(* preference and priority are one rank here, the smallest is preferred;   *)
(* either may be asked to become null.                                     *)
LoadRank(c, m, r) ==
    /\ m \in DOMAIN mapping
    /\ Begin(c, [at |-> commits, op |-> "rank", pair |-> m, rank |-> r, gone |-> FALSE])

(* delete_supplier_product and delete_supplier_product_mapping *)
LoadUnmap(c, m) ==
    /\ m \in DOMAIN mapping
    /\ Begin(c, [at |-> commits, op |-> "unmap", pair |-> m, gone |-> FALSE])

(* Mutant: a foreign key is missing. *)
Referenced_Orders(S) == S \cap used # {}

(* The foreign keys of order_items, orders and supplier_products on the    *)
(* rows S.                                                                 *)
Referenced(S) == \E id \in S : id \in used \/ \E m \in DOMAIN mapping : id \in {m[1], m[2]}

(* Mutant: the columns of products, suppliers and customers admit null. *)
SetsNull_MappingsOnly(c) == tx[c].op = "rank" /\ tx[c].rank = Null

(* A column that must not be null is to become null. *)
SetsNull(c) ==
    LET t == tx[c] IN
    \/ t.op = "change" /\ t.new.name = Null
    \/ t.op = "rank" /\ t.rank = Null
    \/ t.op = "batch" /\ t.plan # Null /\ t.plan.new.name = Null

(* The database takes what the request of c has to write. *)
Accepted(c) ==
    LET t == tx[c] IN
    CASE t.op = "create" -> ~Clashes(t.table, t.new, row)
      [] t.op = "change" -> t.id \in DOMAIN row /\ ~SetsNull(c)
      [] t.op \in {"delete", "purge"} -> ~Referenced(t.ids \cap DOMAIN row)
      [] t.op = "map" -> {t.pair[1], t.pair[2]} \subseteq DOMAIN row /\ t.pair \notin DOMAIN mapping
      [] t.op = "rank" -> ~t.gone /\ ~SetsNull(c)
      [] OTHER -> TRUE

(* It has to wait for a batch that flushed the row or one like it; a null  *)
(* is refused before that.                                                 *)
MustWait(c) ==
    LET t == tx[c] IN
    \E d \in Others(c) :
      \/ t.op = "create" /\ InsertWaits(c, d, t.table, t.new)
      \/ t.op = "change" /\ t.new # t.old /\ ~SetsNull(c) /\ UpdateWaits(c, d, t.id)
      \/ t.op \in {"delete", "purge"} /\ \E id \in t.ids : UpdateWaits(c, d, id)

(* The rows that the request of c has loaded or was given. *)
Named(c) ==
    LET t == tx[c] IN
    CASE t.op = "change" -> {t.id}
      [] t.op \in {"delete", "purge"} -> t.ids
      [] t.op \in {"map", "rank", "unmap"} -> {t.pair[1], t.pair[2]}
      [] t.op = "batch" -> DOMAIN t.pending \cup {i.id : i \in Range(t.todo)}
                             \cup (IF t.plan = Null THEN {} ELSE {t.plan.id})
      [] OTHER -> {}

(* A new row has an id that no row and no request has. *)
Fresh(t) ==
    {id \in Ids \ DOMAIN row : TableOf[id] = t /\ \A c \in Clients : id \notin Named(c)}

Changed(t, r) == [f \in DOMAIN r |-> IF t.new[f] # t.old[f] THEN t.new[f] ELSE r[f]]

CommitRow(c) ==
    LET t == tx[c] IN
    /\ t.op \in {"create", "change", "delete", "purge"}
    /\ Accepted(c) /\ ~MustWait(c)
    /\ \/ t.op = "create" /\ \E id \in Fresh(t.table) : row' = Over(row, Only(id, t.new))
       \/ t.op = "change" /\ row' = [row EXCEPT ![t.id] = Changed(t, @)]
       \/ t.op \in {"delete", "purge"} /\ row' = Restrict(row, DOMAIN row \ t.ids)
    /\ Finish(c)
    /\ UNCHANGED <<mapping, used>>

CommitMapping(c) ==
    LET t == tx[c] IN
    /\ t.op \in {"map", "rank"}
    /\ Accepted(c)
    /\ mapping' = Over(Only(t.pair, t.rank), mapping)
    /\ Finish(c)
    /\ UNCHANGED <<row, used>>

(* Other requests that loaded the mapping will not find it: a mapping of   *)
(* the same pair that is made later is another row.  A DELETE of a row     *)
(* that is gone deletes nothing.                                           *)
CommitUnmap(c) ==
    LET t == tx[c] IN
    /\ t.op = "unmap"
    /\ mapping' = IF t.gone THEN mapping ELSE Restrict(mapping, DOMAIN mapping \ {t.pair})
    /\ tx' = [d \in Clients |->
                 IF d = c THEN Idle
                 ELSE IF tx[d].op \in {"rank", "unmap"} /\ tx[d].pair = t.pair
                   THEN [tx[d] EXCEPT !.gone = TRUE]
                 ELSE tx[d]]
    /\ commits' = commits + 1
    /\ UNCHANGED <<row, used>>

(* A unique column, a foreign key, a null or a row that is gone ends the   *)
(* request with nothing written.                                           *)
Refuse(c) ==
    /\ tx[c].op \notin {"idle", "batch"}
    /\ ~MustWait(c) /\ ~Accepted(c)
    /\ End(c)

(* An order or an order line for a product or a customer is committed, or  *)
(* the last one for it is deleted.                                         *)
Order(id) ==
    /\ commits < MaxCommits - Cardinality({d \in Clients : tx[d] # Idle})
    /\ \/ id \in DOMAIN row \ Suppliers /\ id \notin used /\ used' = used \cup {id}
       \/ id \in used /\ used' = used \ {id}
    /\ commits' = commits + 1
    /\ UNCHANGED <<row, mapping, tx>>

-----------------------------------------------------------------------------
(* Batches *)
Counts == [created |-> 0, updated |-> 0, skipped |-> 0, failed |-> 0]

LoadBatch(c, b) ==
    Begin(c, [at |-> commits, op |-> "batch", kind |-> b.kind, table |-> b.table, todo |-> b.items,
              total |-> Len(b.items), keys |-> {}, plan |-> Null, pending |-> <<>>, answer |-> Counts])

ImportProducts(c) == \E b \in Batches : b.kind = "import" /\ b.table = "products" /\ LoadBatch(c, b)
ImportSuppliers(c) == \E b \in Batches : b.kind = "import" /\ b.table = "suppliers" /\ LoadBatch(c, b)
ImportCustomers(c) == \E b \in Batches : b.kind = "import" /\ b.table = "customers" /\ LoadBatch(c, b)
BulkProducts(c) == \E b \in Batches : b.kind # "import" /\ LoadBatch(c, b)

(* The current item of c is answered, and what of its transaction changes. *)
Answer(c, how, flushed) ==
    /\ tx' = [tx EXCEPT ![c].todo = Tail(@), ![c].plan = Null, ![c].pending = Over(flushed, @),
                        ![c].answer[how] = @ + 1,
                        ![c].keys = @ \cup {Head(tx[c].todo).key}]
    /\ UNCHANGED <<rows, commits>>

Plan(c, id, old, new) ==
    /\ tx' = [tx EXCEPT ![c].plan = [id |-> id, old |-> old, new |-> new]]
    /\ UNCHANGED <<rows, commits>>

Looking(c, kind) ==
    /\ tx[c].op = "batch" /\ tx[c].kind = kind
    /\ tx[c].plan = Null /\ tx[c].todo # <<>>

(* The rows of the table of the batch of c that have v in column f. *)
Found(c, f, v) == {id \in In(tx[c].table, Seen(c)) : Seen(c)[id][f] = v}

(* A field that the item leaves out stays as it is. *)
Renamed(r, n) == IF n = LeftOut THEN r ELSE [r EXCEPT !.name = n]

(* One item of an import: the key was in an earlier item; or it names a    *)
(* row, which is changed or left as it is; or a row is created, which      *)
(* needs its name and the like.                                            *)
LookForImport(c) ==
    LET i == Head(tx[c].todo)
        targets == IF i.key = Null THEN {} ELSE Found(c, "key", i.key)
    IN
    /\ Looking(c, "import")
    /\ \/ i.key # Null /\ i.key \in tx[c].keys /\ Answer(c, "failed", <<>>)
       \/ /\ i.key = Null \/ i.key \notin tx[c].keys
          /\ \/ \E id \in targets :
                  LET old == Seen(c)[id]
                      new == Renamed(old, i.name)
                  IN IF new = old THEN Answer(c, "skipped", <<>>) ELSE Plan(c, id, old, new)
             \/ targets = {} /\ i.name = LeftOut /\ Answer(c, "failed", <<>>)
             \/ /\ targets = {} /\ i.name # LeftOut
                /\ Plan(c, Null, Null, [code |-> NextCode(tx[c].table, Seen(c)), key |-> i.key,
                                        name |-> i.name, active |-> TRUE])

NewBulkRow(i) == [code |-> i.code, key |-> Null, name |-> i.name, active |-> TRUE]

LookForBulkCreate(c) ==
    LET i == Head(tx[c].todo) IN
    /\ Looking(c, "bulk_create")
    /\ IF Found(c, "code", i.code) # {} THEN Answer(c, "failed", <<>>)
       ELSE Plan(c, Null, Null, NewBulkRow(i))

LookForBulkUpdate(c) ==
    LET i == Head(tx[c].todo) IN
    /\ Looking(c, "bulk_update")
    /\ IF i.id \notin DOMAIN row THEN Answer(c, "failed", <<>>)
       ELSE Plan(c, i.id, Seen(c)[i.id], Renamed(Seen(c)[i.id], i.name))

LookForBulkUpsert(c) ==
    LET i == Head(tx[c].todo) IN
    /\ Looking(c, "bulk_upsert")
    /\ IF Found(c, "code", i.code) = {} THEN Plan(c, Null, Null, NewBulkRow(i))
       ELSE \E id \in Found(c, "code", i.code) :
              Plan(c, id, Seen(c)[id], Renamed(Seen(c)[id], i.name))

(* The flush of the current item of c has to wait for d. *)
Waits(c, d) ==
    LET t == tx[c] IN
    /\ t.op = "batch" /\ t.plan # Null
    /\ \/ t.plan.id = Null /\ InsertWaits(c, d, t.table, t.plan.new)
       \/ /\ t.plan.id # Null /\ t.plan.new # t.plan.old /\ ~SetsNull(c)
          /\ UpdateWaits(c, d, t.plan.id)

Flushing(c) ==
    /\ tx[c].op = "batch" /\ tx[c].plan # Null
    /\ \A d \in Clients : ~Waits(c, d)

FlushInsert(c) ==
    LET t == tx[c] IN
    /\ Flushing(c)
    /\ t.plan.id = Null /\ ~Clashes(t.table, t.plan.new, Seen(c))
    /\ \E id \in Fresh(t.table) : Answer(c, "created", Only(id, t.plan.new))

FlushUpdate(c) ==
    LET t == tx[c] IN
    /\ Flushing(c)
    /\ t.plan.id # Null
    /\ IF t.plan.new = t.plan.old THEN Answer(c, "updated", <<>>)
       ELSE /\ t.plan.id \in DOMAIN Seen(c) /\ ~SetsNull(c)
            /\ Answer(c, "updated", Only(t.plan.id, Changed(t.plan, Seen(c)[t.plan.id])))

(* Mutant: the row was counted before its flush failed. *)
ReportItem_Counted(c) ==
    /\ tx' = [tx EXCEPT ![c].todo = Tail(@), ![c].plan = Null,
                        ![c].answer.failed = @ + 1, ![c].answer.created = @ + 1]
    /\ UNCHANGED <<rows, commits>>

(* The except branches of an import: its savepoint is rolled back. *)
ReportItem(c) == Answer(c, "failed", <<>>)

(* A unique column is taken: an import reports the item and goes on, a     *)
(* bulk request ends.                                                      *)
FlushClashes(c) ==
    LET t == tx[c] IN
    /\ Flushing(c)
    /\ t.plan.id = Null /\ Clashes(t.table, t.plan.new, Seen(c))
    /\ IF t.kind = "import" THEN ReportItem(c) ELSE End(c)

(* A bulk update may ask for a null, and ends. *)
FlushNull(c) ==
    /\ Flushing(c)
    /\ tx[c].plan.id # Null /\ SetsNull(c)
    /\ End(c)

(* The row to be updated was deleted: a bulk request ends, and so does an  *)
(* import, which reads the row again to report it.                         *)
FlushFindsNoRow(c) ==
    LET t == tx[c] IN
    /\ Flushing(c)
    /\ t.plan.id # Null /\ t.plan.new # t.plan.old /\ t.plan.id \notin DOMAIN Seen(c)
    /\ End(c)

(* The bulk_delete of d deletes one row after the other: it has deleted    *)
(* the row that c is to change and waits for another one that c holds.     *)
MeetsPurge(c, d) ==
    LET p == tx[c].plan IN
    /\ tx[c].op = "batch" /\ p # Null /\ ~SetsNull(c)
    /\ p.id # Null /\ p.new # p.old
    /\ tx[d].op = "purge" /\ p.id \in tx[d].ids \ DOMAIN Pending(c)
    /\ tx[d].ids \cap DOMAIN Pending(c) # {}

(* A batch and another one, or a bulk_delete, wait for each other: if the  *)
(* batch is chosen, its statement fails.                                   *)
Deadlock(c) ==
    /\ \E d \in Clients : (Waits(c, d) /\ Waits(d, c)) \/ MeetsPurge(c, d)
    /\ IF tx[c].kind = "import" THEN ReportItem(c) ELSE End(c)

CommitBatch(c) ==
    /\ tx[c].op = "batch" /\ tx[c].todo = <<>>
    /\ row' = Over(Pending(c), row)
    /\ Finish(c)
    /\ UNCHANGED <<mapping, used>>

(* The worker or its connection is lost. *)
Rollback(c) == tx[c] # Idle /\ End(c)

-----------------------------------------------------------------------------
Load(c) ==
    \/ \E n \in Names :
         \/ CreateProduct(c, n)
         \/ \E a \in BOOLEAN : CreateSupplier(c, n, a) \/ CreateCustomer(c, n, a)
    \/ ChangeProduct(c) \/ ChangeSupplier(c) \/ ChangeCustomer(c)
    \/ DeleteProduct(c) \/ DeleteSupplier(c) \/ DeleteCustomer(c) \/ BulkDelete(c)
    \/ \E s \in Suppliers, p \in Products :
         \/ \E r \in Ranks : LoadMap(c, s, p, r)
         \/ \E r \in Ranks \cup {Null} : LoadRank(c, <<s, p>>, r)
         \/ LoadUnmap(c, <<s, p>>)
    \/ ImportProducts(c) \/ ImportSuppliers(c) \/ ImportCustomers(c) \/ BulkProducts(c)

Look(c) ==
    LookForImport(c) \/ LookForBulkCreate(c) \/ LookForBulkUpdate(c) \/ LookForBulkUpsert(c)

Flush(c) ==
    \/ FlushInsert(c) \/ FlushUpdate(c)
    \/ FlushClashes(c) \/ FlushNull(c) \/ FlushFindsNoRow(c) \/ Deadlock(c)

Commit(c) == CommitRow(c) \/ CommitMapping(c) \/ CommitUnmap(c) \/ CommitBatch(c)

Next ==
    \/ \E c \in Clients : Load(c) \/ Look(c) \/ Flush(c) \/ Commit(c) \/ Refuse(c) \/ Rollback(c)
    \/ \E id \in Ids : Order(id)

Spec == Init /\ [][Next]_vars

-----------------------------------------------------------------------------
(* Properties.  A request is stale when another one committed after it     *)
(* began.                                                                  *)
Stale(c) == tx[c].at # commits

(* What the handlers check before they write is all that the constraints   *)
(* ask, but for null: codes are generated free, rows in use are not        *)
(* deleted, mappings name rows that exist, items change rows that exist.   *)
(* So a constraint refuses a request, or an item of a batch, only if it    *)
(* asks for a null where none may be (which update_* and bulk_update pass  *)
(* on) or another request committed since it began.  bulk_delete, which    *)
(* checks nothing, is apart, and so are deadlocks and lost connections.    *)
RefusedOnlyIfStaleOrNull ==
    \A c \in Clients :
      LET t == tx[c] IN
      t.op \notin {"idle", "purge"} => Stale(c) \/ SetsNull(c) \/
        /\ Accepted(c)
        /\ t.op = "batch" /\ t.plan # Null =>
             IF t.plan.id = Null THEN ~Clashes(t.table, t.plan.new, Seen(c))
             ELSE t.plan.id \in DOMAIN Seen(c)

(* What an import or a bulk request answers adds up to its items, and what *)
(* it says was created is what its commit adds, whichever of its items     *)
(* failed at their savepoints.                                             *)
AnswersAreTrue ==
    [][\A c \in Clients :
          tx[c].op = "batch" /\ tx[c].todo = <<>> /\ commits' = commits + 1 /\ tx'[c] = Idle =>
            LET a == tx[c].answer IN
            /\ a.created + a.updated + a.skipped + a.failed = tx[c].total
            /\ a.created = Cardinality(DOMAIN row' \ DOMAIN row)]_vars

(* The supplier that suggest_allocations takes for a product: the first of *)
(* its mappings.                                                           *)
Suggested(p) ==
    {m[1] : m \in {m \in DOMAIN mapping :
                     m[2] = p /\ \A n \in DOMAIN mapping : n[2] = p => mapping[m] <= mapping[n]}}

(* Orders and lines refer to rows that exist, and the supplier suggested   *)
(* for a product does too, however deletions overlap with what refers to   *)
(* the rows.                                                               *)
ReferencesHold ==
    /\ used \subseteq DOMAIN row
    /\ \A p \in Products : Suggested(p) # {} => {p} \cup Suggested(p) \subseteq DOMAIN row

=============================================================================
