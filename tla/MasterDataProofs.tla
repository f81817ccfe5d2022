-------------------------- MODULE MasterDataProofs --------------------------
(***************************************************************************)
(* Theorems of MasterData for any rows, batches and clients, however many  *)
(* requests overlap.                                                       *)
(***************************************************************************)
EXTENDS MasterData, FiniteSetTheorems, WellFoundedInduction, TLAPS

(* A finite set of natural numbers has a largest element: the one with the *)
(* fewest above it.                                                        *)
LEMMA LargestIn ==
    ASSUME NEW S \in SUBSET Nat, IsFiniteSet(S), S # {}
    PROVE  Max(S) \in S /\ \A y \in S : y <= Max(S)
  <1> DEFINE Above(x) == {y \in S : y > x}
             T == {Cardinality(Above(x)) : x \in S}
  <1>1. \A x : IsFiniteSet(Above(x)) /\ Cardinality(Above(x)) \in Nat
    BY FS_Subset, FS_CardinalityType
  <1>2. T \in SUBSET Nat /\ T # {}
    BY <1>1
  <1>3. \E t \in T : \A u \in T : ~(<<u, t>> \in OpToRel(<, Nat))
    BY <1>2, WFMin, NatLessThanWellFounded
  <1>4. PICK t \in T : \A u \in T : ~(u < t)
    BY <1>2, <1>3 DEF OpToRel
  <1>5. PICK x \in S : t = Cardinality(Above(x))
    OBVIOUS
  <1>6. ASSUME NEW y \in S, y > x
        PROVE  FALSE
    <2>1. Above(y) \in SUBSET Above(x)
      <3>1. \A z \in S : z > y => z > x
        BY <1>6
      <3>2. QED
        BY <3>1
    <2>2. y \in Above(x) /\ y \notin Above(y)
      BY <1>6
    <2>3. Cardinality(Above(y)) <= Cardinality(Above(x))
          /\ Cardinality(Above(y)) # Cardinality(Above(x))
      BY <1>1, <2>1, <2>2, FS_Subset
    <2>4. Cardinality(Above(y)) < Cardinality(Above(x))
      BY <1>1, <2>3
    <2>5. QED
      BY <1>4, <1>5, <2>4
  <1>7. \A y \in S : x >= y
    BY <1>6
  <1>8. QED
    BY <1>7 DEF Max

-----------------------------------------------------------------------------
(* Tables of rows. *)
IsTable(f) == DOMAIN f \subseteq Ids /\ \A id \in DOMAIN f : f[id] \in Row

LEMMA OverTable ==
    ASSUME NEW f, NEW g
    PROVE  /\ DOMAIN Over(f, g) = DOMAIN f \cup DOMAIN g
           /\ \A k \in DOMAIN f : Over(f, g)[k] = f[k]
           /\ \A k \in DOMAIN g \ DOMAIN f : Over(f, g)[k] = g[k]
  BY DEF Over

LEMMA OverIsTable ==
    ASSUME NEW f, NEW g, IsTable(f), IsTable(g)
    PROVE  IsTable(Over(f, g))
  BY DEF Over, IsTable

LEMMA OnlyRow ==
    ASSUME NEW k, NEW new
    PROVE  /\ DOMAIN Only(k, new) = {k} /\ Only(k, new)[k] = new
           /\ k \in Ids /\ new \in Row => IsTable(Only(k, new))
  BY DEF Only, IsTable

LEMMA NoRows == IsTable(<<>>) /\ DOMAIN <<>> = {}
  BY DEF IsTable

(* A code that is generated is larger than the numbers in the codes there, *)
(* so no row has it.                                                       *)
LEMMA NextCodeIsFree ==
    ASSUME NEW t, NEW f, IsTable(f)
    PROVE  /\ NextCode(t, f) \in Int \ {0}
           /\ \A id \in In(t, f) : f[id].code # NextCode(t, f)
  <1> DEFINE N == {Number(f[id].code) : id \in In(t, f)}
             S == {0} \cup N
  <1>1. In(t, f) \in SUBSET Ids /\ \A id \in In(t, f) : f[id].code \in Int \ {0}
    BY DEF IsTable, In, Row
  <1>2. \A id \in In(t, f) : Number(f[id].code) \in Nat /\ f[id].code <= Number(f[id].code)
    BY <1>1 DEF Number
  <1>3. IsFiniteSet(In(t, f))
    BY <1>1, FiniteAssumption, FS_Subset DEF FiniteAssumption
  <1>4. IsFiniteSet(N)
    <2> DEFINE g == [id \in In(t, f) |-> Number(f[id].code)]
    <2>1. g \in Surjection(In(t, f), N)
      BY DEF Surjection
    <2>2. QED
      BY <1>3, <2>1, FS_Surjection
  <1>5. IsFiniteSet(S)
    BY <1>4, FS_Singleton, FS_Union
  <1>6. S \in SUBSET Nat /\ S # {}
    BY <1>2
  <1>7. Max(S) \in S /\ \A y \in S : y <= Max(S)
    BY <1>5, <1>6, LargestIn
  <1>8. NextCode(t, f) = Max(S) + 1
    BY DEF NextCode
  <1>9. ASSUME NEW id \in In(t, f)
        PROVE  f[id].code # NextCode(t, f)
    <2>1. Number(f[id].code) \in S
      OBVIOUS
    <2> HIDE DEF S, N
    <2>2. Number(f[id].code) <= Max(S) /\ Max(S) \in Nat
      BY <1>6, <1>7, <2>1
    <2>3. QED
      BY <1>1, <1>2, <1>8, <2>2
  <1>10. Max(S) \in Nat
    BY <1>6, <1>7
  <1> HIDE DEF S
  <1>11. QED
    BY <1>8, <1>9, <1>10

(* An UPDATE leaves a row. *)
LEMMA ChangedRow ==
    ASSUME NEW t, NEW r \in Row, t.old \in Row, t.new \in Row
    PROVE  Changed(t, r) \in Row
  <1>1. DOMAIN r = {"code", "key", "name", "active"}
    BY DEF Row
  <1> DEFINE w == Changed(t, r)
  <1>2. /\ DOMAIN w = {"code", "key", "name", "active"}
        /\ w.code \in {t.new.code, r.code} /\ w.key \in {t.new.key, r.key}
        /\ w.name \in {t.new.name, r.name} /\ w.active \in {t.new.active, r.active}
    BY <1>1 DEF Changed
  <1>3. w = [f \in DOMAIN r |-> w[f]]
    BY DEF Changed
  <1> HIDE DEF w
  <1>4. w = [code |-> w.code, key |-> w.key, name |-> w.name, active |-> w.active]
    BY <1>1, <1>3
  <1>5. /\ w.code \in Int \ {0} /\ w.key \in Keys \cup {Null} /\ w.name \in Names
        /\ w.active \in BOOLEAN
    BY <1>2 DEF Row
  <1>6. w \in Row
    BY <1>4, <1>5 DEF Row
  <1>7. QED
    BY <1>6 DEF w

(* What a request may ask a row to become: a name may be null. *)
Asked == [code : Int \ {0}, key : Keys \cup {Null}, name : Names \cup {Null}, active : BOOLEAN]

LEMMA AskedRow ==
    ASSUME NEW r \in Asked
    PROVE  r \in Row <=> r.name # Null
  BY NullAssumption DEF Asked, Row, NullAssumption

LEMMA RowIsAsked ==
    ASSUME NEW r \in Row
    PROVE  r \in Asked /\ r.name # Null
  BY NullAssumption DEF Asked, Row, NullAssumption

LEMMA RenamedRow ==
    ASSUME NEW r \in Row, NEW n \in Names \cup {Null, LeftOut}
    PROVE  Renamed(r, n) \in Asked
  <1>1. CASE n = LeftOut
    BY <1>1, RowIsAsked DEF Renamed
  <1>2. CASE n # LeftOut
    BY <1>2 DEF Renamed, Row, Asked
  <1>3. QED
    BY <1>1, <1>2

-----------------------------------------------------------------------------
(* The requests in flight. *)
Kinds == {"import"} \cup BulkKinds
Answers == [created : Nat, updated : Nat, skipped : Nat, failed : Nat]
Pairs == Suppliers \X Products

CreateTx == [at : Nat, op : {"create"}, table : Tables, new : Row]
ChangeTx == [at : Nat, op : {"change"}, id : Ids, old : Row, new : Asked]
RemoveTx == [at : Nat, op : {"delete", "purge"}, ids : SUBSET Ids]
MapTx == [at : Nat, op : {"map"}, pair : Pairs, rank : Ranks]
RankTx == [at : Nat, op : {"rank"}, pair : Pairs, rank : Ranks \cup {Null}, gone : BOOLEAN]
UnmapTx == [at : Nat, op : {"unmap"}, pair : Pairs, gone : BOOLEAN]
SingleTx == CreateTx \cup ChangeTx \cup RemoveTx \cup MapTx \cup RankTx \cup UnmapTx

BatchFields ==
    {"at", "op", "kind", "table", "todo", "total", "keys", "plan", "pending", "answer"}

IsPlan(p) ==
    IF p.id = Null THEN p.new \in Row
    ELSE p.new \in Asked /\ p.id \in Ids /\ p.old \in Row

ItemsLeft(t) ==
    /\ t.todo \in Seq(Items)
    /\ \A n \in DOMAIN t.todo : Required(t.kind, t.todo[n])

Answered(a) == a.created + a.updated + a.skipped + a.failed

IsBatch(t) ==
    /\ DOMAIN t = BatchFields
    /\ t.at \in Nat /\ t.op = "batch" /\ t.kind \in Kinds /\ t.table \in Tables
    /\ ItemsLeft(t)
    /\ IsTable(t.pending)
    /\ t.answer \in Answers
    /\ t.plan # Null => IsPlan(t.plan) /\ t.todo # <<>>
    /\ t.total \in Nat /\ Answered(t.answer) + Len(t.todo) = t.total

IsTx(t) == t = Idle \/ t \in SingleTx \/ IsBatch(t)

RowsOK ==
    /\ IsTable(row)
    /\ DOMAIN mapping \subseteq Pairs
    /\ \A m \in DOMAIN mapping : mapping[m] \in Ranks
    /\ used \subseteq Products \cup Customers
    /\ commits \in Nat

TxOK ==
    /\ DOMAIN tx = Clients
    /\ \A c \in Clients : IsTx(tx[c]) /\ (tx[c] # Idle => tx[c].at <= commits)

Types == RowsOK /\ TxOK

LEMMA TxCases ==
    ASSUME NEW t, IsTx(t)
    PROVE  /\ t = Idle <=> t.op = "idle"
           /\ t.op = "create" => t \in CreateTx
           /\ t.op = "change" => t \in ChangeTx
           /\ t.op \in {"delete", "purge"} => t \in RemoveTx
           /\ t.op = "map" => t \in MapTx
           /\ t.op = "rank" => t \in RankTx
           /\ t.op = "unmap" => t \in UnmapTx
           /\ t.op = "batch" => IsBatch(t)
           /\ t.op \in {"idle", "create", "change", "delete", "purge", "map", "rank", "unmap", "batch"}
           /\ t # Idle => t.at \in Nat
  BY DEF IsTx, Idle, SingleTx, CreateTx, ChangeTx, RemoveTx, MapTx, RankTx, UnmapTx, IsBatch

(* What a request or the item of a batch has checked. *)
Checked(t) ==
    /\ t.op = "create" => ~Clashes(t.table, t.new, row)
    /\ t.op = "change" => t.id \in DOMAIN row
    /\ t.op = "delete" => ~Referenced(t.ids)
    /\ t.op = "map" => {t.pair[1], t.pair[2]} \subseteq DOMAIN row /\ t.pair \notin DOMAIN mapping
    /\ t.op = "rank" => ~t.gone /\ t.pair \in DOMAIN mapping
    /\ t.op = "batch" /\ t.plan # Null =>
         IF t.plan.id = Null THEN ~Clashes(t.table, t.plan.new, Over(t.pending, row))
         ELSE t.plan.id \in DOMAIN Over(t.pending, row)

(* What loading puts in flight. *)
Loads(c, t) ==
    /\ Begin(c, t)
    /\ IsTx(t) /\ t # Idle /\ t.at = commits
    /\ Checked(t)
    /\ t.op = "batch" => t.pending = <<>> /\ t.answer.created = 0

LEMMA LoadCases ==
    ASSUME Types, NEW c \in Clients, Load(c)
    PROVE  \E t : Loads(c, t)
  <1>1. ASSUME NEW t \in SingleTx, Begin(c, t), t.at = commits, Checked(t)
        PROVE  \E r : Loads(c, r)
    <2>1. t # Idle /\ t.op # "batch"
      BY DEF SingleTx, CreateTx, ChangeTx, RemoveTx, MapTx, RankTx, UnmapTx, Idle
    <2>2. QED
      BY <1>1, <2>1 DEF Loads, IsTx
  <1>2. commits \in Nat /\ IsTable(row)
    BY DEF Types, RowsOK
  <1>3. ASSUME NEW t \in Tables, NEW n \in Names, NEW a \in BOOLEAN, LoadCreate(c, t, n, a)
        PROVE  \E r : Loads(c, r)
    <2> DEFINE new == [code |-> NextCode(t, row), key |-> Null, name |-> n, active |-> a]
               r == [at |-> commits, op |-> "create", table |-> t, new |-> new]
    <2>1. Begin(c, r)
      BY <1>3 DEF LoadCreate
    <2>2. /\ NextCode(t, row) \in Int \ {0}
          /\ \A id \in In(t, row) : row[id].code # NextCode(t, row)
      BY <1>2, NextCodeIsFree
    <2>3. new \in Row
      BY <2>2 DEF Row
    <2>4. ~Clashes(t, new, row)
      BY <2>2 DEF Clashes, Clash
    <2> HIDE DEF new
    <2>5. r \in SingleTx /\ r.at = commits
      BY <1>2, <2>3 DEF SingleTx, CreateTx
    <2>6. Checked(r)
      BY <2>4 DEF Checked
    <2>7. QED
      BY <1>1, <2>1, <2>5, <2>6
  <1>4. ASSUME NEW id \in DOMAIN row, NEW new \in Asked, LoadChange(c, id, new)
        PROVE  \E r : Loads(c, r)
    <2> DEFINE r == [at |-> commits, op |-> "change", id |-> id, old |-> row[id], new |-> new]
    <2>1. Begin(c, r)
      BY <1>4 DEF LoadChange
    <2>2. r \in SingleTx /\ r.at = commits
      BY <1>2 DEF SingleTx, ChangeTx, IsTable
    <2>3. Checked(r)
      BY DEF Checked
    <2>4. QED
      BY <1>1, <2>1, <2>2, <2>3
  <1>5. ASSUME NEW S \in SUBSET DOMAIN row, NEW op \in {"delete", "purge"},
               Begin(c, [at |-> commits, op |-> op, ids |-> S]), op = "delete" => ~Referenced(S)
        PROVE  \E r : Loads(c, r)
    <2> DEFINE r == [at |-> commits, op |-> op, ids |-> S]
    <2>1. r \in SingleTx /\ r.at = commits
      BY <1>2 DEF SingleTx, RemoveTx, IsTable
    <2>2. Checked(r)
      BY <1>5 DEF Checked
    <2>3. QED
      BY <1>1, <1>5, <2>1, <2>2
  <1>6. ASSUME NEW s \in Suppliers, NEW p \in Products, NEW k \in Ranks, LoadMap(c, s, p, k)
        PROVE  \E r : Loads(c, r)
    <2> DEFINE r == [at |-> commits, op |-> "map", pair |-> <<s, p>>, rank |-> k]
    <2>1. Begin(c, r) /\ {s, p} \subseteq DOMAIN row /\ <<s, p>> \notin DOMAIN mapping
      BY <1>6 DEF LoadMap
    <2>2. r \in SingleTx /\ r.at = commits
      BY <1>2 DEF SingleTx, MapTx, Pairs
    <2>3. Checked(r)
      BY <2>1 DEF Checked
    <2>4. QED
      BY <1>1, <2>1, <2>2, <2>3
  <1>7. ASSUME NEW m \in Pairs, NEW k \in Ranks \cup {Null}, LoadRank(c, m, k)
        PROVE  \E r : Loads(c, r)
    <2> DEFINE r == [at |-> commits, op |-> "rank", pair |-> m, rank |-> k, gone |-> FALSE]
    <2>1. Begin(c, r) /\ m \in DOMAIN mapping
      BY <1>7 DEF LoadRank
    <2>2. r \in SingleTx /\ r.at = commits
      BY <1>2 DEF SingleTx, RankTx
    <2>3. Checked(r)
      BY <2>1 DEF Checked
    <2>4. QED
      BY <1>1, <2>1, <2>2, <2>3
  <1>8. ASSUME NEW m \in Pairs, LoadUnmap(c, m)
        PROVE  \E r : Loads(c, r)
    <2> DEFINE r == [at |-> commits, op |-> "unmap", pair |-> m, gone |-> FALSE]
    <2>1. Begin(c, r)
      BY <1>8 DEF LoadUnmap
    <2>2. r \in SingleTx /\ r.at = commits
      BY <1>2 DEF SingleTx, UnmapTx
    <2>3. Checked(r)
      BY DEF Checked
    <2>4. QED
      BY <1>1, <2>1, <2>2, <2>3
  <1>9. ASSUME NEW b \in Batches, LoadBatch(c, b)
        PROVE  \E r : Loads(c, r)
    <2> DEFINE r == [at |-> commits, op |-> "batch", kind |-> b.kind, table |-> b.table, todo |-> b.items,
                     total |-> Len(b.items), keys |-> {}, plan |-> Null, pending |-> <<>>,
                     answer |-> Counts]
    <2>1. Begin(c, r)
      BY <1>9 DEF LoadBatch
    <2>2. /\ DOMAIN r = BatchFields /\ r.at = commits /\ r.op = "batch" /\ r.kind = b.kind
          /\ r.table = b.table /\ r.todo = b.items /\ r.total = Len(b.items) /\ r.plan = Null
          /\ r.pending = <<>> /\ r.answer = Counts
      BY DEF BatchFields
    <2>3. /\ b.kind \in Kinds /\ b.table \in Tables /\ b.items \in Seq(Items)
          /\ \A n \in DOMAIN b.items : Required(b.kind, b.items[n])
      BY BatchesAssumption DEF BatchesAssumption, Kinds
    <2>4. Counts \in Answers /\ Answered(Counts) = 0 /\ Counts.created = 0
      BY DEF Counts, Answers, Answered
    <2>5. Len(b.items) \in Nat
      BY <2>3
    <2> HIDE DEF r
    <2>6. IsBatch(r)
      BY <1>2, <2>2, <2>3, <2>4, <2>5, NoRows DEF IsBatch, ItemsLeft
    <2>7. r # Idle
      BY <2>2 DEF Idle
    <2>8. Checked(r)
      BY <2>2 DEF Checked
    <2>9. QED
      BY <2>1, <2>2, <2>4, <2>6, <2>7, <2>8 DEF Loads, IsTx
  <1>10. ASSUME NEW id \in Ids, ChangeRow(c, id)
         PROVE  \E r : Loads(c, r)
    <2>1. id \in DOMAIN row /\ row[id] \in Row
      BY <1>2, <1>10 DEF ChangeRow, IsTable
    <2>2. \E new \in Asked : LoadChange(c, id, new)
      <3>1. \A n \in Names \cup {Null} : [row[id] EXCEPT !.name = n] \in Asked
        BY <2>1 DEF Row, Asked
      <3>2. \A a \in BOOLEAN : [row[id] EXCEPT !.active = a] \in Asked
        BY <2>1 DEF Row, Asked
      <3>3. QED
        BY <1>10, <3>1, <3>2 DEF ChangeRow
    <2>3. QED
      BY <1>4, <2>1, <2>2
  <1>11. ASSUME NEW id \in Ids, LoadDelete(c, id)
         PROVE  \E r : Loads(c, r)
    <2>1. {id} \in SUBSET DOMAIN row /\ ~Referenced({id})
          /\ Begin(c, [at |-> commits, op |-> "delete", ids |-> {id}])
      BY <1>11 DEF LoadDelete, InUse, Referenced
    <2>2. QED
      BY <1>5, <2>1
  <1>12. CASE BulkDelete(c)
    BY <1>5, <1>12 DEF BulkDelete
  <1>13. CASE \E n \in Names : CreateProduct(c, n)
                               \/ \E a \in BOOLEAN : CreateSupplier(c, n, a) \/ CreateCustomer(c, n, a)
    BY <1>3, <1>13 DEF CreateProduct, CreateSupplier, CreateCustomer, Tables
  <1>14. CASE \E s \in Suppliers, p \in Products :
                \/ \E r \in Ranks : LoadMap(c, s, p, r)
                \/ \E r \in Ranks \cup {Null} : LoadRank(c, <<s, p>>, r)
                \/ LoadUnmap(c, <<s, p>>)
    BY <1>6, <1>7, <1>8, <1>14 DEF Pairs
  <1>15. CASE ImportProducts(c) \/ ImportSuppliers(c) \/ ImportCustomers(c) \/ BulkProducts(c)
    BY <1>9, <1>15 DEF ImportProducts, ImportSuppliers, ImportCustomers, BulkProducts
  <1>16. QED
    BY <1>10, <1>11, <1>12, <1>13, <1>14, <1>15
       DEF Load, ChangeProduct, ChangeSupplier, ChangeCustomer, DeleteProduct, DeleteSupplier,
           DeleteCustomer, Products, Suppliers, Customers

-----------------------------------------------------------------------------
(* The steps of a batch.                                                   *)
LEMMA FirstItem ==
    ASSUME NEW t, IsBatch(t), t.todo # <<>>
    PROVE  /\ Head(t.todo) \in Items /\ Required(t.kind, Head(t.todo))
           /\ Tail(t.todo) \in Seq(Items) /\ Len(Tail(t.todo)) = Len(t.todo) - 1
           /\ \A n \in DOMAIN Tail(t.todo) : Required(t.kind, Tail(t.todo)[n])
  <1>1. t.todo \in Seq(Items) /\ \A n \in DOMAIN t.todo : Required(t.kind, t.todo[n])
    BY DEF IsBatch, ItemsLeft
  <1> DEFINE s == t.todo
  <1>2. s \in Seq(Items) /\ s # <<>> /\ \A n \in 1 .. Len(s) : Required(t.kind, s[n])
    BY <1>1
  <1> HIDE DEF s
  <1>3. Head(s) = s[1] /\ Head(s) \in Items /\ Len(s) \in Nat \ {0}
    BY <1>2
  <1>4. /\ Tail(s) \in Seq(Items) /\ Len(Tail(s)) = Len(s) - 1
        /\ \A n \in 1 .. Len(Tail(s)) : Tail(s)[n] = s[n + 1]
    BY <1>2, <1>3
  <1>5. \A n \in 1 .. Len(Tail(s)) : n + 1 \in 1 .. Len(s)
    BY <1>3, <1>4
  <1>6. \A n \in 1 .. Len(Tail(s)) : Required(t.kind, Tail(s)[n])
    BY <1>2, <1>4, <1>5
  <1>7. DOMAIN Tail(s) = 1 .. Len(Tail(s))
    BY <1>4
  <1>8. QED
    BY <1>2, <1>3, <1>4, <1>6, <1>7 DEF s

LEMMA AnswerCounted ==
    ASSUME NEW a \in Answers, NEW how \in {"created", "updated", "skipped", "failed"}
    PROVE  LET b == [a EXCEPT ![how] = @ + 1] IN
           /\ b \in Answers /\ Answered(b) = Answered(a) + 1
           /\ b.created = a.created + (IF how = "created" THEN 1 ELSE 0)
  <1> DEFINE b == [a EXCEPT ![how] = @ + 1]
             Add(f) == a[f] + (IF how = f THEN 1 ELSE 0)
             d == [created |-> Add("created"), updated |-> Add("updated"),
                   skipped |-> Add("skipped"), failed |-> Add("failed")]
  <1>1. DOMAIN a = {"created", "updated", "skipped", "failed"}
    BY DEF Answers
  <1>2. /\ a.created \in Nat /\ a.updated \in Nat /\ a.skipped \in Nat /\ a.failed \in Nat
    BY DEF Answers
  <1>3. DOMAIN b = DOMAIN a /\ \A f \in DOMAIN a : b[f] = Add(f)
    BY <1>1, <1>2
  <1>4. /\ b.created = Add("created") /\ b.updated = Add("updated")
        /\ b.skipped = Add("skipped") /\ b.failed = Add("failed")
    BY <1>1, <1>3
  <1>5. b = [f \in DOMAIN a |-> b[f]]
    OBVIOUS
  <1> HIDE DEF b
  <1>6. b = d
    BY <1>1, <1>4, <1>5
  <1>7. d \in Answers
    BY <1>2 DEF Answers
  <1>8. Answered(b) = Answered(a) + 1
    BY <1>2, <1>4 DEF Answered
  <1>9. QED
    BY <1>4, <1>6, <1>7, <1>8 DEF b

LEMMA AnswerEffect ==
    ASSUME Types, NEW c \in Clients, IsBatch(tx[c]), tx[c].todo # <<>>,
           NEW how \in {"created", "updated", "skipped", "failed"},
           NEW flushed, IsTable(flushed), Answer(c, how, flushed)
    PROVE  \E u : /\ tx' = [tx EXCEPT ![c] = u] /\ UNCHANGED <<rows, commits>>
                  /\ IsBatch(u) /\ u.at = tx[c].at /\ u.plan = Null
                  /\ u.pending = Over(flushed, tx[c].pending)
                  /\ u.answer.created = tx[c].answer.created + (IF how = "created" THEN 1 ELSE 0)
  <1> DEFINE t == tx[c]
             answer == [t.answer EXCEPT ![how] = @ + 1]
             u == [[[[[t EXCEPT !.todo = Tail(t.todo)] EXCEPT !.plan = Null]
                     EXCEPT !.pending = Over(flushed, t.pending)]
                     EXCEPT !.answer = answer]
                     EXCEPT !.keys = t.keys \cup {Head(t.todo).key}]
  <1>1. DOMAIN t = BatchFields
    BY DEF IsBatch
  <1>2. tx' = [tx EXCEPT ![c] = u] /\ UNCHANGED <<rows, commits>>
    BY <1>1 DEF Answer, BatchFields, Types, TxOK
  <1>3. /\ DOMAIN u = BatchFields /\ u.at = t.at /\ u.op = t.op /\ u.kind = t.kind
        /\ u.table = t.table /\ u.todo = Tail(t.todo) /\ u.total = t.total /\ u.plan = Null
        /\ u.pending = Over(flushed, t.pending) /\ u.answer = answer
    BY <1>1 DEF BatchFields
  <1>4. /\ answer \in Answers /\ Answered(answer) = Answered(t.answer) + 1
        /\ answer.created = t.answer.created + (IF how = "created" THEN 1 ELSE 0)
    BY AnswerCounted DEF IsBatch
  <1> HIDE DEF u, answer
  <1>5. IsTable(u.pending)
    <2>1. IsTable(t.pending)
      BY DEF IsBatch
    <2>2. QED
      BY <1>3, <2>1, OverIsTable
  <1>6. ItemsLeft(u)
    BY <1>3, FirstItem DEF ItemsLeft
  <1>7. Answered(u.answer) + Len(u.todo) = u.total
    <2>1. t.answer \in Answers /\ t.todo \in Seq(Items) /\ Answered(t.answer) + Len(t.todo) = t.total
      BY DEF IsBatch, ItemsLeft
    <2>2. Answered(t.answer) \in Nat /\ Len(t.todo) \in Nat
      BY <2>1 DEF Answers, Answered
    <2>3. Len(u.todo) = Len(t.todo) - 1
      BY <1>3, FirstItem
    <2>4. Answered(u.answer) = Answered(t.answer) + 1
      BY <1>3, <1>4
    <2>5. u.total = Answered(t.answer) + Len(t.todo)
      BY <1>3, <2>1
    <2> HIDE DEF t
    <2>6. QED
      BY <2>2, <2>3, <2>4, <2>5
  <1>8. IsBatch(u)
    BY <1>3, <1>4, <1>5, <1>6, <1>7 DEF IsBatch
  <1>9. QED
    BY <1>2, <1>3, <1>4, <1>8

LEMMA PlanEffect ==
    ASSUME Types, NEW c \in Clients, IsBatch(tx[c]), tx[c].todo # <<>>,
           NEW id, NEW old, NEW new, IsPlan([id |-> id, old |-> old, new |-> new]),
           Plan(c, id, old, new)
    PROVE  \E u : /\ tx' = [tx EXCEPT ![c] = u] /\ UNCHANGED <<rows, commits>>
                  /\ IsBatch(u) /\ u.at = tx[c].at /\ u.table = tx[c].table
                  /\ u.plan = [id |-> id, old |-> old, new |-> new]
                  /\ u.pending = tx[c].pending /\ u.answer = tx[c].answer
  <1> DEFINE t == tx[c]
             p == [id |-> id, old |-> old, new |-> new]
             u == [t EXCEPT !.plan = p]
  <1>1. DOMAIN t = BatchFields
    BY DEF IsBatch
  <1>2. tx' = [tx EXCEPT ![c] = u] /\ UNCHANGED <<rows, commits>>
    BY DEF Plan, Types, TxOK
  <1>3. /\ DOMAIN u = BatchFields /\ u.at = t.at /\ u.op = t.op /\ u.kind = t.kind
        /\ u.table = t.table /\ u.todo = t.todo /\ u.total = t.total /\ u.plan = p
        /\ u.pending = t.pending /\ u.answer = t.answer
    BY <1>1 DEF BatchFields
  <1>4. IsPlan(p)
    OBVIOUS
  <1> HIDE DEF u, p
  <1>5. IsBatch(u)
    BY <1>3, <1>4 DEF IsBatch, ItemsLeft
  <1>6. QED
    BY <1>2, <1>3, <1>5 DEF p

LEMMA SeenRows ==
    ASSUME Types, NEW c \in Clients, IsBatch(tx[c])
    PROVE  /\ IsTable(Seen(c)) /\ Seen(c) = Over(tx[c].pending, row)
           /\ DOMAIN row \subseteq DOMAIN Seen(c)
  <1>1. Pending(c) = tx[c].pending /\ IsTable(tx[c].pending) /\ IsTable(row)
    BY DEF Pending, IsBatch, Types, RowsOK
  <1>2. QED
    BY <1>1, OverTable, OverIsTable DEF Seen

LEMMA PendingIs ==
    ASSUME Types, NEW c \in Clients
    PROVE  /\ IsTable(Pending(c))
           /\ tx[c].op = "batch" => IsBatch(tx[c]) /\ Pending(c) = tx[c].pending
           /\ tx[c].op # "batch" => DOMAIN Pending(c) = {}
           /\ tx[c].op = "batch" => DOMAIN Pending(c) \subseteq Named(c)
  <1>1. tx[c].op = "batch" => IsBatch(tx[c])
    BY TxCases DEF Types, TxOK
  <1>2. QED
    BY <1>1, NoRows DEF Pending, IsBatch, Named

(* What a step makes of the request of c: nothing, a batch that plans a    *)
(* row, or one that has answered an item and flushed at most one row.      *)
Flushes(c, u, ids, n) ==
    /\ u.plan = Null
    /\ DOMAIN u.pending = DOMAIN tx[c].pending \cup ids
    /\ u.answer.created = tx[c].answer.created + n

Plans(c, u) ==
    /\ u.pending = tx[c].pending /\ u.answer = tx[c].answer
    /\ IF u.plan.id = Null THEN ~Clashes(u.table, u.plan.new, Over(u.pending, row))
       ELSE u.plan.id \in DOMAIN Over(u.pending, row)

Continues(c, u) ==
    /\ tx' = [tx EXCEPT ![c] = u] /\ UNCHANGED <<rows, commits>>
    /\ \/ u = Idle
       \/ /\ tx[c].op = "batch" /\ IsBatch(u) /\ u.at = tx[c].at
          /\ \/ Plans(c, u)
             \/ Flushes(c, u, {}, 0)
             \/ \E id \in Ids \ DOMAIN row :
                  (\A d \in Clients : id \notin DOMAIN Pending(d)) /\ Flushes(c, u, {id}, 1)
             \/ \E id \in DOMAIN row :
                  (\A d \in Others(c) : id \notin DOMAIN Pending(d)) /\ Flushes(c, u, {id}, 0)

LEMMA AnswerContinues ==
    ASSUME Types, NEW c \in Clients, tx[c].op = "batch", IsBatch(tx[c]), tx[c].todo # <<>>,
           NEW how \in {"updated", "skipped", "failed"}, Answer(c, how, <<>>)
    PROVE  \E u : Continues(c, u)
  <1>1. PICK u : /\ tx' = [tx EXCEPT ![c] = u] /\ UNCHANGED <<rows, commits>>
                 /\ IsBatch(u) /\ u.at = tx[c].at /\ u.plan = Null
                 /\ u.pending = Over(<<>>, tx[c].pending)
                 /\ u.answer.created = tx[c].answer.created + (IF how = "created" THEN 1 ELSE 0)
    BY NoRows, AnswerEffect
  <1>2. DOMAIN Over(<<>>, tx[c].pending) = DOMAIN <<>> \cup DOMAIN tx[c].pending
    BY OverTable
  <1>3. DOMAIN u.pending = DOMAIN tx[c].pending \cup {}
    BY <1>1, <1>2, NoRows
  <1>4. tx[c].answer.created \in Nat
    BY DEF IsBatch, Answers
  <1>5. u.answer.created = tx[c].answer.created + 0
    BY <1>1, <1>4
  <1>6. Flushes(c, u, {}, 0)
    BY <1>1, <1>3, <1>5 DEF Flushes
  <1>7. QED
    BY <1>1, <1>6 DEF Continues

LEMMA EndContinues ==
    ASSUME NEW c \in Clients, End(c)
    PROVE  \E u : Continues(c, u)
  BY DEF End, Continues

LEMMA PlanContinues ==
    ASSUME Types, NEW c \in Clients, tx[c].op = "batch", IsBatch(tx[c]), tx[c].todo # <<>>,
           NEW id, NEW old, NEW new, IsPlan([id |-> id, old |-> old, new |-> new]),
           IF id = Null THEN ~Clashes(tx[c].table, new, Seen(c)) ELSE id \in DOMAIN Seen(c),
           Plan(c, id, old, new)
    PROVE  \E u : Continues(c, u)
  <1>1. PICK u : /\ tx' = [tx EXCEPT ![c] = u] /\ UNCHANGED <<rows, commits>>
                 /\ IsBatch(u) /\ u.at = tx[c].at /\ u.table = tx[c].table
                 /\ u.plan = [id |-> id, old |-> old, new |-> new]
                 /\ u.pending = tx[c].pending /\ u.answer = tx[c].answer
    BY PlanEffect
  <1>2. u.plan.id = id /\ u.plan.new = new
    BY <1>1
  <1>3. Plans(c, u)
    BY <1>1, <1>2, SeenRows DEF Plans
  <1>4. QED
    BY <1>1, <1>3 DEF Continues

LEMMA LookContinues ==
    ASSUME Types, NEW c \in Clients, Look(c)
    PROVE  \E u : Continues(c, u)
  <1> DEFINE t == tx[c]
             i == Head(t.todo)
             S == Seen(c)
  <1>1. t.op = "batch" /\ t.todo # <<>>
    BY DEF Look, LookForImport, LookForBulkCreate, LookForBulkUpdate, LookForBulkUpsert, Looking
  <1>2. IsBatch(t)
    BY <1>1, PendingIs
  <1>3. i \in Items /\ Required(t.kind, i)
    BY <1>1, <1>2, FirstItem
  <1>4. IsTable(S) /\ DOMAIN row \subseteq DOMAIN S
    BY <1>2, SeenRows
  <1>5. i.name \in Names \cup {Null, LeftOut} /\ i.key \in Keys \cup {Null} /\ i.code \in (Int \ {0}) \cup {Null}
    BY <1>3 DEF Items
  <1> HIDE DEF i, S
  <1>6. ASSUME NEW how \in {"updated", "skipped", "failed"}, Answer(c, how, <<>>)
        PROVE  \E u : Continues(c, u)
    BY <1>1, <1>2, <1>6, AnswerContinues
  <1>7. ASSUME NEW id \in DOMAIN S, Plan(c, id, S[id], Renamed(S[id], i.name))
        PROVE  \E u : Continues(c, u)
    <2>1. id \in Ids /\ S[id] \in Row /\ id # Null
      BY <1>4, NullAssumption DEF IsTable, NullAssumption
    <2>2. Renamed(S[id], i.name) \in Asked
      BY <1>5, <2>1, RenamedRow
    <2>3. IsPlan([id |-> id, old |-> S[id], new |-> Renamed(S[id], i.name)])
      BY <2>1, <2>2 DEF IsPlan
    <2>4. QED
      BY <1>1, <1>2, <1>7, <2>1, <2>3, PlanContinues DEF S
  <1>8. ASSUME NEW new \in Row, ~Clashes(t.table, new, S), Plan(c, Null, Null, new)
        PROVE  \E u : Continues(c, u)
    <2>1. IsPlan([id |-> Null, old |-> Null, new |-> new])
      BY <1>8 DEF IsPlan
    <2>2. QED
      BY <1>1, <1>2, <1>8, <2>1, PlanContinues DEF S
  <1>9. ASSUME i.code # Null, i.name \in Names, Found(c, "code", i.code) = {},
               Plan(c, Null, Null, NewBulkRow(i))
        PROVE  \E u : Continues(c, u)
    <2>1. NewBulkRow(i) \in Row /\ NewBulkRow(i).key = Null /\ NewBulkRow(i).code = i.code
      BY <1>5, <1>9 DEF NewBulkRow, Row
    <2>2. \A id \in In(t.table, S) : S[id].code # i.code
      BY <1>9 DEF Found, S
    <2>3. ~Clashes(t.table, NewBulkRow(i), S)
      BY <2>1, <2>2 DEF Clashes, Clash
    <2>4. QED
      BY <1>8, <1>9, <2>1, <2>3
  <1>10. ASSUME NEW f, NEW v, NEW id \in Found(c, f, v)
         PROVE  id \in DOMAIN S
    BY <1>10 DEF Found, In, S
  <1>11. CASE LookForImport(c)
    <2> DEFINE targets == IF i.key = Null THEN {} ELSE Found(c, "key", i.key)
    <2>1. CASE Answer(c, "failed", <<>>)
      BY <1>6, <2>1
    <2>2. CASE \E id \in targets :
                 LET old == S[id]
                     new == Renamed(old, i.name)
                 IN IF new = old THEN Answer(c, "skipped", <<>>) ELSE Plan(c, id, old, new)
      BY <1>6, <1>7, <1>10, <2>2
    <2>3. CASE /\ targets = {} /\ i.name # LeftOut
               /\ Plan(c, Null, Null, [code |-> NextCode(t.table, S), key |-> i.key,
                                       name |-> i.name, active |-> TRUE])
      <3> DEFINE new == [code |-> NextCode(t.table, S), key |-> i.key, name |-> i.name, active |-> TRUE]
      <3>1. /\ NextCode(t.table, S) \in Int \ {0}
            /\ \A id \in In(t.table, S) : S[id].code # NextCode(t.table, S)
        BY <1>4, NextCodeIsFree
      <3>2. new \in Row
        <4>1. t.kind = "import"
          BY <1>11 DEF LookForImport, Looking
        <4>2. i.name \in Names
          BY <1>3, <1>5, <2>3, <4>1 DEF Required
        <4>3. QED
          BY <1>5, <3>1, <4>2 DEF Row
      <3>3. i.key # Null => \A id \in In(t.table, S) : S[id].key # i.key
        BY <2>3 DEF Found, S
      <3>4. ~Clashes(t.table, new, S)
        BY <3>1, <3>3 DEF Clashes, Clash
      <3> HIDE DEF new
      <3>5. QED
        BY <1>8, <2>3, <3>2, <3>4 DEF new
    <2>4. QED
      BY <1>11, <2>1, <2>2, <2>3 DEF LookForImport, i, S
  <1>12. CASE LookForBulkCreate(c)
    BY <1>3, <1>6, <1>9, <1>12 DEF LookForBulkCreate, Looking, Required, i
  <1>13. CASE LookForBulkUpdate(c)
    BY <1>4, <1>6, <1>7, <1>13 DEF LookForBulkUpdate, i, S
  <1>14. CASE LookForBulkUpsert(c)
    BY <1>3, <1>7, <1>9, <1>10, <1>14 DEF LookForBulkUpsert, Looking, Required, i, S
  <1>15. QED
    BY <1>11, <1>12, <1>13, <1>14 DEF Look

LEMMA FlushContinues ==
    ASSUME Types, NEW c \in Clients, Flush(c)
    PROVE  \E u : Continues(c, u)
  <1> DEFINE t == tx[c]
  <1>1. t.op = "batch" /\ t.plan # Null
    BY DEF Flush, FlushInsert, FlushUpdate, FlushClashes, FlushNull, FlushFindsNoRow, Deadlock,
           Flushing, Waits, MeetsPurge
  <1>2. IsBatch(t) /\ t.todo # <<>> /\ IsPlan(t.plan)
    BY <1>1, PendingIs DEF IsBatch
  <1>3. t.answer.created \in Nat
    BY <1>2 DEF IsBatch, Answers
  <1>4. ASSUME NEW how \in {"updated", "skipped", "failed"}, Answer(c, how, <<>>)
        PROVE  \E u : Continues(c, u)
    BY <1>1, <1>2, <1>4, AnswerContinues
  <1>5. ASSUME NEW how \in {"created", "updated"}, NEW id \in Ids, NEW new \in Row,
               Answer(c, how, Only(id, new)),
               how = "created" => id \notin DOMAIN row /\ \A d \in Clients : id \notin DOMAIN Pending(d),
               how = "updated" => id \in DOMAIN Seen(c) /\ \A d \in Others(c) : id \notin DOMAIN Pending(d)
        PROVE  \E u : Continues(c, u)
    <2>1. IsTable(Only(id, new)) /\ DOMAIN Only(id, new) = {id}
      BY OnlyRow
    <2>2. PICK u : /\ tx' = [tx EXCEPT ![c] = u] /\ UNCHANGED <<rows, commits>>
                   /\ IsBatch(u) /\ u.at = t.at /\ u.plan = Null
                   /\ u.pending = Over(Only(id, new), t.pending)
                   /\ u.answer.created = t.answer.created + (IF how = "created" THEN 1 ELSE 0)
      BY <1>2, <1>5, <2>1, AnswerEffect
    <2>3. DOMAIN Over(Only(id, new), t.pending) = DOMAIN Only(id, new) \cup DOMAIN t.pending
      BY OverTable
    <2>4. DOMAIN u.pending = DOMAIN t.pending \cup {id}
      BY <2>1, <2>2, <2>3
    <2>5. CASE how = "created"
      <3>1. Flushes(c, u, {id}, 1)
        BY <2>2, <2>4, <2>5 DEF Flushes
      <3>2. QED
        BY <1>1, <1>5, <2>2, <2>5, <3>1 DEF Continues
    <2>6. CASE how = "updated"
      <3>1. Flushes(c, u, {id}, 0)
        BY <2>2, <2>4, <2>6 DEF Flushes
      <3>2. CASE id \in DOMAIN row
        BY <1>1, <1>5, <2>2, <2>6, <3>1, <3>2 DEF Continues
      <3>3. CASE id \in DOMAIN t.pending
        <4>1. Flushes(c, u, {}, 0)
          BY <3>1, <3>3 DEF Flushes
        <4>2. QED
          BY <1>1, <2>2, <4>1 DEF Continues
      <3>4. id \in DOMAIN row \cup DOMAIN t.pending
        <4>1. Seen(c) = Over(t.pending, row)
          BY <1>2, SeenRows
        <4>2. DOMAIN Over(t.pending, row) = DOMAIN t.pending \cup DOMAIN row
          BY OverTable
        <4>3. QED
          BY <1>5, <2>6, <4>1, <4>2
      <3>5. QED
        BY <3>2, <3>3, <3>4
    <2>7. QED
      BY <2>5, <2>6
  <1>6. CASE FlushInsert(c)
    <2>1. PICK id \in Fresh(t.table) : Answer(c, "created", Only(id, t.plan.new))
      BY <1>6 DEF FlushInsert
    <2>2. id \in Ids /\ id \notin DOMAIN row /\ \A d \in Clients : id \notin Named(d)
      BY DEF Fresh
    <2>3. \A d \in Clients : id \notin DOMAIN Pending(d)
      BY <2>2, PendingIs
    <2>4. QED
      BY <1>2, <1>5, <1>6, <2>1, <2>2, <2>3 DEF IsPlan, FlushInsert
  <1>7. CASE FlushUpdate(c)
    <2>1. CASE t.plan.new = t.plan.old
      BY <1>4, <1>7, <2>1 DEF FlushUpdate
    <2>2. CASE t.plan.new # t.plan.old
      <3>1. /\ t.plan.id # Null /\ t.plan.id \in DOMAIN Seen(c) /\ \A d \in Clients : ~Waits(c, d)
            /\ ~SetsNull(c)
            /\ Answer(c, "updated", Only(t.plan.id, Changed(t.plan, Seen(c)[t.plan.id])))
        BY <1>7, <2>2 DEF FlushUpdate, Flushing
      <3>2. \A d \in Others(c) : t.plan.id \notin DOMAIN Pending(d)
        BY <1>1, <2>2, <3>1 DEF Waits, UpdateWaits, Others
      <3>3. /\ t.plan.new \in Row /\ t.plan.old \in Row /\ t.plan.id \in Ids
        <4>1. /\ t.plan.new \in Asked /\ t.plan.old \in Row /\ t.plan.id \in Ids
          BY <1>2, <3>1 DEF IsPlan
        <4>2. t.plan.new.name # Null
          BY <1>1, <3>1 DEF SetsNull
        <4>3. QED
          BY <4>1, <4>2, AskedRow
      <3>4. Seen(c)[t.plan.id] \in Row
        BY <1>2, <3>1, SeenRows DEF IsTable
      <3>5. Changed(t.plan, Seen(c)[t.plan.id]) \in Row
        BY <3>3, <3>4, ChangedRow
      <3>6. QED
        BY <1>5, <3>1, <3>2, <3>3, <3>5
    <2>3. QED
      BY <2>1, <2>2
  <1>8. CASE FlushClashes(c) \/ FlushNull(c) \/ FlushFindsNoRow(c) \/ Deadlock(c)
    BY <1>4, <1>8, EndContinues DEF FlushClashes, FlushNull, FlushFindsNoRow, Deadlock, ReportItem
  <1>9. QED
    BY <1>6, <1>7, <1>8 DEF Flush

-----------------------------------------------------------------------------
(* The kinds of steps there are. *)
LEMMA StepCases ==
    ASSUME Types, [Next]_vars
    PROVE  \/ UNCHANGED vars
           \/ \E c \in Clients : \E t : Loads(c, t)
           \/ \E c \in Clients : \E u : Continues(c, u)
           \/ \E c \in Clients : Commit(c)
           \/ \E id \in Ids : Order(id)
  <1>1. ASSUME NEW c \in Clients, Refuse(c) \/ Rollback(c)
        PROVE  \E u : Continues(c, u)
    BY <1>1, EndContinues DEF Refuse, Rollback
  <1>2. QED
    BY <1>1, LoadCases, LookContinues, FlushContinues DEF Next

(* A commit ends its request, and the requests that loaded the mapping it  *)
(* deletes will not find it.                                               *)
Ended(c) ==
    /\ tx[c] # Idle /\ commits' = commits + 1
    /\ DOMAIN tx' = Clients /\ tx'[c] = Idle
    /\ \A d \in Others(c) :
         \/ tx'[d] = tx[d]
         \/ tx[d].op \in {"rank", "unmap"} /\ tx'[d] = [tx[d] EXCEPT !.gone = TRUE]

LEMMA CommitEnds ==
    ASSUME Types, NEW c \in Clients, Commit(c)
    PROVE  Ended(c)
  <1>1. DOMAIN tx = Clients
    BY DEF Types, TxOK
  <1>2. tx[c] # Idle
    BY DEF Commit, CommitRow, CommitMapping, CommitUnmap, CommitBatch, Idle
  <1>3. CASE Finish(c)
    BY <1>1, <1>2, <1>3 DEF Finish, Ended, Others
  <1>4. CASE CommitUnmap(c)
    BY <1>2, <1>4 DEF CommitUnmap, Ended, Others
  <1>5. QED
    BY <1>3, <1>4 DEF Commit, CommitRow, CommitMapping, CommitBatch

LEMMA GoneTx ==
    ASSUME NEW t, IsTx(t), t.op \in {"rank", "unmap"}
    PROVE  LET g == [t EXCEPT !.gone = TRUE] IN IsTx(g) /\ g # Idle /\ g.op = t.op /\ g.at = t.at
  <1> DEFINE g == [t EXCEPT !.gone = TRUE]
  <1>1. CASE t.op = "rank"
    <2>1. t \in RankTx
      BY <1>1, TxCases
    <2>2. g \in RankTx /\ g.op = t.op /\ g.at = t.at
      BY <2>1 DEF RankTx
    <2>3. QED
      BY <1>1, <2>2 DEF IsTx, SingleTx, Idle
  <1>2. CASE t.op = "unmap"
    <2>1. t \in UnmapTx
      BY <1>2, TxCases
    <2>2. g \in UnmapTx /\ g.op = t.op /\ g.at = t.at
      BY <2>1 DEF UnmapTx
    <2>3. QED
      BY <1>2, <2>2 DEF IsTx, SingleTx, Idle
  <1>3. QED
    BY <1>1, <1>2

LEMMA EndedTypes ==
    ASSUME Types, NEW c \in Clients, Ended(c)
    PROVE  TxOK'
  <1>1. commits \in Nat /\ commits' = commits + 1
    BY DEF Types, RowsOK, Ended
  <1>2. ASSUME NEW d \in Clients
        PROVE  IsTx(tx'[d]) /\ (tx'[d] # Idle => tx'[d].at <= commits')
    <2>1. IsTx(tx[d]) /\ (tx[d] # Idle => tx[d].at <= commits /\ tx[d].at \in Nat)
      BY TxCases DEF Types, TxOK
    <2>2. CASE d = c
      BY <2>2 DEF Ended, IsTx
    <2>3. CASE d # c /\ tx'[d] = tx[d]
      BY <1>1, <2>1, <2>3
    <2>4. CASE tx[d].op \in {"rank", "unmap"} /\ tx'[d] = [tx[d] EXCEPT !.gone = TRUE]
      <3>1. IsTx(tx'[d]) /\ tx'[d].at = tx[d].at
        BY <2>1, <2>4, GoneTx
      <3>2. tx[d] # Idle
        BY <2>4 DEF Idle
      <3>3. QED
        BY <1>1, <2>1, <3>1, <3>2
    <2>5. QED
      BY <2>2, <2>3, <2>4 DEF Ended, Others
  <1>3. DOMAIN tx' = Clients
    BY DEF Ended
  <1>4. QED
    BY <1>2, <1>3 DEF TxOK

LEMMA TypesStart == Init => Types
  <1> SUFFICES ASSUME Init PROVE Types
    OBVIOUS
  <1>1. PICK s \in Starts : row = s.row /\ mapping = s.mapping /\ used = s.used
    BY DEF Init
  <1>2. RowsOK
    BY <1>1, StartsAssumption DEF StartsAssumption, RowsOK, IsTable, Pairs, Init
  <1>3. TxOK
    BY DEF Init, TxOK, IsTx
  <1>4. QED
    BY <1>2, <1>3 DEF Types

(* What a commit leaves in the tables. *)
LEMMA CommitRows ==
    ASSUME Types, NEW c \in Clients, Commit(c)
    PROVE  RowsOK'
  <1>1. IsTx(tx[c]) /\ IsTable(row) /\ commits \in Nat
    BY DEF Types, TxOK, RowsOK
  <1>2. commits' \in Nat
    BY <1>1, CommitEnds DEF Ended
  <1>3. ASSUME IsTable(row'), UNCHANGED <<mapping, used>>
        PROVE  RowsOK'
    BY <1>2, <1>3 DEF Types, RowsOK
  <1>4. CASE CommitRow(c)
    <2>1. UNCHANGED <<mapping, used>> /\ Accepted(c)
      BY <1>4 DEF CommitRow
    <2>2. CASE tx[c].op = "create"
      <3>1. PICK id \in Fresh(tx[c].table) : row' = Over(row, Only(id, tx[c].new))
        BY <1>4, <2>2 DEF CommitRow
      <3>2. id \in Ids /\ tx[c].new \in Row
        BY <1>1, <2>2, TxCases DEF Fresh, CreateTx
      <3>3. IsTable(Only(id, tx[c].new))
        BY <3>2, OnlyRow
      <3>4. QED
        BY <1>1, <1>3, <2>1, <3>1, <3>3, OverIsTable
    <2>3. CASE tx[c].op = "change"
      <3>1. tx[c].id \in DOMAIN row /\ row' = [row EXCEPT ![tx[c].id] = Changed(tx[c], @)]
        BY <1>4, <2>1, <2>3 DEF CommitRow, Accepted
      <3>2. tx[c] \in ChangeTx
        BY <1>1, <2>3, TxCases
      <3>3. tx[c].old \in Row /\ tx[c].new \in Row
        <4>1. tx[c].old \in Row /\ tx[c].new \in Asked
          BY <3>2 DEF ChangeTx
        <4>2. tx[c].new.name # Null
          BY <2>1, <2>3 DEF Accepted, SetsNull
        <4>3. QED
          BY <4>1, <4>2, AskedRow
      <3>4. Changed(tx[c], row[tx[c].id]) \in Row
        BY <1>1, <3>1, <3>3, ChangedRow DEF IsTable
      <3>5. QED
        BY <1>1, <1>3, <2>1, <3>1, <3>4 DEF IsTable
    <2>4. CASE tx[c].op \in {"delete", "purge"}
      BY <1>1, <1>3, <1>4, <2>1, <2>4 DEF CommitRow, Restrict, IsTable
    <2>5. QED
      BY <1>4, <2>2, <2>3, <2>4 DEF CommitRow
  <1>5. CASE CommitMapping(c)
    <2> DEFINE m == tx[c].pair
               o == Only(m, tx[c].rank)
    <2>1. mapping' = Over(o, mapping) /\ UNCHANGED <<row, used>> /\ tx[c].op \in {"map", "rank"}
      BY <1>5 DEF CommitMapping
    <2>2. m \in Pairs /\ tx[c].rank \in Ranks
      <3>1. CASE tx[c].op = "map"
        BY <1>1, <3>1, TxCases DEF MapTx
      <3>2. CASE tx[c].op = "rank"
        <4>1. tx[c] \in RankTx
          BY <1>1, <3>2, TxCases
        <4>2. tx[c].rank # Null
          BY <1>5, <3>2 DEF CommitMapping, Accepted, SetsNull
        <4>3. QED
          BY <4>1, <4>2 DEF RankTx
      <3>3. QED
        BY <2>1, <3>1, <3>2
    <2>3. DOMAIN o = {m} /\ o[m] = tx[c].rank
      BY OnlyRow
    <2> HIDE DEF o
    <2>4. /\ DOMAIN Over(o, mapping) = {m} \cup DOMAIN mapping
          /\ Over(o, mapping)[m] = tx[c].rank
          /\ \A k \in DOMAIN mapping \ {m} : Over(o, mapping)[k] = mapping[k]
      BY <2>3 DEF Over
    <2>5. QED
      BY <1>2, <2>1, <2>2, <2>4 DEF Types, RowsOK
  <1>6. CASE CommitUnmap(c)
    <2>1. UNCHANGED <<row, used>>
      BY <1>6 DEF CommitUnmap
    <2>2. /\ DOMAIN mapping' \subseteq DOMAIN mapping
          /\ \A m \in DOMAIN mapping' : mapping'[m] = mapping[m]
      BY <1>6 DEF CommitUnmap, Restrict
    <2>3. QED
      BY <1>2, <2>1, <2>2 DEF Types, RowsOK
  <1>7. CASE CommitBatch(c)
    BY <1>1, <1>3, <1>7, PendingIs, OverIsTable DEF CommitBatch
  <1>8. QED
    BY <1>4, <1>5, <1>6, <1>7 DEF Commit

LEMMA TypesStep ==
    ASSUME Types, [Next]_vars
    PROVE  Types'
  <1>1. CASE UNCHANGED vars
    BY <1>1 DEF vars, rows, Types, RowsOK, TxOK
  <1>2. ASSUME NEW c \in Clients, NEW t, tx' = [tx EXCEPT ![c] = t], UNCHANGED <<rows, commits>>,
               IsTx(t), t # Idle => t.at <= commits
        PROVE  Types'
    BY <1>2 DEF Types, RowsOK, TxOK, rows
  <1>3. ASSUME NEW c \in Clients, NEW t, Loads(c, t)
        PROVE  Types'
    <2>1. t.at <= commits
      BY <1>3 DEF Loads, Types, RowsOK
    <2>2. QED
      BY <1>2, <1>3, <2>1 DEF Loads, Begin
  <1>4. ASSUME NEW c \in Clients, NEW u, Continues(c, u)
        PROVE  Types'
    <2>1. tx[c].op = "batch" => tx[c].at <= commits
      BY DEF Types, TxOK, Idle
    <2>2. IsTx(u) /\ (u # Idle => u.at <= commits)
      BY <1>4, <2>1 DEF Continues, IsTx
    <2>3. QED
      BY <1>2, <1>4, <2>2 DEF Continues
  <1>5. ASSUME NEW c \in Clients, Commit(c)
        PROVE  Types'
    BY <1>5, CommitRows, CommitEnds, EndedTypes DEF Types
  <1>6. ASSUME NEW id \in Ids, Order(id)
        PROVE  Types'
    <2>1. UNCHANGED <<row, mapping, tx>> /\ commits' = commits + 1
      BY <1>6 DEF Order
    <2>2. used' \subseteq Products \cup Customers
      BY <1>6, TablesAssumption
         DEF Order, Types, RowsOK, IsTable, Products, Customers, Suppliers, TablesAssumption, Tables
    <2>3. commits \in Nat /\ commits' \in Nat
      BY <2>1 DEF Types, RowsOK
    <2>4. RowsOK'
      BY <2>1, <2>2, <2>3 DEF Types, RowsOK
    <2>5. ASSUME NEW c \in Clients, tx[c] # Idle
          PROVE  tx[c].at <= commits'
      BY <2>1, <2>3, <2>5, TxCases DEF Types, TxOK
    <2>6. TxOK'
      BY <2>1, <2>5 DEF Types, TxOK
    <2>7. QED
      BY <2>4, <2>6 DEF Types
  <1>7. QED
    BY <1>1, <1>3, <1>4, <1>5, <1>6, StepCases

-----------------------------------------------------------------------------
(* The bound on requests. *)
InFlight == {c \in Clients : tx[c] # Idle}

Budget == commits + Cardinality(InFlight) <= MaxCommits

LEMMA FlightIsFinite == IsFiniteSet(InFlight) /\ Cardinality(InFlight) \in Nat
  BY FiniteAssumption, FS_Subset, FS_CardinalityType DEF FiniteAssumption, InFlight

LEMMA BudgetStart == Init => Budget
  <1> SUFFICES ASSUME Init PROVE Budget
    OBVIOUS
  <1>1. InFlight = {} /\ commits = 0
    BY DEF Init, InFlight
  <1>2. QED
    BY <1>1, FS_EmptySet, BoundAssumption DEF Budget, BoundAssumption

LEMMA BudgetStep ==
    ASSUME Types, Budget, [Next]_vars
    PROVE  Budget'
  <1>1. commits \in Nat /\ MaxCommits \in Nat /\ DOMAIN tx = Clients
    BY BoundAssumption DEF BoundAssumption, Types, TxOK, RowsOK
  <1>2. CASE UNCHANGED vars
    BY <1>2 DEF vars, rows, Budget, InFlight
  <1>3. ASSUME NEW c \in Clients, NEW t, Loads(c, t)
        PROVE  Budget'
    <2>1. /\ tx[c] = Idle /\ commits' = commits /\ tx' = [tx EXCEPT ![c] = t] /\ t # Idle
          /\ commits + Cardinality(InFlight) < MaxCommits
      BY <1>3 DEF Loads, Begin, InFlight
    <2>2. InFlight' = InFlight \cup {c} /\ c \notin InFlight
      BY <1>1, <2>1 DEF InFlight
    <2>3. Cardinality(InFlight') = Cardinality(InFlight) + 1
      BY <2>2, FlightIsFinite, FS_AddElement
    <2>4. QED
      BY <1>1, <2>1, <2>3, FlightIsFinite DEF Budget
  <1>4. ASSUME NEW c \in Clients, NEW u, Continues(c, u)
        PROVE  Budget'
    <2>1. commits' = commits /\ tx' = [tx EXCEPT ![c] = u] /\ (u # Idle => tx[c] # Idle)
      BY <1>4 DEF Continues, Idle
    <2>2. InFlight' \subseteq InFlight
      BY <1>1, <2>1 DEF InFlight
    <2>3. Cardinality(InFlight') \in Nat /\ Cardinality(InFlight') <= Cardinality(InFlight)
      BY <2>2, FlightIsFinite, FS_Subset, FS_CardinalityType
    <2>4. QED
      BY <1>1, <2>1, <2>3, FlightIsFinite DEF Budget
  <1>5. ASSUME NEW c \in Clients, Commit(c)
        PROVE  Budget'
    <2>1. Ended(c)
      BY <1>5, CommitEnds
    <2>2. InFlight' = InFlight \ {c} /\ c \in InFlight
      <3>1. \A d \in Others(c) : tx'[d] # Idle <=> tx[d] # Idle
        BY <2>1, GoneTx DEF Ended, Types, TxOK, Others, Idle
      <3>2. QED
        BY <2>1, <3>1 DEF Ended, InFlight, Others
    <2>3. Cardinality(InFlight') = Cardinality(InFlight) - 1
      BY <2>2, FlightIsFinite, FS_RemoveElement
    <2>4. QED
      BY <1>1, <2>1, <2>3, FlightIsFinite DEF Budget, Ended
  <1>6. ASSUME NEW id \in Ids, Order(id)
        PROVE  Budget'
    <2>1. tx' = tx /\ commits' = commits + 1 /\ commits < MaxCommits - Cardinality(InFlight)
      BY <1>6 DEF Order, InFlight
    <2>2. InFlight' = InFlight
      BY <2>1 DEF InFlight
    <2>3. QED
      BY <1>1, <2>1, <2>2, FlightIsFinite DEF Budget
  <1>7. QED
    BY <1>2, <1>3, <1>4, <1>5, <1>6, StepCases

LEMMA TypesImply == Types /\ Budget => TypeOK
  <1> SUFFICES ASSUME Types, Budget PROVE TypeOK
    OBVIOUS
  <1>1. commits \in 0 .. MaxCommits
    BY FlightIsFinite, BoundAssumption DEF BoundAssumption, Budget, Types, RowsOK
  <1>2. ASSUME NEW c \in Clients
        PROVE  /\ tx[c].op \in {"idle", "create", "change", "delete", "purge", "map", "rank", "unmap",
                                "batch"}
               /\ DOMAIN Pending(c) \subseteq Ids
               /\ \A id \in DOMAIN Pending(c) : Pending(c)[id] \in Row
    BY TxCases, PendingIs DEF IsTable, Types, TxOK
  <1>3. QED
    BY <1>1, <1>2 DEF TypeOK, Types, RowsOK, IsTable, Pairs

(* The tables hold rows and the requests in flight keep what they hold of  *)
(* rows; what a batch has flushed are rows too (create_*, update_*,        *)
(* bulk_* and import_* of the three routers).                              *)
THEOREM TypeCorrect == Spec => []TypeOK
  <1>1. Init => Types /\ Budget
    BY TypesStart, BudgetStart
  <1>2. (Types /\ Budget) /\ [Next]_vars => (Types /\ Budget)'
    BY TypesStep, BudgetStep
  <1>3. QED
    BY <1>1, <1>2, TypesImply, PTL DEF Spec

-----------------------------------------------------------------------------
(* Until another request commits, what was checked still holds. *)
NotRefused == \A c \in Clients : tx[c] # Idle /\ tx[c].at = commits => Checked(tx[c])

LEMMA NotRefusedStep ==
    ASSUME Types, NotRefused, [Next]_vars
    PROVE  NotRefused'
  <1> USE DEF NotRefused
  <1>1. DOMAIN tx = Clients /\ commits \in Nat
    BY DEF Types, TxOK, RowsOK
  <1>2. CASE UNCHANGED vars
    BY <1>2 DEF vars, rows, Checked, Clashes, In, Referenced
  <1>3. ASSUME NEW c \in Clients, NEW t, tx' = [tx EXCEPT ![c] = t], UNCHANGED <<rows, commits>>,
               t # Idle /\ t.at = commits => Checked(t)
        PROVE  NotRefused'
    BY <1>1, <1>3 DEF rows, Checked, Clashes, In, Referenced
  <1>4. ASSUME NEW c \in Clients, NEW t, Loads(c, t)
        PROVE  NotRefused'
    BY <1>3, <1>4 DEF Loads, Begin
  <1>5. ASSUME NEW c \in Clients, NEW u, Continues(c, u)
        PROVE  NotRefused'
    <2>1. ASSUME u # Idle
          PROVE  Checked(u)
      <3>1. u.op = "batch" /\ (u.plan = Null \/ Plans(c, u))
        BY <1>5, <2>1 DEF Continues, Flushes, IsBatch
      <3>2. QED
        BY <3>1 DEF Checked, Plans
    <2>2. QED
      BY <1>3, <1>5, <2>1 DEF Continues
  <1>6. ASSUME commits' = commits + 1,
               \A c \in Clients : tx'[c] # Idle => tx[c] # Idle /\ tx'[c].at = tx[c].at
        PROVE  NotRefused'
    <2>1. \A c \in Clients : tx[c] # Idle => tx[c].at \in Nat /\ tx[c].at <= commits
      BY TxCases DEF Types, TxOK
    <2>2. \A c \in Clients : tx'[c] # Idle => tx'[c].at # commits'
      BY <1>1, <1>6, <2>1
    <2>3. QED
      BY <2>2
  <1>7. ASSUME NEW c \in Clients, Commit(c)
        PROVE  NotRefused'
    <2>1. Ended(c)
      BY <1>7, CommitEnds
    <2>2. \A d \in Clients : tx'[d] # Idle => tx[d] # Idle /\ tx'[d].at = tx[d].at
      BY <2>1, GoneTx DEF Ended, Types, TxOK, Others, Idle
    <2>3. QED
      BY <1>6, <2>1, <2>2 DEF Ended
  <1>8. ASSUME NEW id \in Ids, Order(id)
        PROVE  NotRefused'
    BY <1>6, <1>8 DEF Order
  <1>9. QED
    BY <1>2, <1>4, <1>5, <1>7, <1>8, StepCases

LEMMA NotRefusedImplies ==
    ASSUME Types, NotRefused
    PROVE  RefusedOnlyIfStaleOrNull
  <1> DEFINE Sound(c) ==
                 tx[c].op = "batch" /\ tx[c].plan # Null =>
                   IF tx[c].plan.id = Null THEN ~Clashes(tx[c].table, tx[c].plan.new, Seen(c))
                   ELSE tx[c].plan.id \in DOMAIN Seen(c)
  <1> SUFFICES ASSUME NEW c \in Clients, tx[c].op \notin {"idle", "purge"}, tx[c].at = commits,
                      ~SetsNull(c)
               PROVE  Accepted(c) /\ Sound(c)
    BY DEF RefusedOnlyIfStaleOrNull, Stale
  <1> DEFINE t == tx[c]
  <1>1. Checked(t)
    BY DEF NotRefused, Idle
  <1>2. t.op = "batch" => Seen(c) = Over(t.pending, row)
    BY PendingIs DEF Seen
  <1>3. t.op = "delete" => ~Referenced(t.ids \cap DOMAIN row)
    BY <1>1 DEF Checked, Referenced
  <1>4. Accepted(c)
    BY <1>1, <1>3 DEF Accepted, Checked
  <1>5. QED
    BY <1>1, <1>2, <1>4 DEF Checked

(* The database refuses a request, or an item of a batch, only when it     *)
(* asks for a null where none may be or another request committed since it *)
(* began: but for null, what the handlers check before they write is what  *)
(* the constraints ask.                                                    *)
THEOREM ChecksSuffice == Spec => []RefusedOnlyIfStaleOrNull
  <1>1. Init => Types /\ NotRefused
    BY TypesStart DEF Init, NotRefused
  <1>2. (Types /\ NotRefused) /\ [Next]_vars => (Types /\ NotRefused)'
    BY TypesStep, NotRefusedStep
  <1>3. QED
    BY <1>1, <1>2, NotRefusedImplies, PTL DEF Spec

-----------------------------------------------------------------------------
(* What batches have flushed.  Two of them never hold the same row, and    *)
(* each counts as created the rows it holds that are not committed.        *)
Held(c) == DOMAIN Pending(c)

Apart == \A c \in Clients : \A d \in Others(c) : Held(c) \cap Held(d) = {}

Counted ==
    \A c \in Clients :
      tx[c].op = "batch" => tx[c].answer.created = Cardinality(Held(c) \ DOMAIN row)

LEMMA HeldIsFinite ==
    ASSUME Types, NEW c \in Clients, NEW S
    PROVE  IsFiniteSet(Held(c) \ S) /\ Cardinality(Held(c) \ S) \in Nat
  <1>1. Held(c) \ S \in SUBSET Ids
    BY PendingIs DEF Held, IsTable
  <1>2. QED
    BY <1>1, FiniteAssumption, FS_Subset, FS_CardinalityType DEF FiniteAssumption

(* A step of one client leaves what the others hold. *)
LEMMA HeldByOthers ==
    ASSUME Types, NEW c \in Clients, NEW u, tx' = [tx EXCEPT ![c] = u]
    PROVE  \A d \in Others(c) : tx'[d] = tx[d] /\ Held(d)' = Held(d)
  BY DEF Types, TxOK, Others, Held, Pending

LEMMA HeldAfterLoad ==
    ASSUME Types, NEW c \in Clients, NEW t, Loads(c, t)
    PROVE  /\ \A d \in Others(c) : tx'[d] = tx[d] /\ Held(d)' = Held(d)
           /\ tx'[c] = t /\ Held(c)' = {}
  <1>1. tx' = [tx EXCEPT ![c] = t] /\ DOMAIN tx = Clients
    BY DEF Loads, Begin, Types, TxOK
  <1>2. Held(c)' = {}
    BY <1>1, NoRows DEF Held, Pending, Loads
  <1>3. QED
    BY <1>1, <1>2, HeldByOthers

LEMMA HeldAfterCommit ==
    ASSUME Types, NEW c \in Clients, Ended(c)
    PROVE  /\ \A d \in Others(c) : Held(d)' = Held(d) /\ (tx'[d].op = "batch" => tx'[d] = tx[d])
           /\ tx'[c] = Idle /\ Held(c)' = {}
  <1>1. Held(c)' = {} /\ tx'[c] = Idle
    BY NoRows DEF Ended, Held, Pending, Idle
  <1>2. ASSUME NEW d \in Others(c)
        PROVE  Held(d)' = Held(d) /\ (tx'[d].op = "batch" => tx'[d] = tx[d])
    <2>1. CASE tx'[d] = tx[d]
      BY <2>1 DEF Held, Pending
    <2>2. CASE tx[d].op \in {"rank", "unmap"} /\ tx'[d] = [tx[d] EXCEPT !.gone = TRUE]
      <3>1. tx'[d].op = tx[d].op
        BY <2>2, GoneTx DEF Types, TxOK, Others
      <3>2. QED
        BY <2>2, <3>1 DEF Held, Pending
    <2>3. QED
      BY <2>1, <2>2 DEF Ended
  <1>3. QED
    BY <1>1, <1>2

LEMMA HeldAfterStep ==
    ASSUME Types, NEW c \in Clients, NEW u, Continues(c, u)
    PROVE  /\ \A d \in Others(c) : tx'[d] = tx[d] /\ Held(d)' = Held(d)
           /\ row' = row /\ tx'[c] = u
           /\ u.op # "batch" => Held(c)' = {}
           /\ u.op = "batch" =>
                /\ tx[c].op = "batch" /\ Held(c)' = DOMAIN u.pending
                /\ \/ Held(c)' = Held(c) /\ u.answer.created = tx[c].answer.created
                   \/ \E id \in Ids \ DOMAIN row :
                        /\ \A d \in Clients : id \notin Held(d)
                        /\ Held(c)' = Held(c) \cup {id}
                        /\ u.answer.created = tx[c].answer.created + 1
                   \/ \E id \in DOMAIN row :
                        /\ \A d \in Others(c) : id \notin Held(d)
                        /\ Held(c)' = Held(c) \cup {id}
                        /\ u.answer.created = tx[c].answer.created
  <1>1. tx' = [tx EXCEPT ![c] = u] /\ tx'[c] = u /\ row' = row
    BY DEF Continues, rows, Types, TxOK
  <1>2. \A d \in Others(c) : tx'[d] = tx[d] /\ Held(d)' = Held(d)
    BY <1>1, HeldByOthers
  <1>3. u.op # "batch" => Held(c)' = {}
    BY <1>1, NoRows DEF Held, Pending
  <1>4. ASSUME u.op = "batch"
        PROVE  /\ tx[c].op = "batch" /\ Held(c)' = DOMAIN u.pending
               /\ \/ Held(c)' = Held(c) /\ u.answer.created = tx[c].answer.created
                  \/ \E id \in Ids \ DOMAIN row :
                       /\ \A d \in Clients : id \notin Held(d)
                       /\ Held(c)' = Held(c) \cup {id}
                       /\ u.answer.created = tx[c].answer.created + 1
                  \/ \E id \in DOMAIN row :
                       /\ \A d \in Others(c) : id \notin Held(d)
                       /\ Held(c)' = Held(c) \cup {id}
                       /\ u.answer.created = tx[c].answer.created
    <2>1. u # Idle
      BY <1>4 DEF Idle
    <2>2. tx[c].op = "batch"
      BY <2>1 DEF Continues
    <2>3. Held(c)' = DOMAIN u.pending /\ Held(c) = DOMAIN tx[c].pending
      BY <1>1, <1>4, <2>2 DEF Held, Pending
    <2>4. tx[c].answer.created \in Nat
      BY <2>2, PendingIs DEF IsBatch, Answers
    <2>5. CASE Plans(c, u)
      BY <2>2, <2>3, <2>5 DEF Plans
    <2>6. CASE Flushes(c, u, {}, 0)
      BY <2>2, <2>3, <2>4, <2>6 DEF Flushes
    <2>7. ASSUME NEW id \in Ids \ DOMAIN row, \A d \in Clients : id \notin DOMAIN Pending(d),
                 Flushes(c, u, {id}, 1)
          PROVE  \E k \in Ids \ DOMAIN row :
                   /\ \A d \in Clients : k \notin Held(d)
                   /\ Held(c)' = Held(c) \cup {k}
                   /\ u.answer.created = tx[c].answer.created + 1
      <3>1. \A d \in Clients : id \notin Held(d)
        BY <2>7 DEF Held
      <3>2. Held(c)' = Held(c) \cup {id} /\ u.answer.created = tx[c].answer.created + 1
        BY <2>3, <2>7 DEF Flushes
      <3>3. QED
        BY <3>1, <3>2
    <2>8. ASSUME NEW id \in DOMAIN row, \A d \in Others(c) : id \notin DOMAIN Pending(d),
                 Flushes(c, u, {id}, 0)
          PROVE  \E k \in DOMAIN row :
                   /\ \A d \in Others(c) : k \notin Held(d)
                   /\ Held(c)' = Held(c) \cup {k}
                   /\ u.answer.created = tx[c].answer.created
      <3>1. \A d \in Others(c) : id \notin Held(d)
        BY <2>8 DEF Held
      <3>2. Held(c)' = Held(c) \cup {id} /\ u.answer.created = tx[c].answer.created
        BY <2>3, <2>4, <2>8 DEF Flushes
      <3>3. QED
        BY <3>1, <3>2
    <2>9. QED
      BY <2>1, <2>2, <2>3, <2>5, <2>6, <2>7, <2>8 DEF Continues
  <1>5. QED
    BY <1>1, <1>2, <1>3, <1>4

LEMMA ApartStep ==
    ASSUME Types, Apart, [Next]_vars
    PROVE  Apart'
  <1>1. ASSUME \A d \in Clients : Held(d)' \subseteq Held(d)
        PROVE  Apart'
    BY <1>1 DEF Apart, Others
  <1>2. CASE UNCHANGED vars
    BY <1>1, <1>2 DEF vars, Held, Pending
  <1>3. ASSUME NEW c \in Clients, NEW t, Loads(c, t)
        PROVE  Apart'
    BY <1>1, <1>3, HeldAfterLoad DEF Others
  <1>4. ASSUME NEW c \in Clients, NEW u, Continues(c, u)
        PROVE  Apart'
    <2>1. /\ \A d \in Others(c) : Held(d)' = Held(d)
          /\ \/ Held(c)' \subseteq Held(c)
             \/ \E id : Held(c)' = Held(c) \cup {id} /\ \A d \in Others(c) : id \notin Held(d)
      BY <1>4, HeldAfterStep DEF Others
    <2>2. CASE Held(c)' \subseteq Held(c)
      BY <1>1, <2>1, <2>2 DEF Others
    <2>3. ASSUME NEW id, Held(c)' = Held(c) \cup {id}, \A d \in Others(c) : id \notin Held(d)
          PROVE  Apart'
      BY <2>1, <2>3 DEF Apart, Others
    <2>4. QED
      BY <2>1, <2>2, <2>3
  <1>5. ASSUME NEW c \in Clients, Commit(c)
        PROVE  Apart'
    BY <1>1, <1>5, CommitEnds, HeldAfterCommit DEF Others
  <1>6. ASSUME NEW id \in Ids, Order(id)
        PROVE  Apart'
    BY <1>1, <1>6 DEF Order, Held, Pending
  <1>7. QED
    BY <1>2, <1>3, <1>4, <1>5, <1>6, StepCases

(* A commit neither adds a row that another batch holds nor removes one. *)
LEMMA CommitSpares ==
    ASSUME Types, Apart, NEW c \in Clients, Commit(c), NEW d \in Others(c)
    PROVE  Held(d) \ DOMAIN row' = Held(d) \ DOMAIN row
  <1>1. d \in Clients /\ Held(d) \cap Held(c) = {}
    BY DEF Others, Apart
  <1>2. CASE CommitRow(c)
    <2>1. CASE tx[c].op = "create"
      <3>1. PICK id \in Fresh(tx[c].table) : row' = Over(row, Only(id, tx[c].new))
        BY <1>2, <2>1 DEF CommitRow
      <3>2. id \notin Named(d)
        BY <1>1 DEF Fresh
      <3>3. id \notin Held(d)
        BY <1>1, <3>2, PendingIs DEF Held
      <3>4. DOMAIN row' = DOMAIN row \cup {id}
        BY <3>1 DEF Over, Only
      <3>5. QED
        BY <3>3, <3>4
    <2>2. CASE tx[c].op = "change"
      BY <1>2, <2>2 DEF CommitRow
    <2>3. CASE tx[c].op \in {"delete", "purge"}
      <3>1. DOMAIN row' = DOMAIN row \ tx[c].ids
        BY <1>2, <2>3 DEF CommitRow, Restrict
      <3>2. \A id \in tx[c].ids : id \notin Held(d)
        BY <1>1, <1>2, <2>3 DEF CommitRow, MustWait, UpdateWaits, Held, Others
      <3>3. QED
        BY <3>1, <3>2
    <2>4. QED
      BY <1>2, <2>1, <2>2, <2>3 DEF CommitRow
  <1>3. CASE CommitMapping(c) \/ CommitUnmap(c)
    BY <1>3 DEF CommitMapping, CommitUnmap
  <1>4. CASE CommitBatch(c)
    <2>1. DOMAIN row' = Held(c) \cup DOMAIN row
      BY <1>4 DEF CommitBatch, Over, Held
    <2>2. QED
      BY <1>1, <2>1
  <1>5. QED
    BY <1>2, <1>3, <1>4 DEF Commit

LEMMA CountedStep ==
    ASSUME Types, Apart, Counted, [Next]_vars
    PROVE  Counted'
  <1>1. CASE UNCHANGED vars
    BY <1>1 DEF vars, rows, Counted, Held, Pending
  <1>2. ASSUME NEW c \in Clients, NEW t, Loads(c, t)
        PROVE  Counted'
    <2>1. row' = row
      BY <1>2 DEF Loads, Begin, rows
    <2>2. /\ \A d \in Others(c) : tx'[d] = tx[d] /\ Held(d)' = Held(d)
          /\ tx'[c] = t /\ Held(c)' \ DOMAIN row' = {} /\ Cardinality({}) = 0
      BY <1>2, HeldAfterLoad, FS_EmptySet
    <2>3. t.op = "batch" => t.answer.created = 0
      BY <1>2 DEF Loads
    <2>4. QED
      BY <2>1, <2>2, <2>3 DEF Counted, Others
  <1>3. ASSUME NEW c \in Clients, NEW u, Continues(c, u)
        PROVE  Counted'
    <2>1. /\ \A d \in Others(c) : tx'[d] = tx[d] /\ Held(d)' = Held(d)
          /\ row' = row /\ tx'[c] = u
      BY <1>3, HeldAfterStep
    <2>2. ASSUME u.op = "batch"
          PROVE  u.answer.created = Cardinality(Held(c)' \ DOMAIN row)
      <3>1. tx[c].op = "batch"
        BY <1>3, <2>2, HeldAfterStep
      <3>2. tx[c].answer.created = Cardinality(Held(c) \ DOMAIN row)
        BY <3>1 DEF Counted
      <3>3. CASE Held(c)' = Held(c) /\ u.answer.created = tx[c].answer.created
        BY <3>2, <3>3
      <3>4. ASSUME NEW id \in Ids \ DOMAIN row, \A d \in Clients : id \notin Held(d),
                   Held(c)' = Held(c) \cup {id}, u.answer.created = tx[c].answer.created + 1
            PROVE  u.answer.created = Cardinality(Held(c)' \ DOMAIN row)
        <4>1. Held(c)' \ DOMAIN row = (Held(c) \ DOMAIN row) \cup {id} /\ id \notin Held(c) \ DOMAIN row
          BY <3>4
        <4>2. Cardinality(Held(c)' \ DOMAIN row) = Cardinality(Held(c) \ DOMAIN row) + 1
          BY <4>1, HeldIsFinite, FS_AddElement
        <4>3. QED
          BY <3>2, <3>4, <4>2
      <3>5. ASSUME NEW id \in DOMAIN row, Held(c)' = Held(c) \cup {id},
                   u.answer.created = tx[c].answer.created
            PROVE  u.answer.created = Cardinality(Held(c)' \ DOMAIN row)
        <4>1. Held(c)' \ DOMAIN row = Held(c) \ DOMAIN row
          BY <3>5
        <4>2. QED
          BY <3>2, <3>5, <4>1
      <3>6. QED
        BY <1>3, <2>2, <3>3, <3>4, <3>5, HeldAfterStep
    <2>3. QED
      BY <2>1, <2>2 DEF Counted, Others
  <1>4. ASSUME NEW c \in Clients, Commit(c)
        PROVE  Counted'
    <2>1. Ended(c)
      BY <1>4, CommitEnds
    <2>2. ASSUME NEW d \in Clients, tx'[d].op = "batch"
          PROVE  tx'[d].answer.created = Cardinality(Held(d)' \ DOMAIN row')
      <3>1. d \in Others(c)
        BY <2>1, <2>2 DEF Ended, Others, Idle
      <3>2. tx'[d] = tx[d] /\ Held(d)' = Held(d)
        BY <2>1, <2>2, <3>1, HeldAfterCommit
      <3>3. Held(d)' \ DOMAIN row' = Held(d) \ DOMAIN row
        BY <1>4, <3>1, <3>2, CommitSpares
      <3>4. QED
        BY <2>2, <3>2, <3>3 DEF Counted
    <2>3. QED
      BY <2>2 DEF Counted
  <1>5. ASSUME NEW id \in Ids, Order(id)
        PROVE  Counted'
    BY <1>5 DEF Order, Counted, Held, Pending
  <1>6. QED
    BY <1>1, <1>2, <1>3, <1>4, <1>5, StepCases

LEMMA AnswersStep ==
    ASSUME Types, Counted, [Next]_vars, NEW c \in Clients,
           tx[c].op = "batch", tx[c].todo = <<>>, commits' = commits + 1, tx'[c] = Idle
    PROVE  LET a == tx[c].answer IN
           /\ a.created + a.updated + a.skipped + a.failed = tx[c].total
           /\ a.created = Cardinality(DOMAIN row' \ DOMAIN row)
  <1>1. IsBatch(tx[c]) /\ tx[c] # Idle /\ commits \in Nat
    BY PendingIs DEF Idle, Types, RowsOK
  <1>2. Answered(tx[c].answer) = tx[c].total
    <2>1. Len(tx[c].todo) = 0 /\ tx[c].answer \in Answers
      BY <1>1 DEF IsBatch
    <2>2. Answered(tx[c].answer) \in Nat
      BY <2>1 DEF Answers, Answered
    <2>3. Answered(tx[c].answer) + Len(tx[c].todo) = tx[c].total
      BY <1>1 DEF IsBatch
    <2>4. QED
      BY <2>1, <2>2, <2>3
  <1>3. \E d \in Clients : Commit(d)
    <2>1. commits' # commits
      BY <1>1
    <2>2. ~(\E id \in Ids : Order(id))
      BY <1>1 DEF Order
    <2>3. QED
      BY <2>1, <2>2, StepCases DEF vars, Loads, Begin, Continues
  <1>4. PICK d \in Clients : Commit(d)
    BY <1>3
  <1>5. d = c
    <2>1. ASSUME d # c
          PROVE  FALSE
      <3>1. c \in Others(d) /\ Ended(d)
        BY <1>4, <2>1, CommitEnds DEF Others
      <3>2. tx'[c] = tx[c]
        BY <3>1 DEF Ended
      <3>3. QED
        BY <1>1, <3>2
    <2>2. QED
      BY <2>1
  <1>6. CommitBatch(c)
    BY <1>4, <1>5 DEF Commit, CommitRow, CommitMapping, CommitUnmap
  <1>7. DOMAIN row' = Held(c) \cup DOMAIN row
    BY <1>6 DEF CommitBatch, Over, Held
  <1>8. DOMAIN row' \ DOMAIN row = Held(c) \ DOMAIN row
    BY <1>7
  <1>9. QED
    BY <1>2, <1>8 DEF Counted, Answered

(* What a bulk request or an import answers adds up to its items, and the  *)
(* rows it says were created are those its commit adds.                    *)
THEOREM AnswersTellTheTruth == Spec => AnswersAreTrue
  <1> DEFINE Inv == Types /\ Apart /\ Counted
  <1>1. Init => Inv
    <2>1. Init => Types /\ \A c \in Clients : tx[c].op = "idle"
      BY TypesStart DEF Init, Idle
    <2>2. Init => Apart /\ Counted
      BY <2>1, NoRows DEF Apart, Counted, Held, Pending
    <2>3. QED
      BY <2>1, <2>2
  <1>2. Inv /\ [Next]_vars => Inv'
    BY TypesStep, ApartStep, CountedStep
  <1>3. Inv /\ [Next]_vars =>
          [\A c \in Clients :
             tx[c].op = "batch" /\ tx[c].todo = <<>> /\ commits' = commits + 1 /\ tx'[c] = Idle =>
               LET a == tx[c].answer IN
               /\ a.created + a.updated + a.skipped + a.failed = tx[c].total
               /\ a.created = Cardinality(DOMAIN row' \ DOMAIN row)]_vars
    BY AnswersStep
  <1> HIDE DEF Inv
  <1>4. QED
    BY <1>1, <1>2, <1>3, PTL DEF Spec, AnswersAreTrue

-----------------------------------------------------------------------------
(* What refers to a row.  A request that ranks a mapping and has not been  *)
(* told that it is gone will find it.                                      *)
References ==
    /\ used \subseteq DOMAIN row
    /\ \A m \in DOMAIN mapping : {m[1], m[2]} \subseteq DOMAIN row
    /\ \A c \in Clients : tx[c].op = "rank" /\ ~tx[c].gone => tx[c].pair \in DOMAIN mapping

LEMMA ReferencesStart == Init => References
  <1> SUFFICES ASSUME Init PROVE References
    OBVIOUS
  <1>1. PICK s \in Starts : row = s.row /\ mapping = s.mapping /\ used = s.used
    BY DEF Init
  <1>2. used \subseteq DOMAIN row /\ \A m \in DOMAIN mapping : {m[1], m[2]} \subseteq DOMAIN row
    BY <1>1, StartsAssumption DEF StartsAssumption
  <1>3. \A c \in Clients : tx[c].op = "idle"
    BY DEF Init, Idle
  <1>4. QED
    BY <1>2, <1>3 DEF References

LEMMA ReferencesStep ==
    ASSUME Types, References, [Next]_vars
    PROVE  References'
  <1> USE DEF References
  <1>1. DOMAIN tx = Clients
    BY DEF Types, TxOK
  <1>2. CASE UNCHANGED vars
    BY <1>2 DEF vars, rows
  <1>3. ASSUME NEW c \in Clients, NEW t, tx' = [tx EXCEPT ![c] = t], UNCHANGED rows,
               t.op = "rank" => t.pair \in DOMAIN mapping
        PROVE  References'
    BY <1>1, <1>3 DEF rows
  <1>4. ASSUME NEW c \in Clients, NEW t, Loads(c, t)
        PROVE  References'
    BY <1>3, <1>4 DEF Loads, Begin, Checked
  <1>5. ASSUME NEW c \in Clients, NEW u, Continues(c, u)
        PROVE  References'
    BY <1>3, <1>5 DEF Continues, IsBatch, Idle
  <1>6. ASSUME NEW c \in Clients, Finish(c), \A m \in DOMAIN mapping : m \in DOMAIN mapping',
               used' \subseteq DOMAIN row', \A m \in DOMAIN mapping' : {m[1], m[2]} \subseteq DOMAIN row'
        PROVE  References'
    BY <1>1, <1>6 DEF Finish, Idle
  <1>7. ASSUME NEW c \in Clients, CommitRow(c)
        PROVE  References'
    <2>1. Finish(c) /\ UNCHANGED <<mapping, used>> /\ Accepted(c)
      BY <1>7 DEF CommitRow
    <2>2. CASE tx[c].op = "create"
      <3>1. PICK id : row' = Over(row, Only(id, tx[c].new))
        BY <1>7, <2>2 DEF CommitRow
      <3>2. DOMAIN row \subseteq DOMAIN row'
        BY <3>1 DEF Over
      <3>3. QED
        BY <1>6, <2>1, <3>2
    <2>3. CASE tx[c].op = "change"
      BY <1>6, <1>7, <2>1, <2>3 DEF CommitRow
    <2>4. CASE tx[c].op \in {"delete", "purge"}
      <3>1. DOMAIN row' = DOMAIN row \ tx[c].ids
        BY <1>7, <2>4 DEF CommitRow, Restrict
      <3>2. ~Referenced(tx[c].ids \cap DOMAIN row)
        BY <2>1, <2>4 DEF Accepted
      <3>3. used' \subseteq DOMAIN row' /\ \A m \in DOMAIN mapping' : {m[1], m[2]} \subseteq DOMAIN row'
        BY <2>1, <3>1, <3>2 DEF Referenced
      <3>4. QED
        BY <1>6, <2>1, <3>3
    <2>5. QED
      BY <1>7, <2>2, <2>3, <2>4 DEF CommitRow
  <1>8. ASSUME NEW c \in Clients, CommitMapping(c)
        PROVE  References'
    <2>1. Finish(c) /\ UNCHANGED <<row, used>> /\ Accepted(c) /\ tx[c].op \in {"map", "rank"}
      BY <1>8 DEF CommitMapping
    <2>2. DOMAIN mapping' = {tx[c].pair} \cup DOMAIN mapping
      BY <1>8 DEF CommitMapping, Over, Only
    <2>3. {tx[c].pair[1], tx[c].pair[2]} \subseteq DOMAIN row
      BY <2>1 DEF Accepted
    <2>4. QED
      BY <1>6, <2>1, <2>2, <2>3
  <1>9. ASSUME NEW c \in Clients, CommitUnmap(c)
        PROVE  References'
    <2>1. /\ UNCHANGED <<row, used>>
          /\ \A d \in Clients : tx'[d] = IF d = c THEN Idle
                                         ELSE IF tx[d].op \in {"rank", "unmap"} /\ tx[d].pair = tx[c].pair
                                           THEN [tx[d] EXCEPT !.gone = TRUE]
                                         ELSE tx[d]
      BY <1>9 DEF CommitUnmap
    <2>2. /\ DOMAIN mapping' \subseteq DOMAIN mapping
          /\ \A m \in DOMAIN mapping : m # tx[c].pair => m \in DOMAIN mapping'
      BY <1>9 DEF CommitUnmap, Restrict
    <2>3. ASSUME NEW d \in Clients, tx'[d].op = "rank", ~tx'[d].gone
          PROVE  tx'[d].pair \in DOMAIN mapping'
      <3>1. d # c
        <4>1. tx'[c] = Idle
          BY <2>1
        <4>2. QED
          BY <2>3, <4>1 DEF Idle
      <3>2. CASE tx[d].op \in {"rank", "unmap"} /\ tx[d].pair = tx[c].pair
        <4>1. tx'[d] = [tx[d] EXCEPT !.gone = TRUE]
          BY <2>1, <3>1, <3>2
        <4>2. tx[d] \in RankTx \cup UnmapTx
          BY <3>2, TxCases DEF Types, TxOK
        <4>3. tx'[d].gone
          BY <4>1, <4>2 DEF RankTx, UnmapTx
        <4>4. QED
          BY <2>3, <4>3
      <3>3. CASE ~(tx[d].op \in {"rank", "unmap"} /\ tx[d].pair = tx[c].pair)
        <4>1. tx'[d] = tx[d]
          BY <2>1, <3>1, <3>3
        <4>2. QED
          BY <2>2, <2>3, <3>3, <4>1
      <3>4. QED
        BY <3>2, <3>3
    <2>4. QED
      BY <2>1, <2>2, <2>3
  <1>10. ASSUME NEW c \in Clients, CommitBatch(c)
         PROVE  References'
    BY <1>6, <1>10 DEF CommitBatch, Over
  <1>11. ASSUME NEW id \in Ids, Order(id)
         PROVE  References'
    <2>1. UNCHANGED <<row, mapping, tx>> /\ used' \subseteq used \cup DOMAIN row
      BY <1>11 DEF Order
    <2>2. QED
      BY <2>1
  <1>12. QED
    BY <1>2, <1>4, <1>5, <1>7, <1>8, <1>9, <1>10, <1>11, StepCases DEF Commit

(* Orders, lines and mappings refer to rows that exist, and the supplier   *)
(* suggested for a product does (delete_* and bulk_delete_products against *)
(* the foreign keys).                                                      *)
THEOREM ReferencesExist == Spec => []ReferencesHold
  <1>1. References => ReferencesHold
    BY DEF References, ReferencesHold, Suggested
  <1>2. Init => Types /\ References
    BY TypesStart, ReferencesStart
  <1>3. (Types /\ References) /\ [Next]_vars => (Types /\ References)'
    BY TypesStep, ReferencesStep
  <1>4. QED
    BY <1>1, <1>2, <1>3, PTL DEF Spec

=============================================================================
