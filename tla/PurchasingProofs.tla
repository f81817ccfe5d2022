-------------------------- MODULE PurchasingProofs --------------------------
(***************************************************************************)
(* Theorems of Purchasing for any lines, allocations, results, suppliers   *)
(* and clients, however many requests overlap.                             *)
(***************************************************************************)
EXTENDS Purchasing, FiniteSetTheorems, WellFoundedInduction, Sums, TLAPS

(* A set of natural numbers has a smallest element, and a finite one has a *)
(* largest: the one with the fewest above it.                              *)
LEMMA SmallestIn ==
    ASSUME NEW S \in SUBSET Nat, S # {}
    PROVE  Min(S) \in S
  <1>1. \E x \in S : \A y \in S : ~(<<y, x>> \in OpToRel(<, Nat))
    BY WFMin, NatLessThanWellFounded
  <1>2. PICK x \in S : \A y \in S : ~(<<y, x>> \in OpToRel(<, Nat))
    BY <1>1
  <1>3. \A y \in S : ~(y < x)
    BY <1>2 DEF OpToRel
  <1>4. \A y \in S : x <= y
    BY <1>3
  <1>5. QED
    BY <1>4 DEF Min

LEMMA LargestIn ==
    ASSUME NEW S \in SUBSET Nat, IsFiniteSet(S), S # {}
    PROVE  Max(S) \in S
  <1> DEFINE Above(x) == {y \in S : y > x}
             T == {Cardinality(Above(x)) : x \in S}
  <1>1. \A x : IsFiniteSet(Above(x)) /\ Cardinality(Above(x)) \in Nat
    BY FS_Subset, FS_CardinalityType
  <1>2. T \in SUBSET Nat /\ T # {}
    BY <1>1
  <1>3. \E t \in T : \A u \in T : ~(<<u, t>> \in OpToRel(<, Nat))
    BY <1>2, WFMin, NatLessThanWellFounded
  <1>4. PICK t \in T : \A u \in T : ~(u < t)
    BY <1>2, <1>3 DEF OpToRel
  <1>5. PICK x \in S : t = Cardinality(Above(x))
    OBVIOUS
  <1>6. ASSUME NEW y \in S, y > x
        PROVE  FALSE
    <2>1. Above(y) \in SUBSET Above(x)
      <3>1. \A z \in S : z > y => z > x
        BY <1>6
      <3>2. QED
        BY <3>1
    <2>2. y \in Above(x) /\ y \notin Above(y)
      BY <1>6
    <2>3. Cardinality(Above(y)) <= Cardinality(Above(x))
          /\ Cardinality(Above(y)) # Cardinality(Above(x))
      BY <1>1, <2>1, <2>2, FS_Subset
    <2>4. Cardinality(Above(y)) < Cardinality(Above(x))
      BY <1>1, <2>3
    <2>5. QED
      BY <1>4, <1>5, <2>4
  <1>7. \A y \in S : x >= y
    BY <1>6
  <1>8. QED
    BY <1>7 DEF Max

-----------------------------------------------------------------------------
(* The requests in flight. *)
AllocTx(op, ids) ==
    [at : Nat, op : {op}, row : ids, old : AllocRows \cup {Null}, new : AllocRows]
SaveTx == AllocTx("save", Allocations \cup {Null})
OverrideTx == AllocTx("override", Allocations)
SplitTx ==
    [at : Nat, op : {"split"}, row : Allocations, old : AllocRows, new : AllocRows,
     parts : Quantities \X Quantities, supplier : Suppliers]
ResultTx ==
    [at : Nat, op : ResultOps \cup DeferOps, row : Results \cup {Null},
     old : ResultRows \cup {Null}, new : ResultRows]
DeleteTx == [at : Nat, op : {"delete"}, supplier : Suppliers]
Requests == SaveTx \cup OverrideTx \cup SplitTx \cup ResultTx \cup DeleteTx

(* A request that changes a row has loaded it, and rows are not deleted.   *)
Loaded(t) ==
    /\ t.op \in AllocOps /\ t.row # Null =>
         /\ t.row \in DOMAIN alloc
         /\ t.old \in AllocRows
         /\ t.new.line = t.old.line
         /\ t.op = "save" => t.new.child = t.old.child
         /\ t.op \in {"override", "split"} => t.new.child = FALSE
         /\ t.op = "split" => t.new.supplier = t.old.supplier
    /\ t.op \in ResultOps \cup DeferOps /\ t.row # Null =>
         /\ t.row \in DOMAIN result
         /\ t.old \in ResultRows
         /\ t.op \in DeferOps => t.new.supplier = t.old.supplier
    /\ t.op \in ResultOps \cup DeferOps => t.new.alloc \in DOMAIN alloc
    /\ t.op \in DeferOps => t.row # Null

RowsOK ==
    /\ DOMAIN alloc \subseteq Allocations
    /\ alloc \in [DOMAIN alloc -> AllocRows]
    /\ DOMAIN result \subseteq Results
    /\ result \in [DOMAIN result -> ResultRows]
    /\ \A r \in DOMAIN result : result[r].alloc \in DOMAIN alloc
    /\ suppliers \subseteq Suppliers
    /\ commits \in Nat

TxOK ==
    /\ tx \in [Clients -> {Idle} \cup Requests]
    /\ \A c \in Clients : tx[c] # Idle => tx[c].at <= commits /\ Loaded(tx[c])

InFlight == {d \in Clients : tx[d] # Idle}

Types == RowsOK /\ TxOK

LEMMA TxCases ==
    ASSUME TxOK, NEW c \in Clients
    PROVE  /\ tx[c] = Idle <=> tx[c].op = "idle"
           /\ tx[c].op = "save" => tx[c] \in SaveTx
           /\ tx[c].op = "override" => tx[c] \in OverrideTx
           /\ tx[c].op = "split" => tx[c] \in SplitTx
           /\ tx[c].op \in ResultOps \cup DeferOps => tx[c] \in ResultTx
           /\ tx[c].op = "delete" => tx[c] \in DeleteTx
           /\ tx[c].op # "idle" => tx[c] \in Requests /\ Loaded(tx[c]) /\ tx[c].at <= commits
           /\ tx[c].op # "idle" => tx[c].at \in Nat
  BY DEF TxOK, Idle, Requests, SaveTx, OverrideTx, AllocTx, SplitTx, ResultTx, DeleteTx,
         ResultOps, DeferOps

(* One more row in a table. *)
LEMMA InsertedRow ==
    ASSUME NEW table, NEW id, NEW new
    PROVE  /\ DOMAIN Insert(table, id, new) = DOMAIN table \cup {id}
           /\ Insert(table, id, new) = [k \in DOMAIN table \cup {id} |-> Insert(table, id, new)[k]]
           /\ Insert(table, id, new)[id] = new
           /\ \A k \in DOMAIN table : k # id => Insert(table, id, new)[k] = table[k]
  BY DEF Insert

(* What an UPDATE leaves: every column is the new one or the row's own, a  *)
(* changed one is the new one.                                             *)
LEMMA WrittenRow ==
    ASSUME NEW t, NEW row, NEW new \in Written(t, row)
    PROVE  /\ DOMAIN new = DOMAIN row
           /\ new = [f \in DOMAIN row |-> new[f]]
           /\ \A f \in DOMAIN row :
                /\ new[f] \in {t.new[f], row[f]}
                /\ t.new[f] = t.old[f] /\ f # "qty" => new[f] = row[f]
                /\ t.new[f] # t.old[f] => new[f] = t.new[f]
  BY DEF Written

LEMMA WrittenAlloc ==
    ASSUME NEW t, NEW row \in AllocRows, t.new \in AllocRows, NEW new \in Written(t, row)
    PROVE  /\ new \in AllocRows
           /\ new.supplier \in {t.new.supplier, row.supplier}
           /\ t.new.supplier = t.old.supplier => new.supplier = row.supplier
           /\ t.new.line = t.old.line => new.line = row.line
           /\ new.child \in {t.new.child, row.child}
           /\ t.new.child = t.old.child => new.child = row.child
  <1>1. DOMAIN row = {"line", "supplier", "qty", "child"}
    BY DEF AllocRows
  <1>2. /\ new.line \in {t.new.line, row.line} /\ new.supplier \in {t.new.supplier, row.supplier}
        /\ new.qty \in {t.new.qty, row.qty} /\ new.child \in {t.new.child, row.child}
        /\ t.new.supplier = t.old.supplier => new.supplier = row.supplier
        /\ t.new.line = t.old.line => new.line = row.line
        /\ t.new.child = t.old.child => new.child = row.child
    BY <1>1, WrittenRow
  <1>3. new = [line |-> new.line, supplier |-> new.supplier, qty |-> new.qty, child |-> new.child]
    BY <1>1, WrittenRow
  <1>4. QED
    BY <1>2, <1>3 DEF AllocRows

LEMMA WrittenResult ==
    ASSUME NEW t, NEW row \in ResultRows, t.new \in ResultRows, NEW new \in Written(t, row)
    PROVE  /\ new \in ResultRows
           /\ t.new.supplier = t.old.supplier => new.supplier = row.supplier
  <1>1. DOMAIN row = {"alloc", "qty", "supplier", "deferred", "until"}
    BY DEF ResultRows
  <1>2. /\ new.alloc \in {t.new.alloc, row.alloc} /\ new.supplier \in {t.new.supplier, row.supplier}
        /\ new.qty \in {t.new.qty, row.qty} /\ new.deferred \in {t.new.deferred, row.deferred}
        /\ new.until \in {t.new.until, row.until}
        /\ t.new.supplier = t.old.supplier => new.supplier = row.supplier
    BY <1>1, WrittenRow
  <1>3. new = [alloc |-> new.alloc, qty |-> new.qty, supplier |-> new.supplier,
               deferred |-> new.deferred, until |-> new.until]
    BY <1>1, WrittenRow
  <1>4. QED
    BY <1>2, <1>3 DEF ResultRows

(* What a request has checked of the rows it loaded. *)
Checked(t) ==
    /\ t.op = "save" =>
         /\ SplitChildren(t.new.line) = {}
         /\ t.row = Null => Current(t.new.line) = {}
         /\ t.new.supplier \in suppliers \cup {Null}
    /\ t.op \in AllocOps /\ t.row # Null => alloc[t.row] = t.old
    /\ t.op = "delete" => NamedBy(t.supplier) = {}

Started(c, t) ==
    /\ tx[c] = Idle
    /\ commits + Cardinality(InFlight) < MaxCommits
    /\ tx' = [tx EXCEPT ![c] = t]
    /\ UNCHANGED <<rows, commits>>
    /\ t.at = commits /\ Loaded(t) /\ Checked(t)

LEMMA LoadCases ==
    ASSUME Types, NEW c \in Clients, Load(c)
    PROVE  \E t \in Requests : Started(c, t)
  <1> USE DEF Types, RowsOK
  <1>1. ASSUME NEW l \in Lines, NEW s \in Suppliers \cup {Null}, NEW q \in Quantities \cup {Null},
               LoadSave(c, l, s, q)
        PROVE  \E t \in Requests : Started(c, t)
    <2>1. CASE Current(l) = {}
      <3> DEFINE new == [line |-> l, supplier |-> s, qty |-> q, child |-> FALSE]
                 t == [at |-> commits, op |-> "save", row |-> Null, old |-> Null, new |-> new]
      <3>1. Begin(c, Change("save", Null, Null, new)) /\ SplitChildren(l) = {}
            /\ s \in suppliers \cup {Null}
        BY <1>1, <2>1 DEF LoadSave
      <3>2. new \in AllocRows
        BY DEF AllocRows
      <3>3. t \in SaveTx
        BY <3>2 DEF SaveTx, AllocTx
      <3>4. tx' = [tx EXCEPT ![c] = t]
        BY <3>1 DEF Begin, Change
      <3>5. Loaded(t) /\ Checked(t)
        BY <2>1, <3>1 DEF Loaded, Checked, ResultOps, DeferOps
      <3>6. Started(c, t)
        BY <3>1, <3>4, <3>5 DEF Started, Begin, InFlight
      <3>7. QED
        BY <3>3, <3>6 DEF Requests
    <2>2. CASE Current(l) # {}
      <3> DEFINE a == Max(Current(l))
                 new == [alloc[a] EXCEPT !.supplier = s, !.qty = q]
                 t == [at |-> commits, op |-> "save", row |-> a, old |-> alloc[a], new |-> new]
      <3>1. Begin(c, Change("save", a, alloc[a], new)) /\ SplitChildren(l) = {}
            /\ s \in suppliers \cup {Null}
        BY <1>1, <2>2 DEF LoadSave
      <3>2. a \in Current(l)
        <4>1. Current(l) \in SUBSET Allocations
          BY DEF Current, AllocsOf
        <4>2. IsFiniteSet(Current(l)) /\ Current(l) \in SUBSET Nat
          BY <4>1, FS_Subset, FiniteAssumption, NumbersAssumption
             DEF FiniteAssumption, NumbersAssumption
        <4>3. QED
          BY <2>2, <4>2, LargestIn
      <3> HIDE DEF a
      <3>3. a \in DOMAIN alloc /\ alloc[a].line = l /\ alloc[a] \in AllocRows /\ a \in Allocations
        BY <3>2 DEF Current, AllocsOf
      <3>4. new \in AllocRows /\ new.line = l /\ new.child = alloc[a].child /\ new.supplier = s
        BY <3>3 DEF AllocRows
      <3> HIDE DEF new
      <3>5. t \in SaveTx
        BY <3>3, <3>4 DEF SaveTx, AllocTx
      <3>6. tx' = [tx EXCEPT ![c] = t]
        BY <3>1 DEF Begin, Change
      <3>7. Loaded(t) /\ Checked(t)
        BY <3>1, <3>3, <3>4, NullAssumption DEF Loaded, Checked, ResultOps, DeferOps, NullAssumption
      <3>8. Started(c, t)
        BY <3>1, <3>6, <3>7 DEF Started, Begin, InFlight
      <3>9. QED
        BY <3>5, <3>8 DEF Requests
    <2>3. QED
      BY <2>1, <2>2
  <1>2. ASSUME NEW a \in Allocations, NEW s \in Suppliers, NEW q \in Quantities,
               LoadOverride(c, a, s, q)
        PROVE  \E t \in Requests : Started(c, t)
    <2> DEFINE new == [alloc[a] EXCEPT !.supplier = s, !.qty = q, !.child = FALSE]
               t == [at |-> commits, op |-> "override", row |-> a, old |-> alloc[a], new |-> new]
    <2>1. Begin(c, Change("override", a, alloc[a], new)) /\ a \in DOMAIN alloc
      BY <1>2 DEF LoadOverride
    <2>2. /\ alloc[a] \in AllocRows /\ new \in AllocRows
          /\ new.line = alloc[a].line /\ new.child = FALSE
      BY <2>1 DEF AllocRows
    <2> HIDE DEF new
    <2>3. t \in OverrideTx
      BY <2>2 DEF OverrideTx, AllocTx
    <2>4. tx' = [tx EXCEPT ![c] = t]
      BY <2>1 DEF Begin, Change
    <2>5. Loaded(t) /\ Checked(t)
      BY <2>1, <2>2 DEF Loaded, Checked, ResultOps, DeferOps
    <2>6. Started(c, t)
      BY <2>1, <2>4, <2>5 DEF Started, Begin, InFlight
    <2>7. QED
      BY <2>3, <2>6 DEF Requests
  <1>3. ASSUME NEW a \in Allocations, NEW s \in Suppliers, NEW p \in Quantities, NEW q \in Quantities,
               LoadSplit(c, a, s, p, q)
        PROVE  \E t \in Requests : Started(c, t)
    <2> DEFINE new == [alloc[a] EXCEPT !.child = FALSE]
               t == [at |-> commits, op |-> "split", row |-> a, old |-> alloc[a], new |-> new,
                     parts |-> <<p, q>>, supplier |-> s]
    <2>1. /\ Begin(c, t)
          /\ a \in DOMAIN alloc
      BY <1>3 DEF LoadSplit
    <2>2. /\ alloc[a] \in AllocRows /\ new \in AllocRows
          /\ new.line = alloc[a].line /\ new.child = FALSE /\ new.supplier = alloc[a].supplier
      BY <2>1 DEF AllocRows
    <2> HIDE DEF new
    <2>3. t \in SplitTx
      BY <2>2 DEF SplitTx
    <2>4. tx' = [tx EXCEPT ![c] = t]
      BY <2>1 DEF Begin
    <2>5. Loaded(t) /\ Checked(t)
      BY <2>1, <2>2 DEF Loaded, Checked, ResultOps, DeferOps
    <2>6. Started(c, t)
      BY <2>1, <2>4, <2>5 DEF Started, Begin, InFlight
    <2>7. QED
      BY <2>3, <2>6 DEF Requests
  <1>4. ASSUME NEW op \in {"create", "upsert"}, NEW a \in Allocations, NEW s \in Suppliers \cup {Null},
               NEW q \in Quantities, a \in DOMAIN alloc,
               Begin(c, Change(op, Null, Null, NewResult(a, s, q)))
        PROVE  \E t \in Requests : Started(c, t)
    <2> DEFINE new == NewResult(a, s, q)
               t == [at |-> commits, op |-> op, row |-> Null, old |-> Null, new |-> new]
    <2>1. DefaultSupplier(s, a) \in Suppliers \cup {Null}
      BY <1>4 DEF DefaultSupplier, AllocRows
    <2>2. new \in ResultRows /\ new.alloc = a
      BY <1>4, <2>1 DEF NewResult, ResultRows
    <2> HIDE DEF new
    <2>3. t \in ResultTx
      BY <2>2 DEF ResultTx, ResultOps
    <2>4. tx' = [tx EXCEPT ![c] = t]
      BY <1>4 DEF Begin, Change, new
    <2>5. Loaded(t) /\ Checked(t)
      BY <1>4, <2>2 DEF Loaded, Checked, AllocOps, DeferOps
    <2>6. Started(c, t)
      BY <1>4, <2>4, <2>5 DEF Started, Begin, InFlight
    <2>7. QED
      BY <2>3, <2>6 DEF Requests
  <1>5. ASSUME NEW op \in ResultOps \cup DeferOps, NEW r \in DOMAIN result, NEW new \in ResultRows,
               new.alloc = result[r].alloc,
               op \in DeferOps => new.supplier = result[r].supplier,
               Begin(c, Change(op, r, result[r], new))
        PROVE  \E t \in Requests : Started(c, t)
    <2> DEFINE t == [at |-> commits, op |-> op, row |-> r, old |-> result[r], new |-> new]
    <2>1. r \in Results /\ result[r] \in ResultRows
      OBVIOUS
    <2>2. t \in ResultTx
      BY <2>1 DEF ResultTx
    <2>3. tx' = [tx EXCEPT ![c] = t]
      BY <1>5 DEF Begin, Change
    <2>4. Loaded(t) /\ Checked(t)
      <3>1. r # Null
        BY <2>1, NullAssumption DEF NullAssumption
      <3>2. t.op = op /\ t.row = r /\ t.old = result[r] /\ t.new = new
        OBVIOUS
      <3>3. op \notin AllocOps /\ op # "save" /\ op # "delete"
        BY DEF AllocOps, ResultOps, DeferOps
      <3> HIDE DEF t
      <3>4. QED
        BY <1>5, <2>1, <3>1, <3>2, <3>3 DEF Loaded, Checked
    <2>5. Started(c, t)
      BY <1>5, <2>3, <2>4 DEF Started, Begin, InFlight
    <2>6. QED
      BY <2>2, <2>5 DEF Requests
  <1>6. ASSUME NEW op \in {"update", "upsert"}, NEW r \in DOMAIN result, NEW s \in Suppliers \cup {Null},
               NEW q \in Quantities, NEW a \in DOMAIN alloc,
               Begin(c, Change(op, r, result[r],
                               [result[r] EXCEPT !.supplier = DefaultSupplier(s, a), !.qty = q]))
        PROVE  \E t \in Requests : Started(c, t)
    <2>1. DefaultSupplier(s, a) \in Suppliers \cup {Null}
      BY DEF DefaultSupplier, AllocRows
    <2> DEFINE new == [result[r] EXCEPT !.supplier = DefaultSupplier(s, a), !.qty = q]
    <2>2. new \in ResultRows /\ new.alloc = result[r].alloc
      BY <2>1 DEF ResultRows
    <2>3. Begin(c, Change(op, r, result[r], new)) /\ op \in ResultOps /\ op \notin DeferOps
      BY <1>6 DEF ResultOps, DeferOps
    <2> HIDE DEF new
    <2>4. QED
      BY <1>5, <2>2, <2>3
  <1>7. ASSUME NEW r \in Results, LoadUndefer(c, r) \/ \E d \in Days \cup {Null} : LoadDefer(c, r, d)
        PROVE  \E t \in Requests : Started(c, t)
    <2>1. PICK op \in DeferOps, b \in BOOLEAN, d \in Days \cup {Null} :
            /\ r \in DOMAIN result
            /\ Begin(c, Change(op, r, result[r], [result[r] EXCEPT !.deferred = b, !.until = d]))
      BY <1>7 DEF LoadDefer, LoadUndefer, DeferOps
    <2> DEFINE new == [result[r] EXCEPT !.deferred = b, !.until = d]
    <2>2. /\ new \in ResultRows
          /\ new.supplier = result[r].supplier /\ new.alloc = result[r].alloc
      BY <2>1 DEF ResultRows
    <2>3. Begin(c, Change(op, r, result[r], new))
      BY <2>1
    <2> HIDE DEF new
    <2>4. QED
      BY <1>5, <2>1, <2>2, <2>3
  <1>8. ASSUME NEW s \in Suppliers, LoadDelete(c, s)
        PROVE  \E t \in Requests : Started(c, t)
    <2> DEFINE t == [at |-> commits, op |-> "delete", supplier |-> s]
    <2>1. t \in DeleteTx
      BY DEF DeleteTx
    <2>2. tx' = [tx EXCEPT ![c] = t]
      BY <1>8 DEF LoadDelete, Begin
    <2>3. Loaded(t) /\ Checked(t)
      BY <1>8 DEF LoadDelete, Loaded, Checked, AllocOps, ResultOps, DeferOps
    <2>4. Started(c, t)
      BY <1>8, <2>2, <2>3 DEF LoadDelete, Started, Begin, InFlight
    <2>5. QED
      BY <2>1, <2>4 DEF Requests
  <1>9. ASSUME NEW s \in Suppliers \cup {Null}, NEW q \in Quantities \ {0}, NEW a \in Allocations,
               LoadCreate(c, a, s, q) \/ LoadUpsert(c, a, s, q)
        PROVE  \E t \in Requests : Started(c, t)
    <2>1. CASE LoadCreate(c, a, s, q)
      BY <1>4, <2>1 DEF LoadCreate
    <2>2. CASE LoadUpsert(c, a, s, q)
      <3>1. a \in DOMAIN alloc /\ ResultsOf(a) \subseteq DOMAIN result
        BY <2>2 DEF LoadUpsert, ResultsOf
      <3>2. CASE Begin(c, Change("upsert", Null, Null, NewResult(a, s, q)))
        BY <1>4, <3>1, <3>2
      <3>3. ASSUME NEW r \in ResultsOf(a),
                   Begin(c, Change("upsert", r, result[r],
                                   [result[r] EXCEPT !.supplier = DefaultSupplier(s, a), !.qty = q]))
            PROVE  \E t \in Requests : Started(c, t)
        BY <1>6, <3>1, <3>3
      <3>4. QED
        BY <2>2, <3>2, <3>3 DEF LoadUpsert
    <2>3. QED
      BY <1>9, <2>1, <2>2
  <1>10. ASSUME NEW s \in Suppliers \cup {Null}, NEW q \in Quantities \ {0}, NEW r \in Results,
                LoadUpdate(c, r, s, q)
         PROVE  \E t \in Requests : Started(c, t)
    BY <1>6, <1>10 DEF LoadUpdate
  <1>11. QED
    BY <1>1, <1>2, <1>3, <1>7, <1>8, <1>9, <1>10 DEF Load

-----------------------------------------------------------------------------
(* Committing.  Tables only grow.                                          *)
LEMMA FreeIds ==
    /\ Free # {} => Min(Free) \in Free
    /\ Cardinality(Free) >= 2 =>
         /\ Min(Free) \in Free
         /\ Min(Free \ {Min(Free)}) \in Free \ {Min(Free)}
  <1>1. Free \in SUBSET Nat /\ IsFiniteSet(Free)
    BY FiniteAssumption, NumbersAssumption, FS_Subset DEF Free, FiniteAssumption, NumbersAssumption
  <1>2. Free # {} => Min(Free) \in Free
    BY <1>1, SmallestIn
  <1>3. ASSUME Cardinality(Free) >= 2
        PROVE  Free # {} /\ Free \ {Min(Free)} # {}
    <2>1. Free # {}
      BY <1>3, FS_EmptySet
    <2>2. Cardinality(Free \ {Min(Free)}) = Cardinality(Free) - 1 /\ Cardinality(Free) \in Nat
      BY <1>1, <1>2, <2>1, FS_RemoveElement, FS_CardinalityType
    <2>3. Cardinality(Free \ {Min(Free)}) # 0
      BY <1>3, <2>2
    <2>4. QED
      BY <2>1, <2>3, FS_EmptySet
  <1>4. Free \ {Min(Free)} # {} => Min(Free \ {Min(Free)}) \in Free \ {Min(Free)}
    <2>1. Free \ {Min(Free)} \in SUBSET Nat
      BY <1>1
    <2>2. QED
      BY <2>1, SmallestIn
  <1>5. QED
    BY <1>2, <1>3, <1>4

(* A request that changes allocation t.row leaves row new there. *)
Changed(t, new) ==
    /\ t.row \in DOMAIN alloc /\ t.old \in AllocRows /\ t.new.line = t.old.line
    /\ new \in AllocRows
    /\ new.line = alloc[t.row].line
    /\ new.supplier \in {t.new.supplier, alloc[t.row].supplier}
    /\ t.op = "split" => new.supplier = alloc[t.row].supplier
    /\ t.new.child = t.old.child => new.child = alloc[t.row].child
    /\ t.op = "save" => t.new.child = t.old.child
    /\ t.op \in {"override", "split"} => ~t.new.child

LEMMA ChangeAlloc ==
    ASSUME Types, NEW c \in Clients, tx[c].op \in AllocOps, tx[c].row # Null,
           NEW new \in Written(tx[c], alloc[tx[c].row])
    PROVE  Changed(tx[c], new)
  <1>1. tx[c] \in SaveTx \cup OverrideTx \cup SplitTx /\ Loaded(tx[c])
    BY TxCases DEF Types, AllocOps
  <1>2. tx[c].new \in AllocRows
    BY <1>1 DEF SaveTx, OverrideTx, AllocTx, SplitTx
  <1>3. tx[c].row \in DOMAIN alloc /\ alloc[tx[c].row] \in AllocRows
    BY <1>1 DEF Loaded, Types, RowsOK
  <1>4. QED
    BY <1>1, <1>2, <1>3, WrittenAlloc DEF Loaded, Changed

(* What the three requests that write allocations make of them: rows of    *)
(* their type, each but the changed one as before or new.                  *)
LEMMA SaveEffect ==
    ASSUME Types, NEW c \in Clients, CommitSave(c)
    PROVE  /\ tx[c] \in SaveTx /\ tx[c].op = "save" /\ Loaded(tx[c])
           /\ \/ /\ tx[c].row = Null
                 /\ \E id \in Allocations \ DOMAIN alloc : alloc' = Insert(alloc, id, tx[c].new)
              \/ /\ tx[c].row # Null
                 /\ \E new : /\ Changed(tx[c], new)
                             /\ alloc' = [alloc EXCEPT ![tx[c].row] = new]
  <1>1. tx[c] \in SaveTx /\ tx[c].op = "save" /\ Loaded(tx[c])
    BY TxCases DEF CommitSave, Types
  <1>2. CASE tx[c].row = Null
    <2>1. Free # {} /\ alloc' = Insert(alloc, Min(Free), tx[c].new)
      BY <1>2 DEF CommitSave
    <2>2. Min(Free) \in Allocations \ DOMAIN alloc
      BY <2>1, FreeIds DEF Free
    <2>3. QED
      BY <1>1, <1>2, <2>1, <2>2
  <1>3. CASE tx[c].row # Null
    <2>1. PICK new \in Written(tx[c], alloc[tx[c].row]) : alloc' = [alloc EXCEPT ![tx[c].row] = new]
      BY <1>3 DEF CommitSave
    <2>2. Changed(tx[c], new)
      BY <1>1, <1>3, ChangeAlloc DEF AllocOps
    <2>3. QED
      BY <1>1, <1>3, <2>1, <2>2
  <1>4. QED
    BY <1>2, <1>3

LEMMA OverrideEffect ==
    ASSUME Types, NEW c \in Clients, CommitOverride(c)
    PROVE  /\ tx[c].op = "override" /\ Loaded(tx[c])
           /\ \E new : /\ Changed(tx[c], new)
                       /\ alloc' = [alloc EXCEPT ![tx[c].row] = new]
  <1>1. tx[c] \in OverrideTx /\ tx[c].op = "override" /\ Loaded(tx[c])
    BY TxCases DEF CommitOverride, Types
  <1>2. tx[c].row # Null
    BY <1>1, NullAssumption DEF OverrideTx, AllocTx, NullAssumption
  <1>3. PICK new \in Written(tx[c], alloc[tx[c].row]) : alloc' = [alloc EXCEPT ![tx[c].row] = new]
    BY DEF CommitOverride
  <1>4. Changed(tx[c], new)
    BY <1>1, <1>2, ChangeAlloc DEF AllocOps
  <1>5. QED
    BY <1>1, <1>3, <1>4

LEMMA SplitEffect ==
    ASSUME Types, NEW c \in Clients, CommitSplit(c)
    PROVE  /\ tx[c].op = "split" /\ Loaded(tx[c])
           /\ \E new, first, second, p, q :
                /\ Changed(tx[c], new)
                /\ first \in Allocations \ DOMAIN alloc
                /\ second \in Allocations \ DOMAIN alloc /\ first # second
                /\ p \in AllocRows /\ p.child /\ q \in AllocRows /\ q.child
                /\ alloc' = Insert(Insert([alloc EXCEPT ![tx[c].row] = new], first, p), second, q)
  <1> DEFINE t == tx[c]
             part(q) == [line |-> t.old.line, supplier |-> t.supplier, qty |-> q, child |-> TRUE]
             first == Min(Free)
             second == Min(Free \ {first})
  <1>1. t \in SplitTx /\ t.op = "split" /\ Loaded(t)
    BY TxCases DEF CommitSplit, Types
  <1>2. t.row # Null
    BY <1>1, NullAssumption DEF SplitTx, NullAssumption
  <1>3. PICK new \in Written(t, alloc[t.row]) :
          alloc' = Insert(Insert([alloc EXCEPT ![t.row] = new], first, part(t.parts[1])),
                          second, part(t.parts[2]))
    BY DEF CommitSplit
  <1>4. Changed(t, new)
    BY <1>1, <1>2, ChangeAlloc DEF AllocOps
  <1>5. /\ first \in Allocations \ DOMAIN alloc /\ second \in Allocations \ DOMAIN alloc
        /\ first # second
    <2>1. Cardinality(Free) >= 2
      BY DEF CommitSplit
    <2>2. QED
      BY <2>1, FreeIds DEF Free
  <1>6. /\ part(t.parts[1]) \in AllocRows /\ part(t.parts[1]).child
        /\ part(t.parts[2]) \in AllocRows /\ part(t.parts[2]).child
    BY <1>1 DEF SplitTx, AllocRows
  <1> HIDE DEF first, second, part
  <1>7. QED
    BY <1>1, <1>3, <1>4, <1>5, <1>6

(* What the rest makes of purchase results. *)
LEMMA ResultEffect ==
    ASSUME Types, NEW c \in Clients, CommitResult(c)
    PROVE  /\ tx[c] \in ResultTx /\ tx[c].op \in ResultOps \cup DeferOps /\ Loaded(tx[c])
           /\ \/ /\ tx[c].row = Null /\ tx[c].op \in ResultOps
                 /\ \E r \in Results \ DOMAIN result : result' = Insert(result, r, tx[c].new)
              \/ /\ tx[c].row # Null /\ tx[c].row \in DOMAIN result
                 /\ \E new \in ResultRows :
                      /\ new.alloc \in DOMAIN alloc
                      /\ tx[c].op \in DeferOps => new.supplier = result[tx[c].row].supplier
                      /\ result' = [result EXCEPT ![tx[c].row] = new]
  <1>1. tx[c] \in ResultTx /\ tx[c].op \in ResultOps \cup DeferOps /\ Loaded(tx[c])
    BY TxCases DEF CommitResult, Types, ResultOps, DeferOps
  <1>2. CASE tx[c].row = Null
    <2>1. \E r \in Results \ DOMAIN result : result' = Insert(result, r, tx[c].new)
      BY <1>2 DEF CommitResult
    <2>2. tx[c].op \in ResultOps
      BY <1>1, <1>2 DEF Loaded
    <2>3. QED
      BY <1>1, <1>2, <2>1, <2>2
  <1>3. CASE tx[c].row # Null
    <2>1. PICK new \in Written(tx[c], result[tx[c].row]) :
            result' = [result EXCEPT ![tx[c].row] = new]
      BY <1>3 DEF CommitResult
    <2>2. /\ tx[c].row \in DOMAIN result /\ result[tx[c].row] \in ResultRows
          /\ result[tx[c].row].alloc \in DOMAIN alloc
          /\ tx[c].new \in ResultRows /\ tx[c].new.alloc \in DOMAIN alloc
      BY <1>1, <1>3 DEF Loaded, ResultTx, Types, RowsOK
    <2>3. /\ new \in ResultRows
          /\ tx[c].new.supplier = tx[c].old.supplier => new.supplier = result[tx[c].row].supplier
      BY <2>2, WrittenResult
    <2>4. new.alloc \in {tx[c].new.alloc, result[tx[c].row].alloc}
      BY <2>2, WrittenRow DEF ResultRows
    <2>5. QED
      BY <1>1, <1>3, <2>1, <2>2, <2>3, <2>4 DEF Loaded
  <1>4. QED
    BY <1>2, <1>3

LEMMA InsertedType ==
    ASSUME NEW R, NEW table, table \in [DOMAIN table -> R], NEW id, NEW new \in R
    PROVE  Insert(table, id, new) \in [DOMAIN table \cup {id} -> R]
  BY DEF Insert

(* A commit leaves rows of their types, and every row there was.           *)
Grown ==
    /\ DOMAIN alloc \subseteq DOMAIN alloc'
    /\ DOMAIN alloc' \subseteq Allocations
    /\ alloc' \in [DOMAIN alloc' -> AllocRows]
    /\ DOMAIN result \subseteq DOMAIN result'
    /\ DOMAIN result' \subseteq Results
    /\ result' \in [DOMAIN result' -> ResultRows]
    /\ \A r \in DOMAIN result' : result'[r].alloc \in DOMAIN alloc'
    /\ suppliers' \subseteq suppliers

LEMMA CommitGrows ==
    ASSUME Types, NEW c \in Clients, Commit(c)
    PROVE  Grown
  <1> USE DEF Types, RowsOK
  <1>1. ASSUME result' = result, suppliers' = suppliers,
               DOMAIN alloc \subseteq DOMAIN alloc', DOMAIN alloc' \subseteq Allocations,
               alloc' \in [DOMAIN alloc' -> AllocRows]
        PROVE  Grown
    BY <1>1 DEF Grown
  <1>2. ASSUME NEW new, Changed(tx[c], new)
        PROVE  /\ DOMAIN [alloc EXCEPT ![tx[c].row] = new] = DOMAIN alloc
               /\ [alloc EXCEPT ![tx[c].row] = new] \in [DOMAIN alloc -> AllocRows]
    BY <1>2 DEF Changed
  <1>3. CASE CommitSave(c)
    <2>1. result' = result /\ suppliers' = suppliers
      BY <1>3 DEF CommitSave
    <2>2. CASE tx[c].row = Null
      <3>1. PICK id \in Allocations \ DOMAIN alloc : alloc' = Insert(alloc, id, tx[c].new)
        BY <1>3, <2>2, SaveEffect
      <3>2. tx[c].new \in AllocRows
        BY <1>3, SaveEffect DEF SaveTx, AllocTx
      <3>3. alloc' \in [DOMAIN alloc \cup {id} -> AllocRows]
        BY <3>1, <3>2, InsertedType
      <3>4. QED
        BY <1>1, <2>1, <3>1, <3>3
    <2>3. CASE tx[c].row # Null
      <3>1. PICK new : Changed(tx[c], new) /\ alloc' = [alloc EXCEPT ![tx[c].row] = new]
        BY <1>3, <2>3, SaveEffect
      <3>2. QED
        BY <1>1, <1>2, <2>1, <3>1
    <2>4. QED
      BY <2>2, <2>3
  <1>4. CASE CommitOverride(c)
    <2>1. result' = result /\ suppliers' = suppliers
      BY <1>4 DEF CommitOverride
    <2>2. PICK new : Changed(tx[c], new) /\ alloc' = [alloc EXCEPT ![tx[c].row] = new]
      BY <1>4, OverrideEffect
    <2>3. QED
      BY <1>1, <1>2, <2>1, <2>2
  <1>5. CASE CommitSplit(c)
    <2>1. result' = result /\ suppliers' = suppliers
      BY <1>5 DEF CommitSplit
    <2>2. PICK new, first, second, p, q :
            /\ Changed(tx[c], new)
            /\ first \in Allocations \ DOMAIN alloc
            /\ second \in Allocations \ DOMAIN alloc /\ first # second
            /\ p \in AllocRows /\ p.child /\ q \in AllocRows /\ q.child
            /\ alloc' = Insert(Insert([alloc EXCEPT ![tx[c].row] = new], first, p), second, q)
      BY <1>5, SplitEffect
    <2> DEFINE one == [alloc EXCEPT ![tx[c].row] = new]
               two == Insert(one, first, p)
    <2>3. one \in [DOMAIN one -> AllocRows] /\ DOMAIN one = DOMAIN alloc
      BY <1>2, <2>2
    <2> HIDE DEF one
    <2>4. two \in [DOMAIN one \cup {first} -> AllocRows]
      BY <2>2, <2>3, InsertedType
    <2>5. two \in [DOMAIN two -> AllocRows] /\ DOMAIN two = DOMAIN alloc \cup {first}
      BY <2>3, <2>4
    <2> HIDE DEF two
    <2>6. alloc' = Insert(two, second, q)
      BY <2>2 DEF one, two
    <2>7. alloc' \in [DOMAIN two \cup {second} -> AllocRows]
      <3>1. two \in [DOMAIN two -> AllocRows] /\ q \in AllocRows
        BY <2>2, <2>5
      <3>2. Insert(two, second, q) \in [DOMAIN two \cup {second} -> AllocRows]
        BY <3>1, InsertedType
      <3>3. QED
        BY <2>6, <3>2
    <2>8. QED
      BY <1>1, <2>1, <2>2, <2>5, <2>7
  <1>6. CASE CommitResult(c)
    <2>1. alloc' = alloc /\ suppliers' = suppliers
      BY <1>6 DEF CommitResult
    <2>2. CASE tx[c].row = Null
      <3>1. PICK r \in Results \ DOMAIN result : result' = Insert(result, r, tx[c].new)
        BY <1>6, <2>2, ResultEffect
      <3>2. tx[c].new \in ResultRows /\ tx[c].new.alloc \in DOMAIN alloc
        BY <1>6, ResultEffect DEF ResultTx, Loaded
      <3>3. result' \in [DOMAIN result \cup {r} -> ResultRows]
        BY <3>1, <3>2, InsertedType
      <3>4. \A k \in DOMAIN result' : result'[k].alloc \in DOMAIN alloc
        <4>1. DOMAIN result' = DOMAIN result \cup {r}
          BY <3>3
        <4>2. result'[r] = tx[c].new /\ \A k \in DOMAIN result : k # r => result'[k] = result[k]
          BY <3>1 DEF Insert
        <4>3. QED
          BY <3>2, <4>1, <4>2
      <3>5. QED
        BY <2>1, <3>1, <3>3, <3>4 DEF Grown
    <2>3. CASE tx[c].row # Null
      <3>1. PICK new \in ResultRows :
              /\ new.alloc \in DOMAIN alloc
              /\ result' = [result EXCEPT ![tx[c].row] = new]
        BY <1>6, <2>3, ResultEffect
      <3>2. DOMAIN result' = DOMAIN result /\ result' \in [DOMAIN result -> ResultRows]
        BY <3>1
      <3>3. \A k \in DOMAIN result' : result'[k].alloc \in DOMAIN alloc
        BY <3>1, <3>2
      <3>4. QED
        BY <2>1, <3>2, <3>3 DEF Grown
    <2>4. QED
      BY <2>2, <2>3
  <1>7. CASE CommitDelete(c)
    BY <1>7 DEF CommitDelete, Grown
  <1>8. QED
    BY <1>3, <1>4, <1>5, <1>6, <1>7 DEF Commit

LEMMA CommitFinishes ==
    ASSUME NEW c \in Clients, Commit(c)
    PROVE  Finish(c)
  BY DEF Commit, CommitSave, CommitOverride, CommitSplit, CommitResult, CommitDelete

-----------------------------------------------------------------------------
LEMMA TypesStart ==
    ASSUME Init
    PROVE  Types /\ \A c \in Clients : tx[c] = Idle
  <1>1. DOMAIN alloc \subseteq Allocations /\ alloc \in [DOMAIN alloc -> AllocRows]
    BY DEF Init
  <1>2. DOMAIN result \subseteq Results /\ result \in [DOMAIN result -> ResultRows]
    BY DEF Init
  <1>3. \A r \in DOMAIN result : result[r].alloc \in DOMAIN alloc
    BY DEF Init
  <1>4. suppliers = Suppliers /\ tx = [c \in Clients |-> Idle] /\ commits = 0
    BY DEF Init
  <1>5. QED
    BY <1>1, <1>2, <1>3, <1>4 DEF Types, RowsOK, TxOK

LEMMA TypesStep ==
    ASSUME Types, [Next]_vars
    PROVE  Types'
  <1>1. ASSUME Grown \/ UNCHANGED rows, commits' \in Nat, commits' >= commits,
               tx' \in [Clients -> {Idle} \cup Requests],
               \A d \in Clients : tx'[d] = tx[d] \/ tx'[d] = Idle
                                  \/ (tx'[d].at <= commits' /\ Loaded(tx[d])')
        PROVE  Types'
    <2>1. RowsOK'
      BY <1>1 DEF Types, RowsOK, Grown, rows
    <2>2. ASSUME NEW d \in Clients, tx'[d] # Idle
          PROVE  tx'[d].at <= commits' /\ Loaded(tx[d])'
      <3>1. CASE tx'[d] = tx[d]
        <4>1. tx[d].at <= commits /\ tx[d].at \in Nat /\ Loaded(tx[d])
          BY <2>2, <3>1, TxCases DEF Types, Idle
        <4> DEFINE t == tx[d]
        <4>2. Loaded(t)
          BY <4>1
        <4>3. tx'[d] = t
          BY <3>1
        <4> HIDE DEF t
        <4>4. Loaded(tx[d])'
          <5>1. DOMAIN alloc \subseteq DOMAIN alloc' /\ DOMAIN result \subseteq DOMAIN result'
            BY <1>1 DEF Grown, rows
          <5>2. QED
            BY <4>2, <4>3, <5>1 DEF Loaded
        <4>5. QED
          BY <1>1, <3>1, <4>1, <4>4 DEF Types, RowsOK
      <3>2. QED
        BY <1>1, <2>2, <3>1
    <2>3. TxOK'
      BY <1>1, <2>2 DEF TxOK
    <2>4. QED
      BY <2>1, <2>3 DEF Types
  <1>2. tx \in [Clients -> {Idle} \cup Requests] /\ commits \in Nat
    BY DEF Types, TxOK, RowsOK
  <1>3. CASE UNCHANGED vars
    BY <1>1, <1>2, <1>3 DEF vars
  <1>4. ASSUME NEW c \in Clients, Load(c)
        PROVE  Types'
    <2>1. PICK t \in Requests : Started(c, t)
      BY <1>4, LoadCases
    <2>2. tx' = [tx EXCEPT ![c] = t] /\ UNCHANGED <<rows, commits>> /\ t.at = commits /\ Loaded(t)
      BY <2>1 DEF Started
    <2>3. tx' \in [Clients -> {Idle} \cup Requests]
      BY <1>2, <2>2
    <2>4. tx'[c] = t /\ \A d \in Clients : d # c => tx'[d] = tx[d]
      BY <1>2, <2>2
    <2>5. tx'[c].at <= commits' /\ Loaded(tx[c])'
      <3>1. alloc' = alloc /\ result' = result
        BY <2>2 DEF rows
      <3>2. tx'[c].at = commits' /\ commits' \in Nat
        BY <1>2, <2>2, <2>4
      <3>3. Loaded(tx[c])'
        BY <2>2, <2>4, <3>1 DEF Loaded
      <3>4. QED
        BY <3>2, <3>3
    <2>6. QED
      BY <1>1, <1>2, <2>2, <2>3, <2>4, <2>5
  <1>5. ASSUME NEW c \in Clients, Commit(c)
        PROVE  Types'
    <2>1. Grown
      BY <1>5, CommitGrows
    <2>2. tx' = [tx EXCEPT ![c] = Idle] /\ commits' = commits + 1
      BY <1>5, CommitFinishes DEF Finish
    <2>3. QED
      BY <1>1, <1>2, <2>1, <2>2
  <1>6. ASSUME NEW c \in Clients, Rollback(c)
        PROVE  Types'
    BY <1>1, <1>2, <1>6 DEF Rollback
  <1>7. QED
    BY <1>3, <1>4, <1>5, <1>6 DEF Next

-----------------------------------------------------------------------------
(* The bound of the requests that commit or are in flight. *)
Budget == commits + Cardinality(InFlight) <= MaxCommits

LEMMA BudgetStep ==
    ASSUME Types, Budget, [Next]_vars
    PROVE  Budget'
  <1>1. IsFiniteSet(InFlight) /\ Cardinality(InFlight) \in Nat
    BY FiniteAssumption, FS_Subset, FS_CardinalityType DEF FiniteAssumption, InFlight
  <1>2. tx \in [Clients -> {Idle} \cup Requests] /\ commits \in Nat
    BY DEF Types, TxOK, RowsOK
  <1>3. CASE UNCHANGED vars
    BY <1>3 DEF vars, Budget, InFlight
  <1>4. ASSUME NEW c \in Clients, Load(c)
        PROVE  Budget'
    <2>1. PICK t \in Requests : Started(c, t)
      BY <1>4, LoadCases
    <2>2. t # Idle
      BY DEF Requests, SaveTx, OverrideTx, AllocTx, SplitTx, ResultTx, DeleteTx, ResultOps,
             DeferOps, Idle
    <2>3. InFlight' = InFlight \cup {c} /\ c \notin InFlight
      BY <1>2, <2>1, <2>2 DEF InFlight, Started
    <2>4. Cardinality(InFlight') = Cardinality(InFlight) + 1
      BY <1>1, <2>3, FS_AddElement
    <2>5. commits' = commits /\ commits + Cardinality(InFlight) < MaxCommits
      BY <2>1 DEF Started
    <2>6. QED
      BY <1>1, <1>2, <2>4, <2>5, BoundAssumption DEF Budget, BoundAssumption
  <1>5. ASSUME NEW c \in Clients, tx' = [tx EXCEPT ![c] = Idle], tx[c] # Idle
        PROVE  Cardinality(InFlight') = Cardinality(InFlight) - 1
    <2>1. InFlight' = InFlight \ {c} /\ c \in InFlight
      BY <1>2, <1>5 DEF InFlight
    <2>2. QED
      BY <1>1, <2>1, FS_RemoveElement
  <1>6. ASSUME NEW c \in Clients, Commit(c)
        PROVE  Budget'
    <2>1. tx' = [tx EXCEPT ![c] = Idle] /\ commits' = commits + 1
      BY <1>6, CommitFinishes DEF Finish
    <2>2. tx[c] # Idle
      BY <1>6 DEF Commit, CommitSave, CommitOverride, CommitSplit, CommitResult, CommitDelete,
                  Idle, ResultOps, DeferOps
    <2>3. Cardinality(InFlight') = Cardinality(InFlight) - 1
      BY <1>5, <2>1, <2>2
    <2>4. QED
      BY <1>1, <1>2, <2>1, <2>3, BoundAssumption DEF Budget, BoundAssumption
  <1>7. ASSUME NEW c \in Clients, Rollback(c)
        PROVE  Budget'
    <2>1. Cardinality(InFlight') = Cardinality(InFlight) - 1 /\ commits' = commits
      BY <1>5, <1>7 DEF Rollback
    <2>2. QED
      BY <1>1, <1>2, <2>1, BoundAssumption DEF Budget, BoundAssumption
  <1>8. QED
    BY <1>3, <1>4, <1>6, <1>7 DEF Next

(* A request that is not stale finds the rows it commits to as it checked  *)
(* them.                                                                   *)
Fresh == \A c \in Clients : tx[c] # Idle /\ ~Stale(c) => Checked(tx[c])

LEMMA FreshStep ==
    ASSUME Types, Fresh, [Next]_vars
    PROVE  Fresh'
  <1>1. tx \in [Clients -> {Idle} \cup Requests] /\ commits \in Nat
    BY DEF Types, TxOK, RowsOK
  <1>2. ASSUME UNCHANGED <<rows, commits>>, NEW c \in Clients, NEW d \in Clients, d # c,
               NEW t, tx' = [tx EXCEPT ![c] = t]
        PROVE  tx'[d] # Idle /\ ~Stale(d)' => Checked(tx[d])'
    BY <1>1, <1>2 DEF Fresh, Stale, Checked, rows, SplitChildren, Current, AllocsOf, NamedBy
  <1>3. CASE UNCHANGED vars
    BY <1>3 DEF Fresh, Stale, Checked, vars, rows, SplitChildren, Current, AllocsOf, NamedBy
  <1>4. ASSUME NEW c \in Clients, Load(c)
        PROVE  Fresh'
    <2>1. PICK t \in Requests : Started(c, t)
      BY <1>4, LoadCases
    <2>2. tx' = [tx EXCEPT ![c] = t] /\ UNCHANGED <<rows, commits>> /\ Checked(t)
      BY <2>1 DEF Started
    <2>3. Checked(tx[c])'
      BY <1>1, <2>2 DEF Checked, rows, SplitChildren, Current, AllocsOf, NamedBy
    <2>4. QED
      BY <1>2, <2>2, <2>3 DEF Fresh
  <1>5. ASSUME NEW c \in Clients, Commit(c)
        PROVE  Fresh'
    <2>1. tx' = [tx EXCEPT ![c] = Idle] /\ commits' = commits + 1
      BY <1>5, CommitFinishes DEF Finish
    <2>2. ASSUME NEW d \in Clients, tx'[d] # Idle
          PROVE  Stale(d)'
      <3>1. tx'[d] = tx[d] /\ tx[d] # Idle
        BY <1>1, <2>1, <2>2
      <3>2. tx[d].at <= commits /\ tx[d].at \in Nat
        BY <3>1, TxCases DEF Types
      <3>3. QED
        BY <1>1, <2>1, <3>1, <3>2 DEF Stale
    <2>3. QED
      BY <2>2 DEF Fresh
  <1>6. ASSUME NEW c \in Clients, Rollback(c)
        PROVE  Fresh'
    <2>1. tx' = [tx EXCEPT ![c] = Idle] /\ UNCHANGED <<rows, commits>>
      BY <1>6 DEF Rollback
    <2>2. tx'[c] = Idle
      BY <1>1, <2>1
    <2>3. QED
      BY <1>2, <2>1, <2>2 DEF Fresh
  <1>7. QED
    BY <1>3, <1>4, <1>5, <1>6 DEF Next

(* The inductive invariant. *)
Inv == Types /\ Budget /\ Fresh

LEMMA Invariant == Spec => []Inv
  <1>1. Init => Inv
    <2> SUFFICES ASSUME Init PROVE Inv
      OBVIOUS
    <2>2. Types /\ InFlight = {} /\ Fresh
      BY TypesStart DEF InFlight, Fresh
    <2>3. commits = 0 /\ Cardinality(InFlight) = 0
      BY <2>2, FS_EmptySet DEF Init
    <2>4. QED
      BY <2>2, <2>3, BoundAssumption DEF Inv, Budget, BoundAssumption
  <1>2. Inv /\ [Next]_vars => Inv'
    BY TypesStep, BudgetStep, FreshStep DEF Inv
  <1>3. QED
    BY <1>1, <1>2, PTL DEF Spec

(* Every row and every request in flight keeps its type, and the bound of  *)
(* the requests is kept.                                                   *)
THEOREM TypeCorrect == Spec => []TypeOK
  <1>1. ASSUME Inv
        PROVE  TypeOK
    <2>1. \A c \in Clients : tx[c].op \in {"idle", "delete"} \cup AllocOps \cup ResultOps \cup DeferOps
      BY <1>1 DEF Inv, Types, TxOK, Requests, SaveTx, OverrideTx, AllocTx, SplitTx, ResultTx,
                  DeleteTx, Idle, AllocOps
    <2>2. commits \in 0 .. MaxCommits
      <3>1. Cardinality(InFlight) \in Nat
        BY FiniteAssumption, FS_Subset, FS_CardinalityType DEF FiniteAssumption, InFlight
      <3>2. QED
        BY <1>1, <3>1, BoundAssumption DEF Inv, Budget, Types, RowsOK, BoundAssumption
    <2>3. QED
      BY <1>1, <2>1, <2>2 DEF TypeOK, Inv, Types, RowsOK
  <1>2. QED
    BY <1>1, Invariant, PTL

-----------------------------------------------------------------------------
LEMMA OneCommits ==
    ASSUME Types, Next, NEW c \in Clients, Commits(c)
    PROVE  Commit(c)
  <1>1. tx \in [Clients -> {Idle} \cup Requests] /\ commits \in Nat
    BY DEF Types, TxOK, RowsOK
  <1>2. PICK d \in Clients : Load(d) \/ Commit(d) \/ Rollback(d)
    BY DEF Next
  <1>3. commits' # commits
    BY <1>1 DEF Commits
  <1>4. ~Load(d)
    BY <1>3, LoadCases DEF Started
  <1>5. ~Rollback(d)
    BY <1>3 DEF Rollback
  <1>6. tx' = [tx EXCEPT ![d] = Idle]
    BY <1>2, <1>4, <1>5, CommitFinishes DEF Finish
  <1>7. c = d
    BY <1>1, <1>6 DEF Commits
  <1>8. QED
    BY <1>2, <1>4, <1>5, <1>7

(* A supplier that is gone comes to be named only by a request that checks *)
(* no supplier, or when a save and a deletion overlapped.                  *)
LEMMA NamesNoDeleted ==
    ASSUME Inv, Next, NEW c \in Clients, Commits(c),
           tx[c].op \notin {"override", "split"} \cup ResultOps, ~Stale(c)
    PROVE  Dangling' \subseteq Dangling
  <1>1. Types /\ Checked(tx[c]) /\ Commit(c)
    BY OneCommits DEF Inv, Fresh, Commits
  <1>2. ASSUME NEW s \in Suppliers, s \notin suppliers', NamedBy(s)' # {}, suppliers' = suppliers,
               \A k \in DOMAIN alloc' : alloc'[k].supplier = s =>
                  k \in DOMAIN alloc /\ alloc[k].supplier = s,
               \A k \in DOMAIN result' : result'[k].supplier = s =>
                  k \in DOMAIN result /\ result[k].supplier = s
        PROVE  s \in Dangling
    BY <1>2 DEF Dangling, NamedBy
  <1>3. CASE CommitSave(c)
    <2> SUFFICES ASSUME NEW s \in Suppliers, s \notin suppliers', NamedBy(s)' # {}
                 PROVE  s \in Dangling
      BY DEF Dangling
    <2>1. UNCHANGED <<result, suppliers>> /\ tx[c] \in SaveTx /\ tx[c].op = "save"
      BY <1>1, <1>3, SaveEffect DEF CommitSave
    <2>2. tx[c].new.supplier # s
      BY <1>1, <2>1, NullAssumption DEF Checked, NullAssumption
    <2>3. CASE tx[c].row = Null
      <3>1. PICK id \in Allocations \ DOMAIN alloc : alloc' = Insert(alloc, id, tx[c].new)
        BY <1>1, <1>3, <2>3, SaveEffect
      <3>2. \A k \in DOMAIN alloc' : alloc'[k].supplier = s =>
               k \in DOMAIN alloc /\ alloc[k].supplier = s
        BY <2>2, <3>1 DEF Insert
      <3>3. QED
        BY <1>2, <2>1, <3>2
    <2>4. CASE tx[c].row # Null
      <3>1. PICK new : Changed(tx[c], new) /\ alloc' = [alloc EXCEPT ![tx[c].row] = new]
        BY <1>1, <1>3, <2>4, SaveEffect
      <3>2. \A k \in DOMAIN alloc' : alloc'[k].supplier = s =>
               k \in DOMAIN alloc /\ alloc[k].supplier = s
        BY <2>2, <3>1 DEF Changed
      <3>3. QED
        BY <1>2, <2>1, <3>2
    <2>5. QED
      BY <2>3, <2>4
  <1>4. CASE CommitResult(c)
    <2> SUFFICES ASSUME NEW s \in Suppliers, s \notin suppliers', NamedBy(s)' # {}
                 PROVE  s \in Dangling
      BY DEF Dangling
    <2>1. UNCHANGED <<alloc, suppliers>>
      BY <1>4 DEF CommitResult
    <2>2. tx[c].op \in DeferOps /\ tx[c].row # Null
      BY <1>1, <1>4, ResultEffect
    <2>3. PICK new \in ResultRows :
            /\ new.supplier = result[tx[c].row].supplier
            /\ result' = [result EXCEPT ![tx[c].row] = new]
      BY <1>1, <1>4, <2>2, ResultEffect
    <2>4. \A k \in DOMAIN result' : result'[k].supplier = s =>
             k \in DOMAIN result /\ result[k].supplier = s
      BY <2>3
    <2>5. QED
      BY <1>2, <2>1, <2>4
  <1>5. CASE CommitDelete(c)
    <2>1. /\ suppliers' = suppliers \ {tx[c].supplier} /\ UNCHANGED <<alloc, result>>
          /\ NamedBy(tx[c].supplier) = {}
      BY <1>1, <1>5 DEF CommitDelete, Checked
    <2>2. \A s : NamedBy(s)' = NamedBy(s)
      BY <2>1 DEF NamedBy
    <2>3. QED
      BY <2>1, <2>2 DEF Dangling
  <1>6. tx[c].op \notin {"override", "split"}
    OBVIOUS
  <1>7. QED
    BY <1>1, <1>3, <1>4, <1>5, <1>6 DEF Commit, CommitOverride, CommitSplit

(* A supplier that is gone comes to be named by a row only through a       *)
(* request that does not check the supplier, or one that was stale.        *)
THEOREM SuppliersAreNamed == Spec => DanglingSupplierIsUnchecked
  <1>1. ASSUME Inv, [Next]_vars
        PROVE  [\A c \in Clients : Commits(c) /\ ~(Dangling' \subseteq Dangling) =>
                   \/ tx[c].op \in {"override", "split"} \cup ResultOps
                   \/ Stale(c)]_vars
    BY <1>1, NamesNoDeleted
  <1>2. QED
    BY <1>1, Invariant, PTL DEF Spec, DanglingSupplierIsUnchecked

-----------------------------------------------------------------------------
(* The plan of a line changes only by what is inserted without being a     *)
(* part, and by rows that become or cease to be one.                       *)
LEMMA SamePlan ==
    ASSUME NEW l \in Lines,
           DOMAIN alloc \subseteq DOMAIN alloc',
           \A k \in DOMAIN alloc :
              alloc'[k].line = alloc[k].line /\ alloc'[k].child = alloc[k].child,
           \A k \in DOMAIN alloc' \ DOMAIN alloc : alloc'[k].child \/ alloc'[k].line # l
    PROVE  Current(l)' = Current(l)
  BY DEF Current, SplitChildren, AllocsOf

LEMMA PlanGrows ==
    ASSUME Inv, Next, NEW c \in Clients, Commits(c), ~Stale(c), NEW l \in Lines, Current(l) # {},
           ~(tx[c].op \in {"override", "split"} /\ tx[c].old.child)
    PROVE  Current(l)' = Current(l)
  <1>1. Types /\ Checked(tx[c]) /\ Commit(c)
    BY OneCommits DEF Inv, Fresh, Commits
  <1>2. CASE CommitSave(c)
    <2>1. tx[c].op = "save"
      BY <1>1, <1>2, SaveEffect
    <2>2. CASE tx[c].row = Null
      <3>1. PICK id \in Allocations \ DOMAIN alloc : alloc' = Insert(alloc, id, tx[c].new)
        BY <1>1, <1>2, <2>2, SaveEffect
      <3>2. tx[c].new.line # l
        BY <1>1, <2>1, <2>2 DEF Checked
      <3>3. QED
        <4>1. /\ DOMAIN alloc' = DOMAIN alloc \cup {id} /\ alloc'[id] = tx[c].new
              /\ \A k \in DOMAIN alloc : alloc'[k] = alloc[k]
          BY <3>1 DEF Insert
        <4>2. QED
          BY <3>2, <4>1, SamePlan
    <2>3. CASE tx[c].row # Null
      <3>1. PICK new : Changed(tx[c], new) /\ alloc' = [alloc EXCEPT ![tx[c].row] = new]
        BY <1>1, <1>2, <2>3, SaveEffect
      <3>2. new.line = alloc[tx[c].row].line /\ new.child = alloc[tx[c].row].child
        BY <2>1, <3>1 DEF Changed
      <3>3. QED
        BY <3>1, <3>2, SamePlan
    <2>4. QED
      BY <2>2, <2>3
  <1>3. ASSUME NEW new, Changed(tx[c], new), tx[c].op \in {"override", "split"}
        PROVE  new.line = alloc[tx[c].row].line /\ new.child = alloc[tx[c].row].child
    <2>1. tx[c].old.child = FALSE /\ tx[c].new.child = FALSE
      <3>1. tx[c].old.child \in BOOLEAN
        BY <1>3 DEF Changed, AllocRows
      <3>2. tx[c] \in OverrideTx \cup SplitTx
        BY <1>1, <1>3, TxCases DEF Types
      <3>3. tx[c].new.child \in BOOLEAN
        BY <3>2 DEF OverrideTx, SplitTx, AllocTx, AllocRows
      <3>4. QED
        BY <1>3, <3>1, <3>3 DEF Changed
    <2>2. QED
      BY <1>3, <2>1 DEF Changed
  <1>4. CASE CommitOverride(c)
    <2>1. tx[c].op = "override"
      BY <1>4 DEF CommitOverride
    <2>2. PICK new : Changed(tx[c], new) /\ alloc' = [alloc EXCEPT ![tx[c].row] = new]
      BY <1>1, <1>4, OverrideEffect
    <2>3. new.line = alloc[tx[c].row].line /\ new.child = alloc[tx[c].row].child
      BY <1>3, <2>1, <2>2
    <2>4. QED
      BY <2>2, <2>3, SamePlan
  <1>5. CASE CommitSplit(c)
    <2>1. tx[c].op = "split"
      BY <1>5 DEF CommitSplit
    <2>2. PICK new, first, second, p, q :
            /\ Changed(tx[c], new)
            /\ first \in Allocations \ DOMAIN alloc
            /\ second \in Allocations \ DOMAIN alloc /\ first # second
            /\ p.child /\ q.child
            /\ alloc' = Insert(Insert([alloc EXCEPT ![tx[c].row] = new], first, p), second, q)
      BY <1>1, <1>5, SplitEffect
    <2> DEFINE one == [alloc EXCEPT ![tx[c].row] = new]
               two == Insert(one, first, p)
    <2>3. /\ DOMAIN one = DOMAIN alloc
          /\ \A k \in DOMAIN alloc : one[k].line = alloc[k].line /\ one[k].child = alloc[k].child
      BY <1>3, <2>1, <2>2
    <2> HIDE DEF one
    <2>4. /\ DOMAIN two = DOMAIN alloc \cup {first}
          /\ \A k \in DOMAIN alloc : two[k] = one[k]
          /\ two[first] = p
      BY <2>2, <2>3 DEF two, Insert
    <2> HIDE DEF two
    <2>5. alloc' = Insert(two, second, q)
      BY <2>2 DEF one, two
    <2>6. /\ DOMAIN alloc' = DOMAIN alloc \cup {first, second}
          /\ \A k \in DOMAIN alloc : alloc'[k] = one[k]
          /\ alloc'[first] = p /\ alloc'[second] = q
      BY <2>2, <2>4, <2>5 DEF Insert
    <2>7. /\ DOMAIN alloc \subseteq DOMAIN alloc'
          /\ \A k \in DOMAIN alloc :
               alloc'[k].line = alloc[k].line /\ alloc'[k].child = alloc[k].child
          /\ \A k \in DOMAIN alloc' \ DOMAIN alloc : alloc'[k].child
      BY <2>2, <2>3, <2>6
    <2>8. QED
      BY <2>7, SamePlan
  <1>6. CASE CommitResult(c) \/ CommitDelete(c)
    BY <1>6 DEF CommitResult, CommitDelete, Current, SplitChildren, AllocsOf
  <1>7. QED
    BY <1>1, <1>2, <1>4, <1>5, <1>6 DEF Commit

LEMMA SplitLineIsNotSavedOver ==
    ASSUME Inv, Next, NEW c \in Clients, Commits(c), ~Stale(c), NEW l \in Lines,
           tx[c].op = "save", SplitChildren(l) # {}
    PROVE  \A a \in AllocsOf(l)' : a \in DOMAIN alloc /\ alloc'[a] = alloc[a]
  <1>1. Types /\ Checked(tx[c]) /\ Commit(c)
    BY OneCommits DEF Inv, Fresh, Commits
  <1>2. CommitSave(c)
    BY <1>1 DEF Commit, CommitOverride, CommitSplit, CommitResult, CommitDelete, ResultOps, DeferOps
  <1>3. tx[c].new.line # l
    BY <1>1 DEF Checked
  <1>4. CASE tx[c].row = Null
    <2>1. PICK id \in Allocations \ DOMAIN alloc : alloc' = Insert(alloc, id, tx[c].new)
      BY <1>1, <1>2, <1>4, SaveEffect
    <2>2. QED
      BY <1>3, <2>1 DEF AllocsOf, Insert
  <1>5. CASE tx[c].row # Null
    <2>1. PICK new : Changed(tx[c], new) /\ alloc' = [alloc EXCEPT ![tx[c].row] = new]
      BY <1>1, <1>2, <1>5, SaveEffect
    <2>2. alloc[tx[c].row] = tx[c].old
      BY <1>1, <1>5 DEF Checked, AllocOps
    <2>3. new.line # l
      BY <1>3, <2>1, <2>2 DEF Changed
    <2>4. QED
      BY <2>1, <2>3 DEF AllocsOf
  <1>6. QED
    BY <1>4, <1>5

(* A line gets a second allocation beside its parts only by an override or *)
(* a split of a part, and the plan of a split line is not saved over,      *)
(* unless requests overlapped.                                             *)
THEOREM PlanIsOne == Spec => LineHasOnePlan
  <1>1. ASSUME Inv, Next, NEW c \in Clients, NEW l \in Lines, Commits(c), ~Stale(c)
        PROVE  /\ Current(l) # {} /\ Cardinality(Current(l)') > Cardinality(Current(l))
                    => tx[c].op \in {"override", "split"} /\ tx[c].old.child
               /\ tx[c].op = "save" /\ SplitChildren(l) # {}
                    => \A a \in AllocsOf(l)' : a \in DOMAIN alloc /\ alloc'[a] = alloc[a]
    <2>1. Cardinality(Current(l)) \in Nat
      <3>1. Current(l) \in SUBSET Allocations
        BY <1>1 DEF Inv, Types, RowsOK, Current, AllocsOf
      <3>2. QED
        BY <3>1, FiniteAssumption, FS_Subset, FS_CardinalityType DEF FiniteAssumption
    <2>2. Current(l) # {} /\ ~(tx[c].op \in {"override", "split"} /\ tx[c].old.child)
            => Current(l)' = Current(l)
      BY <1>1, PlanGrows
    <2>3. tx[c].op = "save" /\ SplitChildren(l) # {}
            => \A a \in AllocsOf(l)' : a \in DOMAIN alloc /\ alloc'[a] = alloc[a]
      BY <1>1, SplitLineIsNotSavedOver
    <2> QED
      BY <2>1, <2>2, <2>3
  <1>2. ASSUME Inv, [Next]_vars
        PROVE  [\A c \in Clients, l \in Lines :
                   Commits(c) /\ ~Stale(c) =>
                     /\ Current(l) # {} /\ Cardinality(Current(l)') > Cardinality(Current(l))
                          => tx[c].op \in {"override", "split"} /\ tx[c].old.child
                     /\ tx[c].op = "save" /\ SplitChildren(l) # {}
                          => \A a \in AllocsOf(l)' : a \in DOMAIN alloc /\ alloc'[a] = alloc[a]]_vars
    BY <1>1, <1>2
  <1>3. QED
    BY <1>2, Invariant, PTL DEF Spec, LineHasOnePlan

-----------------------------------------------------------------------------
(* What a request that records a quantity has compared with the limit of   *)
(* the allocation: the results that stay, and the quantity it will write.  *)
Weighed(t) ==
    t.op \in ResultOps =>
      /\ t.row # Null => result[t.row] = t.old /\ t.new.alloc = t.old.alloc
      /\ WithinLimit(t.new.alloc, t.new.qty, ResultsOf(t.new.alloc) \ {t.row})

LEMMA LoadWeighs ==
    ASSUME Types, NEW c \in Clients, Load(c)
    PROVE  UNCHANGED <<rows, commits>> /\ \E t : tx' = [tx EXCEPT ![c] = t] /\ Weighed(t)
  <1> USE DEF Types, RowsOK
  <1>1. ASSUME NEW t, Begin(c, t), Weighed(t)
        PROVE  UNCHANGED <<rows, commits>> /\ \E u : tx' = [tx EXCEPT ![c] = u] /\ Weighed(u)
    BY <1>1 DEF Begin
  <1>2. ASSUME NEW l \in Lines, NEW s \in Suppliers \cup {Null}, NEW q \in Quantities \cup {Null},
               LoadSave(c, l, s, q)
        PROVE  \E t : Begin(c, t) /\ Weighed(t)
    BY <1>2 DEF LoadSave, Change, Weighed, ResultOps
  <1>3. ASSUME NEW a \in Allocations, NEW s \in Suppliers, NEW q \in Quantities,
               LoadOverride(c, a, s, q) \/ \E p \in Quantities : LoadSplit(c, a, s, p, q)
        PROVE  \E t : Begin(c, t) /\ Weighed(t)
    <2>1. CASE LoadOverride(c, a, s, q)
      BY <2>1 DEF LoadOverride, Change, Weighed, ResultOps
    <2>2. ASSUME NEW p \in Quantities, LoadSplit(c, a, s, p, q)
          PROVE  \E t : Begin(c, t) /\ Weighed(t)
      BY <2>2 DEF LoadSplit, Weighed, ResultOps
    <2>3. QED
      BY <1>3, <2>1, <2>2
  <1>4. ASSUME NEW s \in Suppliers \cup {Null}, NEW q \in Quantities \ {0}, NEW a \in Allocations,
               LoadCreate(c, a, s, q)
        PROVE  \E t : Begin(c, t) /\ Weighed(t)
    <2>1. ResultsOf(a) \ {Null} = ResultsOf(a)
      BY NullAssumption DEF ResultsOf, NullAssumption
    <2> DEFINE t == Change("create", Null, Null, NewResult(a, s, q))
    <2>2. t.op = "create" /\ t.row = Null /\ t.new.alloc = a /\ t.new.qty = q
      BY DEF Change, NewResult
    <2> HIDE DEF t
    <2>3. Weighed(t)
      BY <1>4, <2>1, <2>2 DEF LoadCreate, Weighed
    <2>4. Begin(c, t)
      BY <1>4 DEF LoadCreate, t
    <2>5. QED
      BY <2>3, <2>4
  <1>5. ASSUME NEW op \in ResultOps, NEW s, NEW q, NEW r \in DOMAIN result,
               WithinLimit(result[r].alloc, q, ResultsOf(result[r].alloc) \ {r})
        PROVE  Weighed(Change(op, r, result[r],
                 [result[r] EXCEPT !.supplier = DefaultSupplier(s, result[r].alloc), !.qty = q]))
    <2> DEFINE new == [result[r] EXCEPT !.supplier = DefaultSupplier(s, result[r].alloc), !.qty = q]
               t == Change(op, r, result[r], new)
    <2>1. new.alloc = result[r].alloc /\ new.qty = q
      <3>1. result[r] \in ResultRows
        OBVIOUS
      <3>2. QED
        BY <3>1 DEF ResultRows
    <2>2. t.row = r /\ t.old = result[r] /\ t.new.alloc = result[r].alloc /\ t.new.qty = q
      BY <2>1 DEF Change
    <2> HIDE DEF t
    <2>3. Weighed(t)
      BY <1>5, <2>2 DEF Weighed
    <2>4. QED
      BY <2>3 DEF t
  <1>6. ASSUME NEW s \in Suppliers \cup {Null}, NEW q \in Quantities \ {0}, NEW a \in Allocations,
               LoadUpsert(c, a, s, q)
        PROVE  \E t : Begin(c, t) /\ Weighed(t)
    <2>1. CASE ResultsOf(a) = {} /\ WithinLimit(a, q, {}) /\ Begin(c, Change("upsert", Null, Null, NewResult(a, s, q)))
      <3> DEFINE t == Change("upsert", Null, Null, NewResult(a, s, q))
      <3>1. t.op = "upsert" /\ t.row = Null /\ t.new.alloc = a /\ t.new.qty = q
        BY DEF Change, NewResult
      <3> HIDE DEF t
      <3>2. Weighed(t)
        BY <2>1, <3>1 DEF Weighed
      <3>3. QED
        BY <2>1, <3>2 DEF t
    <2>2. ASSUME NEW r \in ResultsOf(a), WithinLimit(a, q, ResultsOf(a) \ {r}),
                 Begin(c, Change("upsert", r, result[r],
                                 [result[r] EXCEPT !.supplier = DefaultSupplier(s, a), !.qty = q]))
          PROVE  \E t : Begin(c, t) /\ Weighed(t)
      <3>1. r \in DOMAIN result /\ result[r].alloc = a /\ "upsert" \in ResultOps
        BY DEF ResultsOf, ResultOps
      <3>2. QED
        BY <1>5, <2>2, <3>1
    <2>3. QED
      BY <1>6, <2>1, <2>2 DEF LoadUpsert
  <1>7. ASSUME NEW s \in Suppliers \cup {Null}, NEW q \in Quantities \ {0}, NEW r \in Results,
               LoadUpdate(c, r, s, q)
        PROVE  \E t : Begin(c, t) /\ Weighed(t)
    <2>1. r \in DOMAIN result /\ "update" \in ResultOps
      BY <1>7 DEF LoadUpdate, ResultOps
    <2>2. QED
      BY <1>5, <1>7, <2>1 DEF LoadUpdate
  <1>8. ASSUME NEW r \in Results, LoadUndefer(c, r) \/ \E d \in Days \cup {Null} : LoadDefer(c, r, d)
        PROVE  \E t : Begin(c, t) /\ Weighed(t)
    <2>1. CASE LoadUndefer(c, r)
      BY <2>1 DEF LoadUndefer, Change, Weighed, ResultOps
    <2>2. ASSUME NEW d \in Days \cup {Null}, LoadDefer(c, r, d)
          PROVE  \E t : Begin(c, t) /\ Weighed(t)
      BY <2>2 DEF LoadDefer, Change, Weighed, ResultOps
    <2>3. QED
      BY <1>8, <2>1, <2>2
  <1>9. ASSUME NEW s \in Suppliers, LoadDelete(c, s)
        PROVE  \E t : Begin(c, t) /\ Weighed(t)
    BY <1>9 DEF LoadDelete, Weighed, ResultOps
  <1>10. QED
    BY <1>1, <1>2, <1>3, <1>4, <1>6, <1>7, <1>8, <1>9 DEF Load

Weighing == \A c \in Clients : tx[c] # Idle /\ ~Stale(c) => Weighed(tx[c])

LEMMA WeighingStep ==
    ASSUME Types, Weighing, [Next]_vars
    PROVE  Weighing'
  <1>1. tx \in [Clients -> {Idle} \cup Requests] /\ commits \in Nat
    BY DEF Types, TxOK, RowsOK
  <1>2. ASSUME UNCHANGED <<alloc, result, commits>>, NEW t
        PROVE  Weighed(t)' <=> Weighed(t)
    BY <1>2 DEF Weighed, WithinLimit, Bought, ResultsOf
  <1>3. ASSUME UNCHANGED <<rows, commits>>, NEW c \in Clients, NEW t, t = Idle \/ Weighed(t),
               tx' = [tx EXCEPT ![c] = t]
        PROVE  Weighing'
    <2>1. UNCHANGED <<alloc, result, commits>>
      BY <1>3 DEF rows
    <2>2. ASSUME NEW d \in Clients, tx'[d] # Idle, ~Stale(d)'
          PROVE  Weighed(tx'[d])
      BY <1>1, <1>3, <2>1, <2>2 DEF Weighing, Stale
    <2>3. \A d \in Clients : tx'[d] # Idle /\ ~Stale(d)' => Weighed(tx[d])'
      <3>1. ASSUME NEW d \in Clients, Weighed(tx'[d])
            PROVE  Weighed(tx[d])'
        BY <2>1, <3>1 DEF Weighed, WithinLimit, Bought, ResultsOf
      <3>2. QED
        BY <2>2, <3>1
    <2>4. QED
      BY <2>3 DEF Weighing
  <1>4. CASE UNCHANGED vars
    BY <1>4 DEF Weighing, Stale, Weighed, WithinLimit, Bought, ResultsOf, vars, rows
  <1>5. ASSUME NEW c \in Clients, Load(c)
        PROVE  Weighing'
    BY <1>3, <1>5, LoadWeighs
  <1>6. ASSUME NEW c \in Clients, Commit(c)
        PROVE  Weighing'
    <2>1. tx' = [tx EXCEPT ![c] = Idle] /\ commits' = commits + 1
      BY <1>6, CommitFinishes DEF Finish
    <2>2. ASSUME NEW d \in Clients, tx'[d] # Idle
          PROVE  Stale(d)'
      <3>1. tx'[d] = tx[d] /\ tx[d] # Idle
        BY <1>1, <2>1, <2>2
      <3>2. tx[d].at <= commits /\ tx[d].at \in Nat
        BY <3>1, TxCases DEF Types
      <3>3. QED
        BY <1>1, <2>1, <3>1, <3>2 DEF Stale
    <2>3. QED
      BY <2>2 DEF Weighing
  <1>7. ASSUME NEW c \in Clients, Rollback(c)
        PROVE  Weighing'
    BY <1>3, <1>7 DEF Rollback
  <1>8. QED
    BY <1>4, <1>5, <1>6, <1>7 DEF Next

LEMMA WeighingHolds == Spec => []Weighing
  <1>1. Init => Weighing
    BY TypesStart DEF Weighing
  <1>2. Inv /\ Weighing /\ [Next]_vars => Weighing'
    BY WeighingStep DEF Inv
  <1>3. QED
    BY <1>1, <1>2, Invariant, PTL DEF Spec

(* The quantities of a table of results add up to a number, whichever      *)
(* result is counted last.                                                 *)
QtySum(table, S) == SumFunction([x \in S |-> table[x].qty])

LEMMA QtySums ==
    ASSUME NEW table, DOMAIN table \subseteq Results, \A r \in DOMAIN table : table[r] \in ResultRows,
           NEW S \in SUBSET DOMAIN table
    PROVE  /\ QtySum(table, S) \in Nat
           /\ \A r \in S : QtySum(table, S) = table[r].qty + QtySum(table, S \ {r})
  <1> DEFINE f == [r \in S |-> table[r].qty]
  <1>1. IsFiniteSet(DOMAIN f)
    BY FiniteAssumption, FS_Subset DEF FiniteAssumption
  <1>2. \A r \in DOMAIN f : f[r] \in Nat
    BY NumbersAssumption DEF ResultRows, NumbersAssumption
  <1>3. SumFunction(f) \in Nat
    <2> HIDE DEF f
    <2>1. QED
      BY <1>1, <1>2, SumIsNat
  <1>4. ASSUME NEW r \in S
        PROVE  SumFunction(f) = table[r].qty + SumFunction([x \in S \ {r} |-> table[x].qty])
    <2>1. r \in DOMAIN f /\ f[r] = table[r].qty
      OBVIOUS
    <2>2. [x \in DOMAIN f \ {r} |-> f[x]] = [x \in S \ {r} |-> table[x].qty]
      OBVIOUS
    <2> HIDE DEF f
    <2>3. QED
      BY <1>1, <1>2, <2>1, <2>2, SumSplit
  <1>5. QED
    BY <1>3, <1>4 DEF QtySum

(* A quantity that was compared with the results that stay does not exceed *)
(* the allocation it is recorded for.                                      *)
LEMMA RecordedWithinLimit ==
    ASSUME Types, Types', alloc' = alloc, NEW a \in DOMAIN alloc, NEW r, NEW S, S = ResultsOf(a) \ {r},
           ResultsOf(a)' = S \cup {r}, \A x \in S : result'[x] = result[x],
           WithinLimit(a, result'[r].qty, S)
    PROVE  ~Overbought(a)'
  <1> DEFINE q == result'[r].qty
  <1>1. /\ S \in SUBSET DOMAIN result /\ S \in SUBSET DOMAIN result' /\ r \in DOMAIN result'
        /\ S \cup {r} \in SUBSET DOMAIN result' /\ (S \cup {r}) \ {r} = S
    BY DEF ResultsOf
  <1>2. QtySum(result', S \cup {r}) = q + QtySum(result', S)
    <2>1. DOMAIN result' \subseteq Results /\ \A x \in DOMAIN result' : result'[x] \in ResultRows
      BY DEF Types, RowsOK
    <2>2. QED
      BY <1>1, <2>1, QtySums
  <1>3. QtySum(result', S) = QtySum(result, S)
    <2>1. [x \in S |-> result'[x].qty] = [x \in S |-> result[x].qty]
      OBVIOUS
    <2>2. QED
      BY <2>1 DEF QtySum
  <1>4. QtySum(result, S) \in Nat
    BY <1>1, QtySums DEF Types, RowsOK
  <1>5. q \in Nat
    BY <1>1, NumbersAssumption DEF Types, RowsOK, ResultRows, NumbersAssumption
  <1>6. alloc[a].qty # Null => alloc[a].qty \in Nat /\ QtySum(result, S) + q <= alloc[a].qty
    BY NumbersAssumption DEF WithinLimit, Bought, QtySum, Types, RowsOK, AllocRows, NumbersAssumption
  <1>7. Bought(ResultsOf(a))' = QtySum(result', S \cup {r})
    BY DEF Bought, QtySum
  <1>8. QED
    BY <1>2, <1>3, <1>4, <1>5, <1>6, <1>7 DEF Overbought

(* A commit that is not stale leaves no allocation overbought that was not. *)
LEMMA NoNewOverbuy ==
    ASSUME Types, Types', Weighing, Next, NEW c \in Clients, Commits(c),
           tx[c].op \in ResultOps, ~Stale(c), NEW a \in DOMAIN alloc, Overbought(a)'
    PROVE  Overbought(a)
  <1>1. Commit(c) /\ Weighed(tx[c])
    BY OneCommits DEF Weighing, Commits
  <1>2. CommitResult(c) /\ alloc' = alloc
    BY <1>1 DEF Commit, CommitSave, CommitOverride, CommitSplit, CommitDelete, CommitResult, ResultOps
  <1>3. /\ tx[c] \in ResultTx /\ Loaded(tx[c])
        /\ tx[c].new \in ResultRows /\ tx[c].new.alloc \in DOMAIN alloc
    BY <1>2, ResultEffect DEF Loaded, ResultTx
  <1>4. ASSUME ResultsOf(a)' = ResultsOf(a), \A x \in ResultsOf(a) : result'[x] = result[x]
        PROVE  Overbought(a)
    <2>1. [x \in ResultsOf(a) |-> result'[x].qty] = [x \in ResultsOf(a) |-> result[x].qty]
      BY <1>4
    <2>2. Bought(ResultsOf(a))' = Bought(ResultsOf(a))
      BY <1>4, <2>1 DEF Bought
    <2>3. QED
      BY <1>2, <2>2 DEF Overbought
  <1>5. CASE tx[c].row = Null
    <2>1. PICK r \in Results \ DOMAIN result : result' = Insert(result, r, tx[c].new)
      BY <1>2, <1>5, ResultEffect
    <2>2. /\ DOMAIN result' = DOMAIN result \cup {r} /\ result'[r] = tx[c].new
          /\ \A x \in DOMAIN result : result'[x] = result[x]
      BY <2>1 DEF Insert
    <2>3. CASE tx[c].new.alloc # a
      BY <1>4, <2>2, <2>3 DEF ResultsOf
    <2>4. CASE tx[c].new.alloc = a
      <3>1. ResultsOf(a) \ {Null} = ResultsOf(a) /\ ResultsOf(a) \ {r} = ResultsOf(a)
        BY <2>1, NullAssumption DEF ResultsOf, Types, RowsOK, NullAssumption
      <3>2. ResultsOf(a)' = ResultsOf(a) \cup {r}
        BY <2>2, <2>4 DEF ResultsOf
      <3>3. WithinLimit(a, result'[r].qty, ResultsOf(a))
        BY <1>1, <1>5, <2>2, <2>4, <3>1 DEF Weighed
      <3>4. \A x \in ResultsOf(a) : result'[x] = result[x]
        BY <2>2 DEF ResultsOf
      <3>5. ~Overbought(a)'
        BY <1>2, <3>1, <3>2, <3>3, <3>4, RecordedWithinLimit
      <3>6. QED
        BY <3>5
    <2>5. QED
      BY <2>3, <2>4
  <1>6. CASE tx[c].row # Null
    <2> DEFINE r == tx[c].row
    <2>1. /\ r \in DOMAIN result /\ result[r] \in ResultRows /\ result[r] = tx[c].old
          /\ tx[c].new.alloc = result[r].alloc
      BY <1>1, <1>3, <1>6 DEF Loaded, Weighed, Types, RowsOK
    <2>2. PICK new \in Written(tx[c], result[r]) : result' = [result EXCEPT ![r] = new]
      BY <1>2, <1>6 DEF CommitResult
    <2>3. new.qty = tx[c].new.qty /\ new.alloc = result[r].alloc
      <3>1. "qty" \in DOMAIN result[r] /\ "alloc" \in DOMAIN result[r]
        BY <2>1 DEF ResultRows
      <3>2. QED
        BY <2>1, <3>1, WrittenRow
    <2>4. /\ DOMAIN result' = DOMAIN result /\ result'[r] = new
          /\ \A x \in DOMAIN result : x # r => result'[x] = result[x]
      BY <2>1, <2>2
    <2>5. CASE result[r].alloc # a
      BY <1>4, <2>1, <2>3, <2>4, <2>5 DEF ResultsOf
    <2>6. CASE result[r].alloc = a
      <3>1. ResultsOf(a)' = (ResultsOf(a) \ {r}) \cup {r}
        BY <2>1, <2>3, <2>4, <2>6 DEF ResultsOf
      <3>2. WithinLimit(a, result'[r].qty, ResultsOf(a) \ {r})
        BY <1>1, <2>1, <2>3, <2>4, <2>6 DEF Weighed
      <3>3. \A x \in ResultsOf(a) \ {r} : result'[x] = result[x]
        BY <2>4 DEF ResultsOf
      <3>4. ~Overbought(a)'
        BY <1>2, <3>1, <3>2, <3>3, RecordedWithinLimit
      <3>5. QED
        BY <3>4
    <2>7. QED
      BY <2>5, <2>6
  <1>7. QED
    BY <1>5, <1>6

(* More than an allocation allows is bought only by a request that was     *)
(* stale when it recorded its quantity, or by a change of the allocation.  *)
THEOREM LimitIsKept == Spec => OverbuyIsStale
  <1>1. ASSUME Inv, Inv', Weighing, [Next]_vars
        PROVE  [\A c \in Clients : Commits(c) /\ tx[c].op \in ResultOps /\ ~Stale(c) =>
                  \A a \in DOMAIN alloc : Overbought(a)' => Overbought(a)]_vars
    BY <1>1, NoNewOverbuy DEF Inv
  <1>2. QED
    BY <1>1, Invariant, WeighingHolds, PTL DEF Spec, OverbuyIsStale

=============================================================================
