----------------------------- MODULE Purchasing -----------------------------
(***************************************************************************)
(* Supplier allocations and purchase results: bulk-save, override and      *)
(* split of allocations (routes_order_item_allocations.py,                 *)
(* routes_allocations.py), recording, changing and deferring of purchase   *)
(* results (routes_purchase_results.py) and the deletion of a supplier     *)
(* they may name (routes_suppliers.py).                                    *)
(*                                                                         *)
(* A request loads the rows it needs and checks them, and commits later;   *)
(* other requests load and commit in between.  No row is locked while it   *)
(* is only read, and the UPDATE of a row writes only the columns the       *)
(* request changed.  What the lines and orders become is in OrderBilling.  *)
(***************************************************************************)
EXTENDS Naturals, FiniteSets, FiniteSetsExt, Functions

CONSTANTS
    Lines,          \* order_items rows
    Allocations,    \* ids of the supplier_allocations rows that may exist
    Results,        \* purchase_results rows that may come to exist
    Suppliers,      \* suppliers rows
    Quantities,     \* the quantities requests may name
    Ordered,        \* order_items.ordered_qty, the same for every line
    Days,           \* the later days results may be deferred to
    Clients,        \* requests served at the same time
    Null,
    MaxCommits      \* bound: requests that commit or are in flight

ASSUME FiniteAssumption == IsFiniteSet(Allocations) /\ IsFiniteSet(Results) /\ IsFiniteSet(Clients)
ASSUME NumbersAssumption == Allocations \subseteq Nat /\ Quantities \subseteq Nat /\ Ordered \in Nat
ASSUME NullAssumption == Null \notin Allocations \cup Results \cup Suppliers \cup Quantities \cup Days
ASSUME BoundAssumption == MaxCommits \in Nat

VARIABLES
    alloc,      \* the supplier_allocations rows, by id
    result,     \* the purchase_results rows
    suppliers,  \* the suppliers rows that have not been deleted
    tx,         \* the request each client has in flight
    commits     \* how many requests have committed

rows == <<alloc, result, suppliers>>
vars == <<rows, tx, commits>>

(* final_supplier_id, final_qty and is_split_child.  No handler sets       *)
(* suggested_supplier_id, the second fallback for a result's supplier.     *)
AllocRows ==
    [line : Lines, supplier : Suppliers \cup {Null}, qty : Quantities \cup {Null}, child : BOOLEAN]

(* purchased_qty, supplier_id, is_deferred and defer_until. *)
ResultRows ==
    [alloc : Allocations, qty : Quantities, supplier : Suppliers \cup {Null},
     deferred : BOOLEAN, until : Days \cup {Null}]

Idle == [op |-> "idle"]

AllocOps == {"save", "override", "split"}
ResultOps == {"create", "update", "upsert"}
DeferOps == {"defer", "undefer"}

TypeOK ==
    /\ DOMAIN alloc \subseteq Allocations
    /\ \A a \in DOMAIN alloc : alloc[a] \in AllocRows
    /\ DOMAIN result \subseteq Results
    /\ \A r \in DOMAIN result : result[r] \in ResultRows
    /\ suppliers \subseteq Suppliers
    /\ \A c \in Clients :
         tx[c].op \in {"idle", "delete"} \cup AllocOps \cup ResultOps \cup DeferOps
    /\ commits \in 0 .. MaxCommits

-----------------------------------------------------------------------------
AllocsOf(l) == {a \in DOMAIN alloc : alloc[a].line = l}
SplitChildren(l) == {a \in AllocsOf(l) : alloc[a].child}
Current(l) == AllocsOf(l) \ SplitChildren(l)

ResultsOf(a) == {r \in DOMAIN result : result[r].alloc = a}
Bought(S) == SumFunction([r \in S |-> result[r].qty])

(* The rows that name supplier s. *)
NamedBy(s) ==
    {a \in DOMAIN alloc : alloc[a].supplier = s} \cup {r \in DOMAIN result : result[r].supplier = s}

(* Mutant: the id of the allocation is taken for that of its supplier. *)
DefaultSupplier_Id(s, a) == IF s # Null THEN s ELSE a

(* _default_supplier_id *)
DefaultSupplier(s, a) == IF s # Null THEN s ELSE alloc[a].supplier

(* Mutant: only the new quantity is compared with the allocation. *)
WithinLimit_OwnOnly(a, q, others) == alloc[a].qty # Null => q <= alloc[a].qty

(* _validate_quantity_limit: with the results of others, q does not exceed *)
(* the final quantity of allocation a; without one there is no limit.      *)
WithinLimit(a, q, others) == alloc[a].qty # Null => Bought(others) + q <= alloc[a].qty

(* Between requests: a line has no allocation, or one that was saved, or   *)
(* one that was also split in two; some of them have one result each.      *)
Init ==
    /\ suppliers = Suppliers
    /\ \E A \in SUBSET Allocations : alloc \in [A -> AllocRows]
    /\ \A a \in DOMAIN alloc : alloc[a].supplier # Null /\ alloc[a].qty # Null
    /\ \A l \in Lines :
         /\ <<Cardinality(Current(l)), Cardinality(SplitChildren(l))>> \in {<<0, 0>>, <<1, 0>>, <<1, 2>>}
         /\ \A a \in Current(l), b \in SplitChildren(l) : a < b
         /\ \A a \in Current(l) : alloc[a].qty \in 1 .. Ordered
    /\ \E R \in SUBSET Results : result \in [R -> ResultRows]
    /\ \A r \in DOMAIN result :
         /\ result[r].alloc \in DOMAIN alloc
         /\ ResultsOf(result[r].alloc) = {r}
         /\ result[r].qty \in 1 .. alloc[result[r].alloc].qty
         /\ result[r].supplier = alloc[result[r].alloc].supplier
         /\ ~result[r].deferred /\ result[r].until = Null
    /\ tx = [c \in Clients |-> Idle]
    /\ commits = 0

-----------------------------------------------------------------------------
(* Loading and checking.  Client c has request t in flight from here on.   *)
Begin(c, t) ==
    /\ tx[c] = Idle
    /\ commits + Cardinality({d \in Clients : tx[d] # Idle}) < MaxCommits
    /\ tx' = [tx EXCEPT ![c] = t]
    /\ UNCHANGED <<rows, commits>>

(* A request that changes row id, or inserts a row when id is Null.        *)
Change(op, id, old, new) ==
    [at |-> commits, op |-> op, row |-> id, old |-> old, new |-> new]

(* One row of bulk-save: the newest allocation of the line that is not a   *)
(* split part gets supplier s and quantity q, or neither (both Null).  A   *)
(* row that fails a check is reported, and so is one that names its line   *)
(* by the old number: those change nothing.                                *)
LoadSave(c, l, s, q) ==
    /\ SplitChildren(l) = {}
    /\ IF s = Null THEN q = Null /\ Current(l) # {} ELSE s \in suppliers /\ q \in 1 .. Ordered
    /\ IF Current(l) = {}
       THEN Begin(c, Change("save", Null, Null,
                            [line |-> l, supplier |-> s, qty |-> q, child |-> FALSE]))
       ELSE LET a == Max(Current(l)) IN
            Begin(c, Change("save", a, alloc[a], [alloc[a] EXCEPT !.supplier = s, !.qty = q]))

(* override_allocation: neither supplier nor quantity is checked, and a    *)
(* split part becomes an ordinary allocation.                              *)
LoadOverride(c, a, s, q) ==
    /\ a \in DOMAIN alloc
    /\ Begin(c, Change("override", a, alloc[a],
                       [alloc[a] EXCEPT !.supplier = s, !.qty = q, !.child = FALSE]))

(* split_allocation into two parts, with the row it is to leave. *)
LoadSplit(c, a, s, p, q) ==
    /\ a \in DOMAIN alloc
    /\ Begin(c, [at |-> commits, op |-> "split", row |-> a, old |-> alloc[a],
                 new |-> [alloc[a] EXCEPT !.child = FALSE],
                 parts |-> <<p, q>>, supplier |-> s])

NewResult(a, s, q) ==
    [alloc |-> a, qty |-> q, supplier |-> DefaultSupplier(s, a), deferred |-> FALSE, until |-> Null]

LoadCreate(c, a, s, q) ==
    /\ a \in DOMAIN alloc
    /\ WithinLimit(a, q, ResultsOf(a))
    /\ Begin(c, Change("create", Null, Null, NewResult(a, s, q)))

(* update_purchase_result: the quantity, the supplier (Null for none) or   *)
(* neither comes from the payload.                                         *)
LoadUpdate(c, r, s, q) ==
    /\ r \in DOMAIN result
    /\ LET a == result[r].alloc IN
       /\ WithinLimit(a, q, ResultsOf(a) \ {r})
       /\ Begin(c, Change("update", r, result[r],
                          [result[r] EXCEPT !.supplier = DefaultSupplier(s, a), !.qty = q]))

(* One item of bulk-upsert: some result of the allocation is overwritten,  *)
(* a new one is inserted when there is none.                               *)
LoadUpsert(c, a, s, q) ==
    /\ a \in DOMAIN alloc
    /\ \/ /\ ResultsOf(a) = {}
          /\ WithinLimit(a, q, {})
          /\ Begin(c, Change("upsert", Null, Null, NewResult(a, s, q)))
       \/ \E r \in ResultsOf(a) :
            /\ WithinLimit(a, q, ResultsOf(a) \ {r})
            /\ Begin(c, Change("upsert", r, result[r],
                               [result[r] EXCEPT !.supplier = DefaultSupplier(s, a), !.qty = q]))

LoadDefer(c, r, d) ==
    /\ r \in DOMAIN result
    /\ Begin(c, Change("defer", r, result[r], [result[r] EXCEPT !.deferred = TRUE, !.until = d]))

LoadUndefer(c, r) ==
    /\ r \in DOMAIN result
    /\ Begin(c, Change("undefer", r, result[r],
                       [result[r] EXCEPT !.deferred = FALSE, !.until = Null]))

(* Mutant: purchase results are not looked at. *)
LoadDelete_AllocationsOnly(c, s) ==
    /\ s \in suppliers
    /\ \A a \in DOMAIN alloc : alloc[a].supplier # s
    /\ Begin(c, [at |-> commits, op |-> "delete", supplier |-> s])

(* delete_supplier; supplier_products is left to MasterData. *)
LoadDelete(c, s) ==
    /\ s \in suppliers
    /\ NamedBy(s) = {}
    /\ Begin(c, [at |-> commits, op |-> "delete", supplier |-> s])

-----------------------------------------------------------------------------
(* Committing *)

(* What an UPDATE may leave of a row: it writes the columns the request    *)
(* changed, and perhaps a quantity it set to the value it had: a decimal   *)
(* that is not equal to its float counts as changed.                       *)
Written(t, row) ==
    {[f \in DOMAIN row |-> IF t.new[f] # t.old[f] \/ f \in W THEN t.new[f] ELSE row[f]] :
       W \in SUBSET (IF t.op \in DeferOps \cup {"split"} THEN {} ELSE {"qty"})}

Finish(c) ==
    /\ tx' = [tx EXCEPT ![c] = Idle]
    /\ commits' = commits + 1

Free == Allocations \ DOMAIN alloc

(* db.add: table with one more row. *)
Insert(table, id, new) == [k \in DOMAIN table \cup {id} |-> IF k = id THEN new ELSE table[k]]

CommitSave(c) ==
    LET t == tx[c] IN
    /\ t.op = "save"
    /\ \/ t.row = Null /\ Free # {} /\ alloc' = Insert(alloc, Min(Free), t.new)
       \/ t.row # Null /\ \E new \in Written(t, alloc[t.row]) : alloc' = [alloc EXCEPT ![t.row] = new]
    /\ Finish(c)
    /\ UNCHANGED <<result, suppliers>>

CommitOverride(c) ==
    LET t == tx[c] IN
    /\ t.op = "override"
    /\ \E new \in Written(t, alloc[t.row]) : alloc' = [alloc EXCEPT ![t.row] = new]
    /\ Finish(c)
    /\ UNCHANGED <<result, suppliers>>

(* Mutant: the parts are not marked as parts. *)
CommitSplit_NoChild(c) ==
    LET t == tx[c]
        part(q) == [line |-> t.old.line, supplier |-> t.supplier, qty |-> q, child |-> FALSE]
        first == Min(Free)
        second == Min(Free \ {first})
    IN
    /\ t.op = "split"
    /\ Cardinality(Free) >= 2
    /\ \E new \in Written(t, alloc[t.row]) :
         alloc' = Insert(Insert([alloc EXCEPT ![t.row] = new], first, part(t.parts[1])),
                         second, part(t.parts[2]))
    /\ Finish(c)
    /\ UNCHANGED <<result, suppliers>>

(* The parts get what the payload says, whatever the row's own quantity,   *)
(* and the row keeps its quantity.                                         *)
CommitSplit(c) ==
    LET t == tx[c]
        part(q) == [line |-> t.old.line, supplier |-> t.supplier, qty |-> q, child |-> TRUE]
        first == Min(Free)
        second == Min(Free \ {first})
    IN
    /\ t.op = "split"
    /\ Cardinality(Free) >= 2
    /\ \E new \in Written(t, alloc[t.row]) :
         alloc' = Insert(Insert([alloc EXCEPT ![t.row] = new], first, part(t.parts[1])),
                         second, part(t.parts[2]))
    /\ Finish(c)
    /\ UNCHANGED <<result, suppliers>>

CommitResult(c) ==
    LET t == tx[c] IN
    /\ t.op \in ResultOps \cup DeferOps
    /\ \/ /\ t.row = Null
          /\ \E r \in Results \ DOMAIN result : result' = Insert(result, r, t.new)
       \/ /\ t.row # Null
          /\ \E new \in Written(t, result[t.row]) : result' = [result EXCEPT ![t.row] = new]
    /\ Finish(c)
    /\ UNCHANGED <<alloc, suppliers>>

(* No foreign key keeps the supplier of an allocation or a result.         *)
CommitDelete(c) ==
    /\ tx[c].op = "delete"
    /\ suppliers' = suppliers \ {tx[c].supplier}
    /\ Finish(c)
    /\ UNCHANGED <<alloc, result>>

(* The worker or its connection is lost. *)
Rollback(c) ==
    /\ tx[c] # Idle
    /\ tx' = [tx EXCEPT ![c] = Idle]
    /\ UNCHANGED <<rows, commits>>

Load(c) ==
    \/ \E l \in Lines, s \in Suppliers \cup {Null}, q \in Quantities \cup {Null} : LoadSave(c, l, s, q)
    \/ \E a \in Allocations, s \in Suppliers, q \in Quantities :
         \/ LoadOverride(c, a, s, q)
         \/ \E p \in Quantities : LoadSplit(c, a, s, p, q)
    \/ \E s \in Suppliers \cup {Null}, q \in Quantities \ {0} :
         \/ \E a \in Allocations : LoadCreate(c, a, s, q) \/ LoadUpsert(c, a, s, q)
         \/ \E r \in Results : LoadUpdate(c, r, s, q)
    \/ \E r \in Results : LoadUndefer(c, r) \/ \E d \in Days \cup {Null} : LoadDefer(c, r, d)
    \/ \E s \in Suppliers : LoadDelete(c, s)

Commit(c) ==
    \/ CommitSave(c)
    \/ CommitOverride(c)
    \/ CommitSplit(c)
    \/ CommitResult(c)
    \/ CommitDelete(c)

Next == \E c \in Clients : Load(c) \/ Commit(c) \/ Rollback(c)

Spec == Init /\ [][Next]_vars

-----------------------------------------------------------------------------
(* Properties.  A request is stale when another one committed after it     *)
(* loaded its rows.                                                        *)
Commits(c) == commits' = commits + 1 /\ tx[c] # Idle /\ tx'[c] = Idle

Stale(c) == tx[c].at # commits

Overbought(a) == alloc[a].qty # Null /\ Bought(ResultsOf(a)) > alloc[a].qty

(* More is bought than an allocation allows only because a request that    *)
(* was stale recorded a quantity it had compared with old results          *)
(* (_validate_quantity_limit), or because the allocation was saved,        *)
(* cleared, overridden or split afterwards.                                *)
OverbuyIsStale ==
    [][\A c \in Clients : Commits(c) /\ tx[c].op \in ResultOps /\ ~Stale(c) =>
          \A a \in DOMAIN alloc : Overbought(a)' => Overbought(a)]_vars

(* bulk-save and the work list take the newest allocation of a line that   *)
(* is no split part for the only one, and bulk-save refuses a line that is *)
(* split (ALLOCATION_SPLIT_CONFLICT).  So a line gets a second allocation  *)
(* beside its parts only by an override or a split of a part, and the plan *)
(* of a line that is split is not saved over, unless requests overlapped.  *)
LineHasOnePlan ==
    [][\A c \in Clients, l \in Lines :
          Commits(c) /\ ~Stale(c) =>
            /\ Current(l) # {} /\ Cardinality(Current(l)') > Cardinality(Current(l))
                 => tx[c].op \in {"override", "split"} /\ tx[c].old.child
            /\ tx[c].op = "save" /\ SplitChildren(l) # {}
                 => \A a \in AllocsOf(l)' : a \in DOMAIN alloc /\ alloc'[a] = alloc[a]]_vars

(* A supplier that is gone comes to be named by a row only when a request  *)
(* that checks no supplier named it (override, split, and recording a      *)
(* result), or when a save and a deletion overlapped.                      *)
Dangling == {s \in Suppliers \ suppliers : NamedBy(s) # {}}

DanglingSupplierIsUnchecked ==
    [][\A c \in Clients : Commits(c) /\ ~(Dangling' \subseteq Dangling) =>
          \/ tx[c].op \in {"override", "split"} \cup ResultOps
          \/ Stale(c)]_vars

=============================================================================
