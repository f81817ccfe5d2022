------------------------ MODULE InvoiceRequestsProofs ------------------------
(***************************************************************************)
(* Theorems of InvoiceRequests for any invoices, lines, requests and       *)
(* clients: what locks and unflushed writes guarantee of official numbers. *)
(***************************************************************************)
EXTENDS InvoiceRequests, FiniteSetTheorems, SequenceTheorems, WellFoundedInduction, TLAPS


(* Types of rows, of what a transaction has written, and of transactions.  *)
LineStatuses == {"shipped", "invoiced"}
Value(r) == IF r \in Invoices THEN InvoiceRows
            ELSE IF r = Sequence THEN Nat \ {0} ELSE LineStatuses
Values == InvoiceRows \cup (Nat \ {0}) \cup LineStatuses
Writes == UNION {[S -> Values] : S \in SUBSET Rows}
Memory == UNION {[S -> LineStatuses] : S \in SUBSET (Lines \cup {Order})}
Answers == SUBSET (Invoices \X (Nat \ {0}))

Steps == {"idle", "load", "number", "save", "lines", "flags", "apply", "commit"}
Busy == {"load", "number", "save", "lines", "flags", "apply"}

Transactions ==
    [at : Nat, op : {"none", "finalize", "finalize_batch", "reset", "unlock"}, todo : Seq(Invoices),
     pc : Steps, snap : InvoiceRows \cup {<< >>}, taken : Nat, own : Writes,
     seen : Memory, plan : Memory, answer : Answers]

(* A transaction at work has an invoice to work at; once it has loaded it, *)
(* the loaded row is at hand; a number is taken after that, unless it has  *)
(* one already.                                                            *)
Consistent(t) ==
    /\ \A r \in DOMAIN t.own : t.own[r] \in Value(r)
    /\ t.pc # "idle" => t.op # "none"
    /\ t.pc \in Busy => t.todo # << >>
    /\ t.pc \in {"number", "save"} => t.snap \in InvoiceRows
    /\ t.pc \in {"load", "number"} => t.taken = 0
    /\ t.pc = "number" => t.snap.official = 0
    /\ t.pc = "save" /\ t.op \in FinalizeOps => t.taken # 0 \/ t.snap.official # 0

RowsOK ==
    /\ db \in [Rows -> Values]
    /\ \A r \in Rows : db[r] \in Value(r)
    /\ sent \in [Clients -> Nat] /\ \A c \in Clients : sent[c] <= MaxRequests[c]
    /\ answered \in Answers
    /\ commits \in Nat

TxOK ==
    /\ tx \in [Clients -> Transactions]
    /\ \A c \in Clients : Consistent(tx[c]) /\ tx[c].at <= commits

(* The tables are disjoint; each row has its type. *)
LEMMA RowKinds ==
    /\ \A i \in Invoices : i \notin Lines /\ i # Order /\ i # Sequence
    /\ \A l \in Lines : l \notin Invoices /\ l # Order /\ l # Sequence
    /\ Order \notin Invoices \cup Lines /\ Sequence \notin Invoices \cup Lines
    /\ Order # Sequence
  BY RowsAssumption DEF RowsAssumption

LEMMA ValueOf ==
    /\ \A i \in Invoices : i \in Rows /\ Value(i) = InvoiceRows
    /\ \A l \in Lines : l \in Rows /\ Value(l) = LineStatuses
    /\ Order \in Rows /\ Value(Order) = LineStatuses
    /\ Sequence \in Rows /\ Value(Sequence) = Nat \ {0}
    /\ \A r \in Rows : r \in Invoices \/ r \in Lines \/ r = Order \/ r = Sequence
  BY RowKinds DEF Rows, Value

LEMMA Numbers ==
    ASSUME NEW S \in SUBSET Invoices
    PROVE  Cardinality(S) \in Nat
  BY RowsAssumption, FS_Subset, FS_CardinalityType DEF RowsAssumption

LEMMA NothingWritten ==
    /\ << >> \in Writes /\ << >> \in Memory
    /\ DOMAIN << >> = {}
  <1>1. << >> = [r \in {} |-> 0]
    OBVIOUS
  <1>2. DOMAIN << >> = {}
    BY <1>1
  <1>3. << >> \in [{} -> Values] /\ << >> \in [{} -> LineStatuses]
    BY <1>1
  <1>4. QED
    BY <1>2, <1>3 DEF Writes, Memory

LEMMA IdleType == Idle \in Transactions /\ Consistent(Idle)
  BY NothingWritten DEF Idle, Transactions, Consistent, Steps, Busy, Answers

(* One more row written, and many. *)
LEMMA WriteRow ==
    ASSUME NEW own \in Writes, NEW r \in Rows, NEW v \in Values
    PROVE  /\ Over(Row(r, v), own) \in Writes
           /\ DOMAIN (Over(Row(r, v), own)) = DOMAIN own \cup {r}
           /\ (Over(Row(r, v), own))[r] = v
           /\ \A q \in DOMAIN own : q # r => (Over(Row(r, v), own))[q] = own[q]
  <1> DEFINE new == Over(Row(r, v), own)
  <1>1. PICK S \in SUBSET Rows : own \in [S -> Values]
    BY DEF Writes
  <1>2. new = [q \in {r} \cup S |-> IF q = r THEN v ELSE own[q]]
    BY <1>1 DEF Over, Row
  <1>3. new \in [S \cup {r} -> Values] /\ S \cup {r} \in SUBSET Rows
    BY <1>1, <1>2
  <1>4. QED
    BY <1>1, <1>2, <1>3 DEF Writes

LEMMA WriteRows ==
    ASSUME NEW own \in Writes, NEW plan \in Memory
    PROVE  /\ Over(plan, own) \in Writes
           /\ DOMAIN (Over(plan, own)) = DOMAIN own \cup DOMAIN plan
           /\ \A q \in DOMAIN plan : (Over(plan, own))[q] = plan[q] /\ plan[q] \in LineStatuses
           /\ \A q \in DOMAIN own : q \notin DOMAIN plan => (Over(plan, own))[q] = own[q]
           /\ DOMAIN plan \subseteq Lines \cup {Order}
  <1> DEFINE new == Over(plan, own)
  <1>1. PICK S \in SUBSET Rows : own \in [S -> Values]
    BY DEF Writes
  <1>2. PICK T \in SUBSET (Lines \cup {Order}) : plan \in [T -> LineStatuses]
    BY DEF Memory
  <1>3. new = [q \in T \cup S |-> IF q \in T THEN plan[q] ELSE own[q]]
    BY <1>1, <1>2 DEF Over
  <1>4. new \in [S \cup T -> Values] /\ S \cup T \in SUBSET Rows
    BY <1>1, <1>2, <1>3 DEF Values, Rows
  <1>5. QED
    BY <1>1, <1>2, <1>3, <1>4 DEF Writes

(* What a client reads has the type of its row. *)
LEMMA ViewType ==
    ASSUME RowsOK, TxOK, NEW c \in Clients, NEW r \in Rows
    PROVE  View(c, r) \in Value(r)
  BY DEF RowsOK, TxOK, Consistent, View

-----------------------------------------------------------------------------
(* Types are kept.  Each lemma says what one step makes of the transaction *)
(* of its client.                                                          *)
LEMMA SkipType ==
    ASSUME NEW t \in Transactions, Consistent(t), t.pc \in Busy
    PROVE  /\ Skip(t) \in Transactions /\ Consistent(Skip(t))
           /\ Skip(t).own = t.own /\ Skip(t).answer = t.answer
           /\ Skip(t).at = t.at /\ Skip(t).op = t.op /\ Skip(t).seen = t.seen
           /\ Skip(t).pc \in {"load", "commit"}
  <1>1. t.todo \in Seq(Invoices) /\ t.todo # << >>
    BY DEF Transactions, Consistent
  <1>2. Tail(t.todo) \in Seq(Invoices) /\ Len(Tail(t.todo)) = Len(t.todo) - 1
    BY <1>1, HeadTailProperties
  <1>3. Len(t.todo) # 1 => Tail(t.todo) # << >>
    <2>1. Len(t.todo) \in Nat /\ Len(t.todo) # 0
      BY <1>1, EmptySeq, LenProperties
    <2>2. Tail(t.todo) = << >> => Len(Tail(t.todo)) = 0
      BY <1>2, EmptySeq
    <2> DEFINE n == Len(t.todo)
               m == Len(Tail(t.todo))
    <2>3. n \in Nat /\ m = n - 1
      BY <1>2, <2>1
    <2> HIDE DEF n, m
    <2>4. n # 1 => m # 0
      BY <2>3
    <2>5. QED
      BY <2>2, <2>4 DEF n, m
  <1>4. Skip(t) \in Transactions
    BY <1>2 DEF Skip, Transactions, Steps
  <1>5. /\ Skip(t).own = t.own /\ Skip(t).answer = t.answer /\ Skip(t).op = t.op
        /\ Skip(t).at = t.at /\ Skip(t).seen = t.seen
        /\ Skip(t).pc \in {"load", "commit"}
        /\ Skip(t).pc = "load" => Skip(t).todo # << >>
        /\ Skip(t).taken = 0
    BY <1>3 DEF Skip, Transactions
  <1>6. QED
    BY <1>4, <1>5 DEF Consistent, Busy

LEMMA LoadType ==
    ASSUME RowsOK, TxOK, NEW c \in Clients, LoadInvoice(c)
    PROVE  \E t \in Transactions :
             /\ Continue(c, t) /\ Consistent(t)
             /\ t.own = tx[c].own /\ t.answer = tx[c].answer
             /\ t.at = tx[c].at /\ t.op = tx[c].op /\ t.seen = tx[c].seen
             /\ t.pc \in {"load", "number", "save", "commit"}
             /\ t.pc = "number" => t.op \in FinalizeOps
             /\ t.pc \in {"number", "save"} =>
                  /\ t.todo = tx[c].todo
                  /\ Target(t) \in Invoices
                  /\ t.snap = View(c, Target(t))
                  /\ t.taken = 0
  <1> DEFINE u == tx[c]
             row == View(c, Target(u))
  <1>1. /\ u \in Transactions /\ Consistent(u)
        /\ u.pc = "load"
        /\ Target(u) \in Invoices
    BY DEF TxOK, LoadInvoice, At, Consistent, Busy, Target, Transactions
  <1>2. row \in InvoiceRows
    BY <1>1, ViewType DEF Rows, Value
  <1>3. CASE Refused(u.op, row)
    <2>1. Continue(c, Skip(u))
      BY <1>3 DEF LoadInvoice
    <2>2. QED
      BY <1>1, <2>1, SkipType DEF Busy
  <1>4. CASE ~Refused(u.op, row)
    <2> DEFINE t == [u EXCEPT !.snap = row,
                              !.pc = IF u.op \in FinalizeOps /\ row.official = 0
                                     THEN "number" ELSE "save"]
    <2> HIDE DEF row
    <2>1. Continue(c, t)
      BY <1>4 DEF LoadInvoice, row
    <2>2. t \in Transactions
      BY <1>1, <1>2 DEF Transactions, Steps
    <2>3. /\ t.own = u.own /\ t.answer = u.answer /\ t.todo = u.todo /\ t.op = u.op
          /\ t.at = u.at /\ t.seen = u.seen
          /\ t.snap = row /\ t.taken = u.taken
          /\ t.pc = IF u.op \in FinalizeOps /\ row.official = 0 THEN "number" ELSE "save"
      BY <1>1 DEF Transactions
    <2>4. Consistent(t) /\ t.taken = 0
      BY <1>1, <1>2, <2>3 DEF Consistent, Busy
    <2>5. t.snap = View(c, Target(t)) /\ Target(t) \in Invoices
      BY <1>1, <2>3 DEF row, Target
    <2> HIDE DEF t
    <2>6. QED
      BY <2>1, <2>2, <2>3, <2>4, <2>5 
  <1>5. QED
    BY <1>3, <1>4

LEMMA TakeNumberType ==
    ASSUME RowsOK, TxOK, NEW c \in Clients, TakeNumber(c)
    PROVE  \E t \in Transactions :
             /\ Continue(c, t) /\ Consistent(t)
             /\ Target(t) \in Invoices
             /\ t.answer = tx[c].answer
             /\ t.taken = View(c, Sequence) /\ t.taken \in Nat \ {0}
             /\ t.at = tx[c].at /\ t.op = tx[c].op /\ t.seen = tx[c].seen
             /\ t.todo = tx[c].todo /\ t.snap = tx[c].snap
             /\ DOMAIN t.own = DOMAIN tx[c].own \cup {Sequence}
             /\ t.own[Sequence] = View(c, Sequence) + 1
             /\ \A i \in DOMAIN tx[c].own : i # Sequence => t.own[i] = tx[c].own[i]
             /\ t.pc = "save"
  <1> DEFINE u == tx[c]
             n == View(c, Sequence)
             new == Over(Row(Sequence, n + 1), u.own)
             t == [u EXCEPT !.taken = n, !.own = new, !.pc = "save"]
  <1>1. u \in Transactions /\ Consistent(u) /\ u.pc = "number"
    BY DEF TxOK, TakeNumber, At
  <1>2. n \in Nat \ {0}
    BY ViewType, ValueOf
  <1>3. Continue(c, t)
    BY DEF TakeNumber
  <1> HIDE DEF n
  <1>4. /\ new \in Writes
        /\ DOMAIN new = DOMAIN u.own \cup {Sequence}
        /\ new[Sequence] = n + 1
        /\ \A q \in DOMAIN u.own : q # Sequence => new[q] = u.own[q]
    <2> DEFINE own == u.own
               v == n + 1
    <2>1. own \in Writes /\ Sequence \in Rows /\ v \in Values
      BY <1>1, <1>2 DEF Transactions, Rows, Values
    <2> HIDE DEF own, v
    <2>2. /\ Over(Row(Sequence, v), own) \in Writes
          /\ DOMAIN Over(Row(Sequence, v), own) = DOMAIN own \cup {Sequence}
          /\ Over(Row(Sequence, v), own)[Sequence] = v
          /\ \A q \in DOMAIN own : q # Sequence => Over(Row(Sequence, v), own)[q] = own[q]
      BY <2>1, WriteRow
    <2>3. QED
      BY <2>2 DEF own, v
  <1> HIDE DEF new
  <1>5. t \in Transactions
    BY <1>1, <1>2, <1>4 DEF Transactions, Steps
  <1>6. /\ t.op = u.op /\ t.todo = u.todo /\ t.snap = u.snap /\ t.answer = u.answer
        /\ t.at = u.at /\ t.seen = u.seen
        /\ t.taken = n /\ t.own = new /\ t.pc = "save"
    BY <1>1 DEF Transactions
  <1>7. Target(t) \in Invoices
    BY <1>1, <1>6 DEF Transactions, Consistent, Busy, Target
  <1>8. Consistent(t)
    <2>1. \A r \in DOMAIN t.own : t.own[r] \in Value(r)
      BY <1>1, <1>2, <1>4, <1>6, ValueOf DEF Consistent
    <2>2. QED
      BY <1>1, <1>2, <1>6, <2>1 DEF Consistent, Busy
  <1> HIDE DEF t
  <1>9. QED
    BY <1>2, <1>3, <1>4, <1>5, <1>6, <1>7, <1>8 DEF n

LEMMA SaveType ==
    ASSUME RowsOK, TxOK, NEW c \in Clients, SaveInvoice(c)
    PROVE  \E t \in Transactions, i \in Invoices :
             /\ Continue(c, t) /\ Consistent(t)
             /\ i = Target(tx[c]) /\ tx[c].pc = "save" /\ Free(c, i)
             /\ DOMAIN t.own = DOMAIN tx[c].own \cup {i}
             /\ \A q \in DOMAIN tx[c].own : q # i => t.own[q] = tx[c].own[q]
             /\ t.own[i].official = IF tx[c].op \in FinalizeOps /\ tx[c].taken # 0
                                    THEN tx[c].taken ELSE View(c, i).official
             /\ t.own[i].status = IF tx[c].op \in FinalizeOps THEN "finalized"
                                  ELSE IF tx[c].op = "reset" THEN "draft" ELSE View(c, i).status
             /\ t.at = tx[c].at /\ t.op = tx[c].op /\ t.seen = tx[c].seen
             /\ \A a \in t.answer : a[1] = i /\ a[2] \in {tx[c].taken, tx[c].snap.official}
             /\ t.pc = IF t.op = "unlock" THEN "commit" ELSE "lines"
  <1> DEFINE u == tx[c]
             i == Target(u)
             row == Saved(u, View(c, i))
             new == Over(Row(i, row), u.own)
             t == [u EXCEPT !.own = new, !.answer = Answer(u),
                            !.pc = IF u.op = "unlock" THEN "commit" ELSE "lines"]
  <1>1. u \in Transactions /\ Consistent(u) /\ u.pc = "save" /\ i \in Invoices
    BY DEF TxOK, SaveInvoice, At, Consistent, Busy, Target, Transactions
  <1>2. View(c, i) \in InvoiceRows /\ u.op # "none" /\ u.snap \in InvoiceRows
    BY <1>1, ViewType DEF Rows, Value, Consistent
  <1>3. /\ row \in InvoiceRows
        /\ row.official = IF u.op \in FinalizeOps /\ u.taken # 0
                          THEN u.taken ELSE View(c, i).official
        /\ row.status = IF u.op \in FinalizeOps THEN "finalized"
                        ELSE IF u.op = "reset" THEN "draft" ELSE View(c, i).status
    <2> DEFINE v == View(c, i)
    <2>1. /\ u.op \in {"finalize", "finalize_batch", "reset", "unlock"}
          /\ u.taken \in Nat /\ v \in InvoiceRows
      BY <1>1, <1>2 DEF Transactions
    <2> HIDE DEF u, v
    <2>2. CASE u.op \in FinalizeOps
      <3>1. Saved(u, v) = [status |-> "finalized", locked |-> TRUE,
                           official |-> IF u.taken # 0 THEN u.taken ELSE v.official]
        BY <2>2 DEF Saved, FinalizeOps
      <3>2. QED
        BY <2>1, <2>2, <3>1 DEF InvoiceRows, v
    <2>3. CASE u.op = "reset"
      <3>1. Saved(u, v) = [v EXCEPT !.status = "draft",
                                    !.locked = IF u.snap.locked THEN FALSE ELSE @]
        BY <2>3 DEF Saved, FinalizeOps
      <3>2. QED
        BY <2>1, <2>3, <3>1 DEF InvoiceRows, FinalizeOps, v
    <2>4. CASE u.op = "unlock"
      <3>1. Saved(u, v) = [v EXCEPT !.locked = FALSE]
        BY <2>4 DEF Saved, FinalizeOps
      <3>2. QED
        BY <2>1, <2>4, <3>1 DEF InvoiceRows, FinalizeOps, v
    <2>5. QED
      BY <2>1, <2>2, <2>3, <2>4 DEF FinalizeOps
  <1>4. /\ Answer(u) \in Answers
        /\ \A a \in Answer(u) : a[1] = i /\ a[2] \in {u.taken, u.snap.official}
    BY <1>1, <1>2 DEF Answer, Answers, Consistent, FinalizeOps, Transactions, InvoiceRows
  <1>5. Continue(c, t) /\ Free(c, i)
    BY DEF SaveInvoice
  <1> HIDE DEF row
  <1>6. /\ new \in Writes
        /\ DOMAIN new = DOMAIN u.own \cup {i}
        /\ new[i] = row
        /\ \A q \in DOMAIN u.own : q # i => new[q] = u.own[q]
    <2>1. u.own \in Writes /\ i \in Rows /\ row \in Values
      BY <1>1, <1>3 DEF Transactions, Rows, Values
    <2> HIDE DEF u, i
    <2>2. QED
      BY <2>1, WriteRow
  <1> HIDE DEF new, i
  <1>7. t \in Transactions
    BY <1>1, <1>4, <1>6 DEF Transactions, Steps
  <1>8. /\ t.own = new /\ t.answer = Answer(u) /\ t.op = u.op /\ t.todo = u.todo
        /\ t.at = u.at /\ t.seen = u.seen
        /\ t.pc = IF u.op = "unlock" THEN "commit" ELSE "lines"
    BY <1>1 DEF Transactions
  <1>9. Consistent(t)
    BY <1>1, <1>3, <1>6, <1>8 DEF Consistent, Value, Busy
  <1> HIDE DEF t
  <1>10. QED
    BY <1>1, <1>3, <1>4, <1>5, <1>6, <1>7, <1>8, <1>9 DEF i

(* Reading for the sync writes nothing. *)
LEMMA ReadType ==
    ASSUME RowsOK, TxOK, NEW c \in Clients, LoadLines(c) \/ ComputeSync(c)
    PROVE  \E t \in Transactions :
             /\ Continue(c, t) /\ Consistent(t)
             /\ t.own = tx[c].own /\ t.answer = tx[c].answer
             /\ t.at = tx[c].at /\ t.op = tx[c].op
             /\ t.pc \in {"flags", "apply"}
  <1> DEFINE u == tx[c]
  <1>1. /\ u \in Transactions /\ Consistent(u) /\ u.pc \in {"lines", "flags"}
        /\ u.seen \in Memory
    BY DEF TxOK, LoadLines, ComputeSync, At, Transactions
  <1>2. CASE LoadLines(c)
    <2> DEFINE read == Over(u.seen, [l \in Lines |-> View(c, l)])
               t == [u EXCEPT !.seen = read, !.pc = "flags"]
    <2>1. PICK S \in SUBSET (Lines \cup {Order}) : u.seen \in [S -> LineStatuses]
      BY <1>1 DEF Memory
    <2>2. \A l \in Lines : View(c, l) \in LineStatuses
      BY ViewType, ValueOf
    <2>3. read = [r \in S \cup Lines |-> IF r \in S THEN u.seen[r] ELSE View(c, r)]
      BY <2>1 DEF Over
    <2>4. read \in [S \cup Lines -> LineStatuses] /\ S \cup Lines \in SUBSET (Lines \cup {Order})
      BY <2>1, <2>2, <2>3
    <2>5. read \in Memory
      BY <2>4 DEF Memory
    <2>6. Continue(c, t)
      BY <1>2 DEF LoadLines
    <2> HIDE DEF read
    <2>7. t \in Transactions
      BY <1>1, <2>5 DEF Transactions, Steps
    <2>8. /\ t.own = u.own /\ t.answer = u.answer /\ t.op = u.op /\ t.todo = u.todo
          /\ t.at = u.at /\ t.pc = "flags"
      BY <1>1 DEF Transactions
    <2>9. Consistent(t)
      BY <1>1, <2>8 DEF Consistent, Busy
    <2> HIDE DEF t
    <2>10. QED
      BY <2>6, <2>7, <2>8, <2>9
  <1>3. CASE ComputeSync(c)
    <2> DEFINE billed == BilledBy([i \in Invoices |-> View(c, i)])
               seen == Over(u.seen, Row(Order, View(c, Order)))
               goal == [r \in Lines \cup {Order} |->
                          IF (r = Order /\ billed = Lines) \/ r \in billed
                          THEN "invoiced" ELSE "shipped"]
               plan == Restrict(goal, {r \in DOMAIN goal : goal[r] # seen[r]})
               t == [u EXCEPT !.seen = goal, !.plan = plan, !.pc = "apply"]
    <2>1. Continue(c, t)
      BY <1>3 DEF ComputeSync
    <2> HIDE DEF billed, seen
    <2>2. goal \in [Lines \cup {Order} -> LineStatuses]
      BY DEF LineStatuses
    <2>3. goal \in Memory
      BY <2>2 DEF Memory
    <2>4. plan \in Memory
      <3> DEFINE T == {r \in DOMAIN goal : goal[r] # seen[r]}
      <3>1. T \in SUBSET (Lines \cup {Order})
        BY <2>2
      <3>2. \A r \in T : goal[r] \in LineStatuses
        BY <2>2
      <3> HIDE DEF T, goal
      <3>3. Restrict(goal, T) \in [T -> LineStatuses]
        BY <3>1, <3>2 DEF Restrict
      <3>4. QED
        BY <3>1, <3>3 DEF Memory, T
    <2> HIDE DEF goal, plan
    <2>5. t \in Transactions
      BY <1>1, <2>3, <2>4 DEF Transactions, Steps
    <2>6. /\ t.own = u.own /\ t.answer = u.answer /\ t.op = u.op /\ t.todo = u.todo
          /\ t.at = u.at /\ t.pc = "apply"
      BY <1>1 DEF Transactions
    <2>7. Consistent(t)
      BY <1>1, <1>3, <2>6 DEF Consistent, Busy
    <2> HIDE DEF t
    <2>8. QED
      BY <2>1, <2>5, <2>6, <2>7
  <1>4. QED
    BY <1>2, <1>3

LEMMA ApplyType ==
    ASSUME RowsOK, TxOK, NEW c \in Clients, ApplySync(c)
    PROVE  \E t \in Transactions :
             /\ Continue(c, t) /\ Consistent(t)
             /\ \A r \in DOMAIN t.own \ DOMAIN tx[c].own :
                  Free(c, r) /\ r \in Lines \cup {Order}
             /\ DOMAIN tx[c].own \subseteq DOMAIN t.own
             /\ \A q \in DOMAIN tx[c].own : q \notin Lines \cup {Order} =>
                  t.own[q] = tx[c].own[q]
             /\ \A q \in DOMAIN t.own :
                  t.own[q] = IF q \in DOMAIN tx[c].plan THEN tx[c].plan[q] ELSE tx[c].own[q]
             /\ DOMAIN t.own = DOMAIN tx[c].own \cup DOMAIN tx[c].plan
             /\ t.at = tx[c].at /\ t.op = tx[c].op /\ t.seen = tx[c].seen
             /\ t.answer = tx[c].answer
             /\ t.pc \in {"load", "commit"}
  <1> DEFINE u == tx[c]
             new == Over(u.plan, u.own)
             v == [u EXCEPT !.own = new, !.plan = << >>]
  <1>1. /\ u \in Transactions /\ Consistent(u) /\ u.pc = "apply"
        /\ u.own \in Writes /\ u.plan \in Memory
    BY DEF TxOK, ApplySync, At, Transactions
  <1>2. Continue(c, Skip(v)) /\ \A r \in DOMAIN u.plan : Free(c, r)
    BY DEF ApplySync
  <1>3. /\ new \in Writes
        /\ DOMAIN new = DOMAIN u.own \cup DOMAIN u.plan
        /\ \A q \in DOMAIN u.plan : new[q] = u.plan[q] /\ new[q] \in LineStatuses
        /\ \A q \in DOMAIN u.own : q \notin DOMAIN u.plan => new[q] = u.own[q]
        /\ DOMAIN u.plan \subseteq Lines \cup {Order}
    <2> DEFINE own == u.own
               plan == u.plan
    <2>1. own \in Writes /\ plan \in Memory
      BY <1>1
    <2> HIDE DEF own, plan
    <2>2. /\ Over(plan, own) \in Writes
          /\ DOMAIN Over(plan, own) = DOMAIN own \cup DOMAIN plan
          /\ \A q \in DOMAIN plan : Over(plan, own)[q] = plan[q] /\ Over(plan, own)[q] \in LineStatuses
          /\ \A q \in DOMAIN own : q \notin DOMAIN plan => Over(plan, own)[q] = own[q]
          /\ DOMAIN plan \subseteq Lines \cup {Order}
      BY <2>1, WriteRows
    <2>3. QED
      BY <2>2 DEF own, plan
  <1> HIDE DEF new
  <1>4. v \in Transactions
    BY <1>1, <1>3, NothingWritten DEF Transactions
  <1>5. /\ v.own = new /\ v.answer = u.answer /\ v.op = u.op /\ v.todo = u.todo
        /\ v.at = u.at /\ v.seen = u.seen
        /\ v.pc = "apply"
    BY <1>1 DEF Transactions
  <1>6. Consistent(v)
    <2>1. \A r \in DOMAIN v.own : v.own[r] \in Value(r)
      BY <1>1, <1>3, <1>5, ValueOf DEF Consistent
    <2>2. QED
      BY <1>1, <1>5, <2>1 DEF Consistent, Busy
  <1> HIDE DEF v
  <1>7. /\ Skip(v) \in Transactions /\ Consistent(Skip(v))
        /\ Skip(v).own = new /\ Skip(v).answer = u.answer
        /\ Skip(v).at = u.at /\ Skip(v).op = u.op /\ Skip(v).seen = u.seen
        /\ Skip(v).pc \in {"load", "commit"}
    BY <1>4, <1>5, <1>6, SkipType DEF Busy
  <1>8. QED
    BY <1>2, <1>3, <1>7

LEMMA CommitType ==
    ASSUME RowsOK, TxOK, NEW c \in Clients, Commit(c)
    PROVE  /\ DOMAIN tx[c].own \subseteq Rows
           /\ db' \in [Rows -> Values]
           /\ \A r \in Rows : db'[r] = View(c, r)
           /\ tx' = [tx EXCEPT ![c] = Idle]
           /\ answered' = answered \cup tx[c].answer
           /\ tx[c].answer \in Answers
           /\ sent' = sent /\ commits' = commits + 1
  <1>1. tx[c].own \in Writes /\ tx[c].answer \in Answers
    BY DEF TxOK, Transactions
  <1>2. PICK S \in SUBSET Rows : tx[c].own \in [S -> Values]
    BY <1>1 DEF Writes
  <1>3. db' = Over(tx[c].own, db)
    BY DEF Commit
  <1>4. db' = [r \in Rows |-> IF r \in S THEN tx[c].own[r] ELSE db[r]]
    BY <1>2, <1>3 DEF RowsOK, Over
  <1>5. QED
    BY <1>1, <1>2, <1>4 DEF Commit, View, RowsOK

LEMMA BeginType ==
    ASSUME RowsOK, TxOK, NEW c \in Clients, Begin(c)
    PROVE  \E t \in Transactions :
             /\ tx' = [tx EXCEPT ![c] = t] /\ Consistent(t)
             /\ t.own = << >> /\ t.answer = {} /\ t.pc = "load"
             /\ t.at = commits /\ t.seen = << >>
             /\ tx[c].pc = "idle"
             /\ sent' = [sent EXCEPT ![c] = @ + 1] /\ sent[c] < MaxRequests[c]
             /\ UNCHANGED <<db, answered, commits>>
  <1>1. PICK r \in Requests :
          tx' = [tx EXCEPT ![c] =
                   [Idle EXCEPT !.at = commits, !.op = r.op, !.todo = r.invoices, !.pc = "load"]]
    BY DEF Begin
  <1> DEFINE t == [Idle EXCEPT !.at = commits, !.op = r.op, !.todo = r.invoices, !.pc = "load"]
  <1>2. t \in Transactions
    BY IdleType, RequestsAssumption DEF Transactions, Steps, RequestsAssumption, RowsOK
  <1>3. /\ t.op = r.op /\ t.todo = r.invoices /\ t.pc = "load" /\ t.own = << >>
        /\ t.answer = {} /\ t.taken = 0 /\ t.at = commits /\ t.seen = << >>
    BY DEF Idle
  <1>4. Consistent(t)
    <2>1. r.op # "none" /\ r.invoices # << >>
      BY RequestsAssumption DEF RequestsAssumption
    <2>2. QED
      BY <1>3, <2>1, NothingWritten DEF Consistent, Busy
  <1> HIDE DEF t
  <1>5. QED
    BY <1>1, <1>2, <1>3, <1>4 DEF Begin, At, t

(* The rows before the first request: the invoices of numbered have the    *)
(* numbers 1, 2, ..., and only they may be finalized.                      *)
FirstRows(numbered, number) ==
    /\ db = [r \in Rows |-> db[r]]
    /\ \A i \in Invoices :
         /\ db[i] \in InvoiceRows
         /\ db[i].official = IF i \in numbered THEN number[i] ELSE 0
         /\ db[i].status = "finalized" => i \in numbered
    /\ \A r \in Lines \cup {Order} : db[r] \in LineStatuses
    /\ db[Sequence] = Cardinality(numbered) + 1

LEMMA InitRows ==
    ASSUME Init
    PROVE  /\ \E numbered \in SUBSET Invoices :
                \E number \in Bijection(numbered, 1 .. Cardinality(numbered)) :
                  FirstRows(numbered, number)
           /\ tx = [c \in Clients |-> Idle]
           /\ sent = [c \in Clients |-> 0]
           /\ answered = {}
           /\ commits = 0
  <1> DEFINE Start(numbered, number, finalized, locked) ==
        LET rows == [i \in Invoices |->
              [status |-> IF i \in finalized THEN "finalized" ELSE "draft",
               locked |-> i \in locked,
               official |-> IF i \in numbered THEN number[i] ELSE 0]]
        IN
        /\ db = [r \in Rows |->
             CASE r \in Invoices -> rows[r]
               [] r \in Lines -> IF r \in BilledBy(rows) THEN "invoiced" ELSE "shipped"
               [] r = Order -> IF BilledBy(rows) = Lines THEN "invoiced" ELSE "shipped"
               [] r = Sequence -> Cardinality(numbered) + 1]
        /\ tx = [c \in Clients |-> Idle]
        /\ sent = [c \in Clients |-> 0]
        /\ answered = {}
        /\ commits = 0
  <1>1. PICK numbered \in SUBSET Invoices :
          \E number \in Bijection(numbered, 1 .. Cardinality(numbered)),
             finalized \in SUBSET numbered :
          \E locked \in SUBSET finalized : Start(numbered, number, finalized, locked)
    BY DEF Init
  <1> HIDE DEF Start
  <1>2. PICK number \in Bijection(numbered, 1 .. Cardinality(numbered)),
             finalized \in SUBSET numbered :
          \E locked \in SUBSET finalized : Start(numbered, number, finalized, locked)
    BY <1>1
  <1>3. PICK locked \in SUBSET finalized : Start(numbered, number, finalized, locked)
    BY <1>2
  <1> DEFINE rows == [i \in Invoices |->
               [status |-> IF i \in finalized THEN "finalized" ELSE "draft",
                locked |-> i \in locked,
                official |-> IF i \in numbered THEN number[i] ELSE 0]]
             billed == BilledBy(rows)
  <1>4. \A i \in numbered : number[i] \in Nat
    <2>1. Cardinality(numbered) \in Nat
      BY Numbers
    <2>2. QED
      BY <2>1 DEF Bijection, Injection
  <1>5. \A i \in Invoices :
          /\ rows[i] \in InvoiceRows
          /\ rows[i].official = IF i \in numbered THEN number[i] ELSE 0
          /\ rows[i].status = "finalized" => i \in numbered
    BY <1>4 DEF InvoiceRows
  <1> HIDE DEF rows
  <1> DEFINE first(r) ==
        CASE r \in Invoices -> rows[r]
          [] r \in Lines -> IF r \in billed THEN "invoiced" ELSE "shipped"
          [] r = Order -> IF billed = Lines THEN "invoiced" ELSE "shipped"
          [] r = Sequence -> Cardinality(numbered) + 1
  <1>6. db = [r \in Rows |-> first(r)]
    BY <1>3 DEF Start, rows
  <1> HIDE DEF billed
  <1>7. /\ \A i \in Invoices : first(i) = rows[i]
        /\ \A l \in Lines : first(l) \in LineStatuses
        /\ first(Order) \in LineStatuses
        /\ first(Sequence) = Cardinality(numbered) + 1
    BY RowKinds DEF LineStatuses
  <1> HIDE DEF first
  <1>8. db = [r \in Rows |-> db[r]] /\ \A r \in Rows : db[r] = first(r)
    BY <1>6
  <1>9. FirstRows(numbered, number)
    BY <1>5, <1>7, <1>8, ValueOf DEF FirstRows
  <1>10. tx = [c \in Clients |-> Idle] /\ sent = [c \in Clients |-> 0] /\ answered = {} /\ commits = 0
    BY <1>3 DEF Start
  <1>11. QED
    BY <1>9, <1>10

LEMMA InitTypes == Init => RowsOK /\ TxOK
  <1> SUFFICES ASSUME Init PROVE RowsOK /\ TxOK
    OBVIOUS
  <1>1. PICK numbered \in SUBSET Invoices :
          \E number \in Bijection(numbered, 1 .. Cardinality(numbered)) :
            FirstRows(numbered, number)
    BY InitRows
  <1>2. Cardinality(numbered) \in Nat
    BY Numbers
  <1>3. db = [r \in Rows |-> db[r]] /\ \A r \in Rows : db[r] \in Value(r)
    BY <1>1, <1>2, ValueOf DEF FirstRows
  <1>4. db \in [Rows -> Values]
    BY <1>3 DEF Value, Values
  <1>5. RowsOK
    BY <1>3, <1>4, InitRows, MaxRequestsAssumption DEF RowsOK, Answers, MaxRequestsAssumption
  <1>6. TxOK
    <2>1. Idle.at = 0 /\ tx = [c \in Clients |-> Idle] /\ commits = 0
      BY InitRows DEF Idle
    <2>2. QED
      BY <2>1, IdleType DEF TxOK
  <1>7. QED
    BY <1>5, <1>6

LEMMA StepTypes ==
    ASSUME RowsOK, TxOK, [Next]_vars
    PROVE  RowsOK' /\ TxOK'
  <1>1. ASSUME NEW c \in Clients, NEW t \in Transactions, Continue(c, t), Consistent(t),
               t.at <= commits
        PROVE  RowsOK' /\ TxOK'
    BY <1>1 DEF Continue, RowsOK, TxOK
  <1>2. ASSUME NEW c \in Clients, Begin(c)
        PROVE  RowsOK' /\ TxOK'
    <2>1. PICK t \in Transactions :
             /\ tx' = [tx EXCEPT ![c] = t] /\ Consistent(t) /\ t.at = commits
             /\ sent' = [sent EXCEPT ![c] = @ + 1] /\ sent[c] < MaxRequests[c]
             /\ UNCHANGED <<db, answered, commits>>
      BY <1>2, BeginType
    <2>2. /\ sent' \in [Clients -> Nat]
          /\ \A d \in Clients : sent'[d] <= MaxRequests[d]
      <3>1. sent[c] \in Nat /\ MaxRequests[c] \in Nat /\ sent \in [Clients -> Nat]
        BY MaxRequestsAssumption DEF RowsOK, MaxRequestsAssumption
      <3>2. sent[c] + 1 \in Nat /\ sent[c] + 1 <= MaxRequests[c]
        BY <2>1, <3>1
      <3>3. sent'[c] = sent[c] + 1 /\ \A d \in Clients : d # c => sent'[d] = sent[d]
        BY <2>1, <3>1
      <3>4. sent' \in [Clients -> Nat]
        BY <2>1, <3>1, <3>2
      <3>5. QED
        BY <3>2, <3>3, <3>4 DEF RowsOK
    <2>2a. RowsOK'
      BY <2>1, <2>2 DEF RowsOK
    <2>3. TxOK'
      BY <2>1 DEF TxOK, RowsOK
    <2>4. QED
      BY <2>2a, <2>3
  <1>3. ASSUME NEW c \in Clients, Commit(c)
        PROVE  RowsOK' /\ TxOK'
    <2>1. RowsOK'
      BY <1>3, CommitType, ViewType DEF RowsOK, Answers
    <2>2. TxOK'
      <3>1. \A d \in Clients : tx[d].at \in Nat /\ tx[d].at <= commits /\ commits \in Nat
        BY DEF TxOK, RowsOK, Transactions
      <3>2. \A d \in Clients : tx[d].at <= commits + 1 /\ Idle.at <= commits + 1
        BY <3>1 DEF Idle
      <3>3. QED
        BY <1>3, <3>2, CommitType, IdleType DEF TxOK
    <2>3. QED
      BY <2>1, <2>2
  <1>4. ASSUME NEW c \in Clients, Step(c)
        PROVE  RowsOK' /\ TxOK'
    <2>1. tx[c].at <= commits
      BY DEF TxOK
    <2>2. QED
      BY <1>1, <1>3, <1>4, <2>1, LoadType, TakeNumberType, SaveType, ReadType, ApplyType DEF Step
  <1>5. ASSUME NEW c \in Clients, AbortVictim(c) \/ Crash(c)
        PROVE  RowsOK' /\ TxOK'
    BY <1>1, <1>5, IdleType DEF AbortVictim, Crash, Rollback, Idle, RowsOK
  <1>6. CASE UNCHANGED vars
    BY <1>6 DEF vars, RowsOK, TxOK
  <1>7. QED
    BY <1>2, <1>4, <1>5, <1>6 DEF Next

LEMMA TypesHold == Spec => [](RowsOK /\ TxOK)
  BY InitTypes, StepTypes, PTL DEF Spec

(* Rows, transactions and request counts keep their types. *)
THEOREM TypeCorrect == Spec => []TypeOK
  <1>1. RowsOK /\ TxOK => TypeOK
    <2> SUFFICES ASSUME RowsOK, TxOK PROVE TypeOK
      OBVIOUS
    <2>1. /\ \A i \in Invoices : db[i] \in InvoiceRows
          /\ \A r \in Lines \cup {Order} : db[r] \in {"shipped", "invoiced"}
          /\ db[Sequence] \in Nat \ {0}
      BY ValueOf DEF RowsOK, LineStatuses
    <2>2. \A c \in Clients :
            /\ tx[c].pc \in Steps
            /\ tx[c].at \in 0 .. commits
            /\ DOMAIN tx[c].own \subseteq Rows
            /\ DOMAIN tx[c].seen \subseteq Lines \cup {Order}
      BY DEF TxOK, Transactions, Writes, Memory, RowsOK
    <2>3. \A c \in Clients : sent[c] \in 0 .. MaxRequests[c]
      BY DEF RowsOK
    <2>4. QED
      BY <2>1, <2>2, <2>3 DEF TypeOK, Steps
  <1>2. QED
    BY <1>1, TypesHold, PTL

-----------------------------------------------------------------------------
(* Official numbers.  Number n is claimed for invoice i when it is on      *)
(* record or answered for it, or a transaction has written it, is about to *)
(* write it, or will answer it.                                            *)
Recorded(i, n) == db[i].official = n \/ <<i, n>> \in answered

Holds(t, i, n) ==
    \/ i \in DOMAIN t.own /\ t.own[i].official = n
    \/ <<i, n>> \in t.answer
    \/ t.pc = "save" /\ i = Target(t) /\ (n = t.taken \/ n = t.snap.official)

Claim(i, n) == Recorded(i, n) \/ \E c \in Clients : Holds(tx[c], i, n)

(* The first number a transaction with these writes does not know.         *)
Bound(t) == IF Sequence \in DOMAIN t.own THEN t.own[Sequence] ELSE db[Sequence]

Positive == Nat \ {0}

(* No two transactions have written one row; what the sequence row says is *)
(* above every claim its reader knows of; no number is claimed twice.      *)
NumberInv ==
    /\ \A c, d \in Clients : c # d => DOMAIN tx[c].own \cap DOMAIN tx[d].own = {}
    /\ \A c \in Clients : db[Sequence] <= Bound(tx[c])
    /\ \A i \in Invoices, n \in Positive : Recorded(i, n) => n < db[Sequence]
    /\ \A c \in Clients, i \in Invoices, n \in Positive : Holds(tx[c], i, n) => n < Bound(tx[c])
    /\ \A i, j \in Invoices, n \in Positive : Claim(i, n) /\ Claim(j, n) => i = j

Types == RowsOK /\ TxOK

LEMMA SequenceType ==
    ASSUME Types
    PROVE  /\ db[Sequence] \in Positive
           /\ \A c \in Clients : Bound(tx[c]) \in Positive /\ Bound(tx[c]) = View(c, Sequence)
  BY ValueOf DEF Types, RowsOK, TxOK, Consistent, Bound, View, Positive

(* A transaction may go on as t if it has waited for the rows it writes,   *)
(* what t claims is below the sequence it sees, and claimed for no other   *)
(* invoice.                                                                *)
LEMMA GoesOn ==
    ASSUME Types, NumberInv, NEW c \in Clients, NEW t \in Transactions,
           tx' = [tx EXCEPT ![c] = t], UNCHANGED <<db, answered>>,
           \A r \in DOMAIN t.own : r \in DOMAIN tx[c].own \/ Free(c, r),
           db[Sequence] <= Bound(t),
           \A i \in Invoices, n \in Positive : Holds(t, i, n) =>
             /\ n < Bound(t)
             /\ \A j \in Invoices : Claim(j, n) \/ Holds(t, j, n) => i = j
    PROVE  NumberInv'
  <1> USE DEF NumberInv
  <1>1. tx'[c] = t /\ \A d \in Clients : d # c => tx'[d] = tx[d]
    BY DEF Types, TxOK
  <1>2. \A d, e \in Clients : d # e => DOMAIN tx'[d].own \cap DOMAIN tx'[e].own = {}
    BY <1>1 DEF Free
  <1>3. \A d \in Clients : Bound(tx'[d]) = IF d = c THEN Bound(t) ELSE Bound(tx[d])
    BY <1>1
  <1>4. \A d \in Clients : Bound(tx[d])' = Bound(tx'[d])
    BY DEF Bound
  <1>5. \A i \in Invoices, n \in Positive : Recorded(i, n)' <=> Recorded(i, n)
    BY DEF Recorded
  <1>6. \A d \in Clients, i \in Invoices, n \in Positive :
          Holds(tx[d], i, n)' <=> IF d = c THEN Holds(t, i, n) ELSE Holds(tx[d], i, n)
    <2>1. \A d \in Clients, i \in Invoices, n \in Positive :
            Holds(tx[d], i, n)' <=> Holds(tx'[d], i, n)
      BY DEF Holds, Target
    <2>2. QED
      BY <1>1, <2>1
  <1>7. \A i \in Invoices, n \in Positive :
          Claim(i, n)' => Claim(i, n) \/ Holds(t, i, n)
    BY <1>5, <1>6 DEF Claim
  <1>8. \A i, j \in Invoices, n \in Positive : Claim(i, n)' /\ Claim(j, n)' => i = j
    BY <1>7
  <1>9. \A d \in Clients : db'[Sequence] <= Bound(tx[d])'
    BY <1>3, <1>4
  <1>10. \A d \in Clients, i \in Invoices, n \in Positive :
           Holds(tx[d], i, n)' => n < Bound(tx[d])'
    BY <1>3, <1>4, <1>6
  <1>11. \A i \in Invoices, n \in Positive : Recorded(i, n)' => n < db'[Sequence]
    BY <1>5
  <1>12. QED
    BY <1>2, <1>8, <1>9, <1>10, <1>11

(* In particular when it claims nothing new, and sees the same sequence.   *)
LEMMA GoesOnAsBefore ==
    ASSUME Types, NumberInv, NEW c \in Clients, NEW t \in Transactions,
           tx' = [tx EXCEPT ![c] = t], UNCHANGED <<db, answered>>,
           \A r \in DOMAIN t.own : r \in DOMAIN tx[c].own \/ Free(c, r),
           Bound(t) = Bound(tx[c]),
           \A i \in Invoices, n \in Positive :
             Holds(t, i, n) => Holds(tx[c], i, n) \/ Recorded(i, n)
    PROVE  NumberInv'
  <1>1. \A i \in Invoices, n \in Positive : Holds(t, i, n) => n < Bound(t) /\ Claim(i, n)
    BY SequenceType DEF NumberInv, Claim, Positive
  <1>2. \A i, j \in Invoices, n \in Positive : Claim(i, n) /\ Claim(j, n) => i = j
    BY DEF NumberInv
  <1>3. db[Sequence] <= Bound(t)
    BY DEF NumberInv
  <1>4. QED
    BY <1>1, <1>2, <1>3, GoesOn

LEMMA InitNumberInv == Init => NumberInv
  <1> SUFFICES ASSUME Init PROVE NumberInv
    OBVIOUS
  <1>1. Types
    BY InitTypes DEF Types
  <1>2. PICK numbered \in SUBSET Invoices :
          \E number \in Bijection(numbered, 1 .. Cardinality(numbered)) :
            FirstRows(numbered, number)
    BY InitRows
  <1>2a. PICK number \in Bijection(numbered, 1 .. Cardinality(numbered)) :
          /\ \A i \in Invoices : db[i].official = IF i \in numbered THEN number[i] ELSE 0
          /\ db[Sequence] = Cardinality(numbered) + 1
    BY <1>2 DEF FirstRows
  <1>3. Cardinality(numbered) \in Nat
    BY Numbers
  <1>4. /\ \A i \in numbered : number[i] \in 1 .. Cardinality(numbered)
        /\ \A i, j \in numbered : number[i] = number[j] => i = j
    BY DEF Bijection, Injection, IsInjective
  <1>5. \A c \in Clients : tx[c] = Idle /\ Bound(tx[c]) = db[Sequence]
    <2>1. DOMAIN Idle.own = {}
      BY NothingWritten DEF Idle
    <2>2. QED
      BY <2>1, InitRows DEF Bound
  <1>6. \A c \in Clients, i \in Invoices, n \in Positive : ~Holds(tx[c], i, n)
    BY <1>5, NothingWritten DEF Holds, Idle
  <1>7. answered = {}
    BY InitRows
  <1>8. \A i \in Invoices, n \in Positive : Recorded(i, n) =>
          i \in numbered /\ n = number[i] /\ n < db[Sequence]
    BY <1>2a, <1>3, <1>4, <1>7 DEF Recorded, Positive
  <1>9. \A c \in Clients : DOMAIN tx[c].own = {}
    BY <1>5, NothingWritten DEF Idle
  <1>10. QED
    BY <1>1, <1>4, <1>5, <1>6, <1>8, <1>9, SequenceType DEF NumberInv, Claim, Positive

(* The number just taken is above every claim: no other transaction has    *)
(* written the sequence row, so what it knows of is below what is recorded *)
(* there.                                                                  *)
LEMMA TakenIsNew ==
    ASSUME Types, NumberInv, NEW c \in Clients, Free(c, Sequence),
           NEW j \in Invoices, NEW n \in Positive, Claim(j, n)
    PROVE  n < View(c, Sequence)
  <1>1. CASE Recorded(j, n)
    BY <1>1, SequenceType DEF NumberInv, Positive
  <1>2. ASSUME NEW d \in Clients, Holds(tx[d], j, n)
        PROVE  n < View(c, Sequence)
    <2>1. d # c => Bound(tx[d]) = db[Sequence]
      BY DEF Free, Bound
    <2>2. n < Bound(tx[d]) /\ db[Sequence] <= Bound(tx[c])
      BY <1>2 DEF NumberInv
    <2>3. QED
      BY <2>1, <2>2, SequenceType DEF Positive
  <1>3. QED
    BY <1>1, <1>2 DEF Claim

LEMMA StepNumberInv ==
    ASSUME Types, NumberInv, [Next]_vars
    PROVE  NumberInv'
  <1> USE DEF Types
  <1>1. ASSUME NEW c \in Clients, LoadInvoice(c)
        PROVE  NumberInv'
    <2>1. PICK t \in Transactions :
             /\ Continue(c, t)
             /\ t.own = tx[c].own /\ t.answer = tx[c].answer
             /\ t.pc \in {"number", "save"} =>
                  /\ Target(t) \in Invoices
                  /\ t.snap = View(c, Target(t))
                  /\ t.taken = 0
      BY <1>1, LoadType
    <2>2. ASSUME NEW i \in Invoices, NEW n \in Positive, Holds(t, i, n)
          PROVE  Holds(tx[c], i, n) \/ Recorded(i, n)
      <3>1. CASE t.pc = "save" /\ i = Target(t) /\ n = t.snap.official
        BY <2>1, <3>1 DEF Holds, Recorded, View
      <3>2. QED
        BY <2>1, <2>2, <3>1 DEF Holds, Positive
    <2>3. QED
      BY <2>1, <2>2, GoesOnAsBefore DEF Continue, Bound
  <1>2. ASSUME NEW c \in Clients, TakeNumber(c)
        PROVE  NumberInv'
    <2>1. PICK t \in Transactions :
             /\ Continue(c, t) /\ Consistent(t)
             /\ Target(t) \in Invoices
             /\ t.op = tx[c].op /\ t.todo = tx[c].todo /\ t.snap = tx[c].snap
             /\ t.answer = tx[c].answer
             /\ t.taken = View(c, Sequence) /\ t.taken \in Nat \ {0}
             /\ DOMAIN t.own = DOMAIN tx[c].own \cup {Sequence}
             /\ t.own[Sequence] = View(c, Sequence) + 1
             /\ \A i \in DOMAIN tx[c].own : i # Sequence => t.own[i] = tx[c].own[i]
             /\ t.pc = "save"
      BY <1>2, TakeNumberType
    <2>2. Free(c, Sequence)
      BY <1>2 DEF TakeNumber
    <2>3. Bound(t) = View(c, Sequence) + 1
      BY <2>1 DEF Bound
    <2>4. t.snap.official = 0
      BY <1>2, <2>1 DEF TakeNumber, At, TxOK, Consistent
    <2>5. ASSUME NEW i \in Invoices, NEW n \in Positive, Holds(t, i, n)
          PROVE  \/ i = Target(t) /\ n = t.taken
                 \/ Holds(tx[c], i, n)
      <3>1. i # Sequence
        BY RowKinds
      <3>2. QED
        BY <2>1, <2>4, <2>5, <3>1 DEF Holds, Positive
    <2>6. \A j \in Invoices, n \in Positive : Claim(j, n) => n < View(c, Sequence)
      BY <2>2, TakenIsNew
    <2>7. ASSUME NEW i \in Invoices, NEW n \in Positive, Holds(t, i, n)
          PROVE  /\ n < Bound(t)
                 /\ \A j \in Invoices : Claim(j, n) \/ Holds(t, j, n) => i = j
      <3>1. Holds(tx[c], i, n) => Claim(i, n)
        BY DEF Claim
      <3>2. View(c, Sequence) \in Positive
        BY <2>1 DEF Positive
      <3>3. ~(View(c, Sequence) < View(c, Sequence))
        BY <3>2 DEF Positive
      <3>4. ASSUME NEW j \in Invoices, Claim(j, n) \/ Holds(t, j, n)
            PROVE  i = j
        <4>1. Claim(j, n) \/ (j = Target(t) /\ n = View(c, Sequence))
          BY <2>1, <2>5, <3>4 DEF Claim
        <4>2. Claim(i, n) \/ (i = Target(t) /\ n = View(c, Sequence))
          BY <2>1, <2>5, <2>7, <3>1
        <4>3. QED
          BY <2>6, <3>3, <4>1, <4>2 DEF NumberInv
      <3>5. n < Bound(t)
        BY <2>1, <2>3, <2>5, <2>6, <2>7, <3>1, <3>2 DEF Positive
      <3>6. QED
        BY <3>4, <3>5
    <2>8. db[Sequence] <= Bound(t)
      BY <2>1, <2>3, SequenceType DEF NumberInv, Positive
    <2>9. QED
      BY <2>1, <2>2, <2>7, <2>8, GoesOn DEF Continue
  <1>3. ASSUME NEW c \in Clients, SaveInvoice(c)
        PROVE  NumberInv'
    <2>1. PICK t \in Transactions, i \in Invoices :
             /\ Continue(c, t)
             /\ i = Target(tx[c]) /\ tx[c].pc = "save" /\ Free(c, i)
             /\ DOMAIN t.own = DOMAIN tx[c].own \cup {i}
             /\ \A q \in DOMAIN tx[c].own : q # i => t.own[q] = tx[c].own[q]
             /\ t.own[i].official = IF tx[c].op \in FinalizeOps /\ tx[c].taken # 0
                                    THEN tx[c].taken ELSE View(c, i).official
             /\ \A a \in t.answer : a[1] = i /\ a[2] \in {tx[c].taken, tx[c].snap.official}
             /\ t.pc \in {"commit", "lines"}
      BY <1>3, SaveType
    <2>2. Bound(t) = Bound(tx[c])
      BY <2>1, RowKinds DEF Bound
    <2>3. ASSUME NEW j \in Invoices, NEW n \in Positive, Holds(t, j, n)
          PROVE  Holds(tx[c], j, n) \/ Recorded(j, n)
      <3>1. CASE j \in DOMAIN t.own /\ t.own[j].official = n /\ j # i
        BY <2>1, <3>1 DEF Holds
      <3>2. CASE j = i /\ t.own[i].official = n
        BY <2>1, <3>2 DEF Holds, Recorded, View
      <3>3. CASE <<j, n>> \in t.answer
        <4>1. j = i /\ n \in {tx[c].taken, tx[c].snap.official}
          BY <2>1, <3>3
        <4>2. QED
          BY <2>1, <4>1 DEF Holds
      <3>4. QED
        BY <2>1, <2>3, <3>1, <3>2, <3>3 DEF Holds
    <2>4. QED
      BY <2>1, <2>2, <2>3, GoesOnAsBefore DEF Continue
  <1>4. ASSUME NEW c \in Clients, LoadLines(c) \/ ComputeSync(c)
        PROVE  NumberInv'
    <2>1. PICK t \in Transactions :
             /\ Continue(c, t)
             /\ t.own = tx[c].own /\ t.answer = tx[c].answer
             /\ t.pc \in {"flags", "apply"}
      BY <1>4, ReadType
    <2>2. QED
      BY <2>1, GoesOnAsBefore DEF Continue, Bound, Holds
  <1>5. ASSUME NEW c \in Clients, ApplySync(c)
        PROVE  NumberInv'
    <2>1. PICK t \in Transactions :
             /\ Continue(c, t)
             /\ \A r \in DOMAIN t.own \ DOMAIN tx[c].own :
                  Free(c, r) /\ r \in Lines \cup {Order}
             /\ DOMAIN tx[c].own \subseteq DOMAIN t.own
             /\ \A q \in DOMAIN tx[c].own : q \notin Lines \cup {Order} =>
                  t.own[q] = tx[c].own[q]
             /\ t.answer = tx[c].answer
             /\ t.pc \in {"load", "commit"}
      BY <1>5, ApplyType
    <2>2. Bound(t) = Bound(tx[c])
      BY <2>1, RowKinds DEF Bound
    <2>3. \A i \in Invoices, n \in Positive : Holds(t, i, n) => Holds(tx[c], i, n)
      BY <2>1, RowKinds DEF Holds
    <2>4. QED
      BY <2>1, <2>2, <2>3, GoesOnAsBefore DEF Continue
  <1>6. ASSUME NEW c \in Clients, Commit(c)
        PROVE  NumberInv'
    <2>1. /\ \A r \in Rows : db'[r] = View(c, r)
          /\ tx' = [tx EXCEPT ![c] = Idle]
          /\ answered' = answered \cup tx[c].answer
      BY <1>6, CommitType
    <2>2. tx'[c] = Idle /\ \A d \in Clients : d # c => tx'[d] = tx[d]
      BY <2>1 DEF TxOK
    <2>3. DOMAIN Idle.own = {} /\ \A i \in Invoices, n \in Positive : ~Holds(Idle, i, n)
      BY NothingWritten DEF Idle, Holds
    <2>4. db'[Sequence] = Bound(tx[c])
      BY <2>1, SequenceType DEF Rows
    <2>5. \A i \in Invoices, n \in Positive :
            Recorded(i, n)' => Recorded(i, n) \/ Holds(tx[c], i, n)
      BY <2>1 DEF Recorded, Holds, View, Rows
    <2>6. \A d \in Clients : Bound(tx[d])' = IF d = c THEN db'[Sequence]
            ELSE IF Sequence \in DOMAIN tx[d].own THEN Bound(tx[d]) ELSE db'[Sequence]
      BY <2>2, <2>3 DEF Bound
    <2>7. \A d \in Clients : d # c /\ Sequence \in DOMAIN tx[d].own => db'[Sequence] = db[Sequence]
      BY <2>4 DEF NumberInv, Bound
    <2>8. db[Sequence] <= db'[Sequence] /\ db[Sequence] \in Nat /\ db'[Sequence] \in Nat
      BY <2>4, SequenceType DEF NumberInv, Positive
    <2>9. \A d \in Clients : d # c => Bound(tx[d]) <= Bound(tx[d])' /\ db'[Sequence] <= Bound(tx[d])'
      BY <2>6, <2>7, <2>8, SequenceType DEF NumberInv, Positive, Bound
    <2>10. \A d \in Clients, i \in Invoices, n \in Positive :
             Holds(tx[d], i, n)' => d # c /\ Holds(tx[d], i, n)
      BY <2>2, <2>3 DEF Holds, Target
    <2>11. \A i \in Invoices, n \in Positive : Claim(i, n)' => Claim(i, n)
      BY <2>5, <2>10 DEF Claim
    <2>12. \A d, e \in Clients : d # e => DOMAIN tx'[d].own \cap DOMAIN tx'[e].own = {}
      BY <2>2, <2>3 DEF NumberInv
    <2>13. \A i \in Invoices, n \in Positive : Recorded(i, n)' => n < db'[Sequence]
      BY <2>4, <2>5, <2>8 DEF NumberInv, Positive
    <2>14. \A d \in Clients : db'[Sequence] <= Bound(tx[d])'
      BY <2>6, <2>8, <2>9
    <2>15. \A d \in Clients, i \in Invoices, n \in Positive :
             Holds(tx[d], i, n)' => n < Bound(tx[d])'
      <3> SUFFICES ASSUME NEW d \in Clients, NEW i \in Invoices, NEW n \in Positive,
                          Holds(tx[d], i, n)'
                   PROVE  n < Bound(tx[d])'
        OBVIOUS
      <3>1. d # c /\ n < Bound(tx[d]) /\ Bound(tx[d]) <= Bound(tx[d])'
        BY <2>9, <2>10 DEF NumberInv
      <3>2. Bound(tx[d]) \in Nat /\ Bound(tx[d])' \in Nat
        BY <2>6, <2>8, <3>1, SequenceType DEF Positive
      <3>3. QED
        BY <3>1, <3>2 DEF Positive
    <2>16. \A i, j \in Invoices, n \in Positive : Claim(i, n)' /\ Claim(j, n)' => i = j
      BY <2>11 DEF NumberInv
    <2>17. QED
      BY <2>12, <2>13, <2>14, <2>15, <2>16 DEF NumberInv
  <1>7. ASSUME NEW c \in Clients, Begin(c) \/ AbortVictim(c) \/ Crash(c)
        PROVE  NumberInv'
    <2>1. PICK t \in Transactions :
             /\ tx' = [tx EXCEPT ![c] = t] /\ UNCHANGED <<db, answered>>
             /\ t.own = << >> /\ t.answer = {} /\ t.pc \in {"idle", "load"}
      <3>1. CASE Begin(c)
        BY <3>1, BeginType
      <3>2. CASE AbortVictim(c) \/ Crash(c)
        BY <3>2, IdleType DEF AbortVictim, Crash, Rollback, Continue, Idle
      <3>3. QED
        BY <1>7, <3>1, <3>2
    <2>2. DOMAIN t.own = {} /\ \A i \in Invoices, n \in Positive : ~Holds(t, i, n)
      BY <2>1, NothingWritten DEF Holds
    <2>3. db[Sequence] <= Bound(t)
      BY <2>2, SequenceType DEF Bound, Positive
    <2>4. QED
      BY <2>1, <2>2, <2>3, GoesOn
  <1>8. CASE UNCHANGED vars
    BY <1>8 DEF vars, NumberInv, Claim, Recorded, Holds, Bound, Target
  <1>9. QED
    BY <1>1, <1>2, <1>3, <1>4, <1>5, <1>6, <1>7, <1>8 DEF Next, Step

LEMMA NumberInvHolds == Spec => [](Types /\ NumberInv)
  <1>1. Init => Types /\ NumberInv
    BY InitTypes, InitNumberInv DEF Types
  <1>2. Types /\ NumberInv /\ [Next]_vars => (Types /\ NumberInv)'
    BY StepTypes, StepNumberInv DEF Types
  <1>3. QED
    BY <1>1, <1>2, PTL DEF Spec

(* Committed official numbers are distinct and below the sequence row,     *)
(* whatever requests overlap, are aborted or crash.                        *)
THEOREM UniqueNumbers == Spec => []NumbersAreUnique
  <1>1. Types /\ NumberInv => NumbersAreUnique
    BY DEF Types, RowsOK, Rows, Value, InvoiceRows, NumberInv, Claim, Recorded, Positive,
           NumbersAreUnique
  <1>2. QED
    BY <1>1, NumberInvHolds, PTL

(* No official number is answered for two invoices, even if the request    *)
(* that answers one read it before another changed the row.                *)
THEOREM UniqueAnswers == Spec => []AnsweredNumbersAreUnique
  <1>1. ASSUME Types, NumberInv, NEW a \in answered, NEW b \in answered, a[2] = b[2]
        PROVE  a[1] = b[1]
    <2>1. /\ a[1] \in Invoices /\ a[2] \in Positive /\ a = <<a[1], a[2]>>
          /\ b[1] \in Invoices /\ b[2] \in Positive /\ b = <<b[1], b[2]>>
      BY <1>1 DEF Types, RowsOK, Answers, Positive
    <2>2. Claim(a[1], a[2]) /\ Claim(b[1], b[2])
      BY <2>1 DEF Claim, Recorded
    <2>3. QED
      BY <1>1, <2>1, <2>2 DEF NumberInv
  <1>2. Types /\ NumberInv => AnsweredNumbersAreUnique
    BY <1>1 DEF AnsweredNumbersAreUnique
  <1>3. QED
    BY <1>2, NumberInvHolds, PTL

-----------------------------------------------------------------------------
(* An official number, once given, is never taken away: neither by a write *)
(* in flight, nor between the moment a request loads an invoice that has   *)
(* one and the moment it saves it.                                         *)
NumberedInv ==
    /\ FinalizedIsNumbered
    /\ \A c \in Clients, i \in Invoices : i \in DOMAIN tx[c].own =>
         /\ tx[c].own[i].status = "finalized" => tx[c].own[i].official # 0
         /\ tx[c].own[i].official = 0 => db[i].official = 0
    /\ \A c \in Clients : tx[c].pc = "save" /\ tx[c].snap.official # 0 =>
         View(c, Target(tx[c])).official # 0

(* A transaction may go on as t if what it has written is so. *)
LEMMA NumberedGoesOn ==
    ASSUME Types, NumberedInv, NEW c \in Clients, NEW t \in Transactions,
           tx' = [tx EXCEPT ![c] = t], UNCHANGED db,
           \A i \in Invoices : i \in DOMAIN t.own =>
             \/ i \in DOMAIN tx[c].own /\ t.own[i] = tx[c].own[i]
             \/ /\ t.own[i].status = "finalized" => t.own[i].official # 0
                /\ t.own[i].official = 0 => db[i].official = 0,
           t.pc = "save" /\ t.snap.official # 0 =>
             Target(t) \in Invoices /\ View(c, Target(t))'.official # 0
    PROVE  NumberedInv'
  <1>1. tx'[c] = t /\ \A d \in Clients : d # c => tx'[d] = tx[d]
    BY DEF Types, TxOK
  <1>2. FinalizedIsNumbered'
    BY DEF NumberedInv, FinalizedIsNumbered
  <1>3. \A d \in Clients, i \in Invoices : i \in DOMAIN tx'[d].own =>
          /\ tx'[d].own[i].status = "finalized" => tx'[d].own[i].official # 0
          /\ tx'[d].own[i].official = 0 => db'[i].official = 0
    BY <1>1 DEF NumberedInv
  <1>4. \A d \in Clients : d # c => View(d, Target(tx[d]))' = View(d, Target(tx[d]))
    BY <1>1 DEF View, Target
  <1>5. Target(tx[c])' = Target(t)
    BY <1>1 DEF Target
  <1>6. View(c, Target(tx[c]))' = View(c, Target(t))'
    BY <1>1 DEF View, Target
  <1>7. \A d \in Clients : tx'[d].pc = "save" /\ tx'[d].snap.official # 0 =>
          View(d, Target(tx[d]))'.official # 0
    BY <1>1, <1>4, <1>6 DEF NumberedInv
  <1>8. QED
    BY <1>2, <1>3, <1>7 DEF NumberedInv

LEMMA StepNumberedInv ==
    ASSUME Types, NumberInv, NumberedInv, [Next]_vars
    PROVE  NumberedInv'
  <1> USE DEF Types
  <1>1. ASSUME NEW c \in Clients, LoadInvoice(c)
        PROVE  NumberedInv'
    <2>1. PICK t \in Transactions :
             /\ Continue(c, t)
             /\ t.own = tx[c].own
             /\ t.pc \in {"number", "save"} =>
                  Target(t) \in Invoices /\ t.snap = View(c, Target(t))
      BY <1>1, LoadType
    <2>2. tx'[c] = t /\ db' = db
      BY <2>1 DEF Continue, TxOK
    <2>3. View(c, Target(t))' = View(c, Target(t))
      BY <2>1, <2>2 DEF View, Target
    <2>4. t.pc = "save" /\ t.snap.official # 0 =>
            Target(t) \in Invoices /\ View(c, Target(t))'.official # 0
      BY <2>1, <2>3
    <2>5. tx' = [tx EXCEPT ![c] = t]
      BY <2>1 DEF Continue
    <2>6. QED
      BY <2>1, <2>2, <2>4, <2>5, NumberedGoesOn
  <1>2. ASSUME NEW c \in Clients, TakeNumber(c)
        PROVE  NumberedInv'
    <2>1. PICK t \in Transactions :
             /\ Continue(c, t)
             /\ t.snap = tx[c].snap
             /\ DOMAIN t.own = DOMAIN tx[c].own \cup {Sequence}
             /\ \A i \in DOMAIN tx[c].own : i # Sequence => t.own[i] = tx[c].own[i]
      BY <1>2, TakeNumberType
    <2>2. t.snap.official = 0
      BY <1>2, <2>1 DEF TakeNumber, At, TxOK, Consistent
    <2>3. \A i \in Invoices : i \in DOMAIN t.own => i \in DOMAIN tx[c].own /\ t.own[i] = tx[c].own[i]
      BY <2>1, RowKinds
    <2>4. tx' = [tx EXCEPT ![c] = t] /\ db' = db
      BY <2>1 DEF Continue
    <2>5. QED
      BY <2>2, <2>3, <2>4, NumberedGoesOn
  <1>3. ASSUME NEW c \in Clients, SaveInvoice(c)
        PROVE  NumberedInv'
    <2>1. PICK t \in Transactions, i \in Invoices :
             /\ Continue(c, t)
             /\ i = Target(tx[c]) /\ tx[c].pc = "save"
             /\ DOMAIN t.own = DOMAIN tx[c].own \cup {i}
             /\ \A q \in DOMAIN tx[c].own : q # i => t.own[q] = tx[c].own[q]
             /\ t.own[i].official = IF tx[c].op \in FinalizeOps /\ tx[c].taken # 0
                                    THEN tx[c].taken ELSE View(c, i).official
             /\ t.own[i].status = IF tx[c].op \in FinalizeOps THEN "finalized"
                                  ELSE IF tx[c].op = "reset" THEN "draft" ELSE View(c, i).status
             /\ t.pc = IF t.op = "unlock" THEN "commit" ELSE "lines"
      BY <1>3, SaveType
    <2>2. tx[c].op \in FinalizeOps => tx[c].taken # 0 \/ View(c, i).official # 0
      BY <2>1 DEF NumberedInv, TxOK, Consistent
    <2>3. View(c, i).status = "finalized" => View(c, i).official # 0
      BY DEF NumberedInv, FinalizedIsNumbered, View
    <2>4. View(c, i).official = 0 => db[i].official = 0
      BY DEF NumberedInv, View
    <2>5. \A j \in Invoices : j \in DOMAIN t.own =>
             \/ j \in DOMAIN tx[c].own /\ t.own[j] = tx[c].own[j]
             \/ /\ t.own[j].status = "finalized" => t.own[j].official # 0
                /\ t.own[j].official = 0 => db[j].official = 0
      BY <2>1, <2>2, <2>3, <2>4
    <2>6. tx' = [tx EXCEPT ![c] = t] /\ db' = db
      BY <2>1 DEF Continue
    <2>7. QED
      BY <2>1, <2>5, <2>6, NumberedGoesOn
  <1>4. ASSUME NEW c \in Clients, LoadLines(c) \/ ComputeSync(c)
        PROVE  NumberedInv'
    <2>1. PICK t \in Transactions :
             Continue(c, t) /\ t.own = tx[c].own /\ t.pc \in {"flags", "apply"}
      BY <1>4, ReadType
    <2>2. QED
      BY <2>1, NumberedGoesOn DEF Continue
  <1>5. ASSUME NEW c \in Clients, ApplySync(c)
        PROVE  NumberedInv'
    <2>1. PICK t \in Transactions :
             /\ Continue(c, t)
             /\ \A r \in DOMAIN t.own \ DOMAIN tx[c].own : r \in Lines \cup {Order}
             /\ \A q \in DOMAIN tx[c].own : q \notin Lines \cup {Order} =>
                  t.own[q] = tx[c].own[q]
             /\ t.pc \in {"load", "commit"}
      BY <1>5, ApplyType
    <2>2. \A i \in Invoices : i \in DOMAIN t.own => i \in DOMAIN tx[c].own /\ t.own[i] = tx[c].own[i]
      BY <2>1, RowKinds
    <2>3. tx' = [tx EXCEPT ![c] = t] /\ db' = db
      BY <2>1 DEF Continue
    <2>4. QED
      BY <2>1, <2>2, <2>3, NumberedGoesOn
  <1>6. ASSUME NEW c \in Clients, Begin(c) \/ AbortVictim(c) \/ Crash(c)
        PROVE  NumberedInv'
    <2>1. PICK t \in Transactions :
             /\ tx' = [tx EXCEPT ![c] = t] /\ UNCHANGED db
             /\ t.own = << >> /\ t.pc \in {"idle", "load"}
      <3>1. CASE Begin(c)
        BY <3>1, BeginType
      <3>2. CASE AbortVictim(c) \/ Crash(c)
        BY <3>2, IdleType DEF AbortVictim, Crash, Rollback, Continue, Idle
      <3>3. QED
        BY <1>6, <3>1, <3>2
    <2>2. DOMAIN t.own = {}
      BY <2>1, NothingWritten
    <2>3. QED
      BY <2>1, <2>2, NumberedGoesOn
  <1>7. ASSUME NEW c \in Clients, Commit(c)
        PROVE  NumberedInv'
    <2>1. /\ \A r \in Rows : db'[r] = View(c, r)
          /\ tx' = [tx EXCEPT ![c] = Idle]
      BY <1>7, CommitType
    <2>2. tx'[c] = Idle /\ \A d \in Clients : d # c => tx'[d] = tx[d]
      BY <2>1 DEF TxOK
    <2>3. \A i \in Invoices : db'[i] = View(c, i)
      BY <2>1 DEF Rows
    <2>4. FinalizedIsNumbered'
      BY <2>3 DEF NumberedInv, FinalizedIsNumbered, View
    <2>5. \A i \in Invoices : db[i].official # 0 => db'[i].official # 0
      BY <2>3 DEF NumberedInv, View
    <2>6. \A d \in Clients, i \in Invoices : d # c /\ i \in DOMAIN tx[d].own => db'[i] = db[i]
      BY <2>3 DEF NumberInv, View
    <2>7. \A d \in Clients, i \in Invoices : i \in DOMAIN tx'[d].own =>
            /\ tx'[d].own[i].status = "finalized" => tx'[d].own[i].official # 0
            /\ tx'[d].own[i].official = 0 => db'[i].official = 0
      BY <2>2, <2>6, NothingWritten DEF NumberedInv, Idle
    <2>8. ASSUME NEW d \in Clients, tx'[d].pc = "save", tx'[d].snap.official # 0
          PROVE  View(d, Target(tx[d]))'.official # 0
      <3>1. d # c /\ tx'[d] = tx[d]
        BY <2>2, <2>8 DEF Idle
      <3>2. Target(tx[d]) \in Invoices /\ View(d, Target(tx[d])).official # 0
        BY <2>8, <3>1 DEF NumberedInv, TxOK, Transactions, Consistent, Busy, Target
      <3>3. View(d, Target(tx[d]))' = IF Target(tx[d]) \in DOMAIN tx[d].own
                                     THEN tx[d].own[Target(tx[d])] ELSE db'[Target(tx[d])]
        BY <3>1 DEF View, Target
      <3>4. QED
        BY <2>5, <3>2, <3>3 DEF View
    <2>9. QED
      BY <2>4, <2>7, <2>8 DEF NumberedInv
  <1>8. CASE UNCHANGED vars
    BY <1>8 DEF vars, NumberedInv, FinalizedIsNumbered, View, Target
  <1>9. QED
    BY <1>1, <1>2, <1>3, <1>4, <1>5, <1>6, <1>7, <1>8 DEF Next, Step

LEMMA NumberedInvHolds == Spec => []NumberedInv
  <1>1. Init => NumberedInv
    <2> SUFFICES ASSUME Init PROVE NumberedInv
      OBVIOUS
    <2>1. \A i \in Invoices : db[i].status = "finalized" => db[i].official # 0
      <3>1. PICK numbered \in SUBSET Invoices :
              \E number \in Bijection(numbered, 1 .. Cardinality(numbered)) :
                FirstRows(numbered, number)
        BY InitRows
      <3>2. PICK number \in Bijection(numbered, 1 .. Cardinality(numbered)) :
              \A i \in Invoices : db[i].status = "finalized" =>
                i \in numbered /\ db[i].official = number[i]
        BY <3>1 DEF FirstRows
      <3>3. \A i \in numbered : number[i] # 0
        BY DEF Bijection, Injection
      <3>4. QED
        BY <3>2, <3>3
    <2>2. \A c \in Clients : tx[c] = Idle
      BY DEF Init
    <2>3. QED
      BY <2>1, <2>2, NothingWritten DEF NumberedInv, FinalizedIsNumbered, Idle
  <1>2. QED
    BY <1>1, StepNumberedInv, NumberInvHolds, PTL DEF Spec

(* A finalized invoice has its official number in every committed state.   *)
THEOREM FinalizedNumbered == Spec => []FinalizedIsNumbered
  <1>1. NumberedInv => FinalizedIsNumbered
    BY DEF NumberedInv
  <1>2. QED
    BY <1>1, NumberedInvHolds, PTL

-----------------------------------------------------------------------------
(* Statuses follow the finalized invoices.  As long as nobody else commits *)
(* a transaction sees one state of the database with its own writes put    *)
(* over it; between two invoices its lines and its order are as that state *)
(* wants them, and what its session remembers of them is what it sees.     *)
See(t, r) == IF r \in DOMAIN t.own THEN t.own[r] ELSE db[r]

Billing(t) == BilledBy([i \in Invoices |-> See(t, i)])

Goal(t, r) ==
    IF (r = Order /\ Billing(t) = Lines) \/ r \in Billing(t) THEN "invoiced" ELSE "shipped"

InStep(t) == \A r \in Lines \cup {Order} : See(t, r) = Goal(t, r)

SyncOK(t) ==
    t.at = commits =>
      /\ t.pc \in {"load", "number", "save", "commit"} /\ (Follows \/ Order \in DOMAIN t.seen) =>
           InStep(t)
      /\ t.pc # "apply" => \A r \in DOMAIN t.seen : t.seen[r] = See(t, r)
      /\ t.pc = "flags" => Lines \subseteq DOMAIN t.seen
      /\ t.pc = "apply" =>
           /\ DOMAIN t.seen = Lines \cup {Order} /\ DOMAIN t.plan \subseteq DOMAIN t.seen
           /\ \A r \in DOMAIN t.seen :
                /\ t.seen[r] = Goal(t, r)
                /\ t.seen[r] = IF r \in DOMAIN t.plan THEN t.plan[r] ELSE See(t, r)

SyncInv == \A c \in Clients : SyncOK(tx[c])

LEMMA OrderIsNoLine ==
    ASSUME NEW rows
    PROVE  BilledBy(rows) \subseteq Lines /\ Order \notin BilledBy(rows)
  BY ItemsAssumption, RowKinds DEF BilledBy, ItemsAssumption

(* A state follows the finalized invoices just when each row is at its goal. *)
LEMMA FollowsMeansInStep ==
    ASSUME Types, NEW t, DOMAIN t.own = {}
    PROVE  InStep(t) <=> Follows
  <1>1. \A r : See(t, r) = db[r]
    BY DEF See
  <1>2. Billing(t) = BilledBy(db)
    <2>1. \A i \in Invoices : See(t, i) = db[i]
      BY <1>1
    <2>2. QED
      BY <2>1 DEF Billing, BilledBy
  <1>3. \A r \in Lines \cup {Order} : db[r] \in LineStatuses
    BY ValueOf DEF Types, RowsOK
  <1>4. Order \notin Lines /\ Order \notin BilledBy(db)
    BY RowKinds, OrderIsNoLine
  <1>5. QED
    BY <1>1, <1>2, <1>3, <1>4 DEF InStep, Goal, Follows, LineStatuses

(* A transaction whose writes leave the statuses of invoices, and the rows *)
(* of the order, as they were, is in step as before.                       *)
LEMMA StaysInStep ==
    ASSUME NEW t, NEW u,
           \A i \in Invoices : See(t, i).status = See(u, i).status,
           \A r \in Lines \cup {Order} : See(t, r) = See(u, r)
    PROVE  /\ InStep(t) <=> InStep(u)
           /\ Billing(t) = Billing(u)
           /\ \A r : Goal(t, r) = Goal(u, r)
  <1>1. Billing(t) = Billing(u)
    BY DEF Billing, BilledBy
  <1>2. \A r : Goal(t, r) = Goal(u, r)
    BY <1>1 DEF Goal
  <1>3. QED
    BY <1>1, <1>2 DEF InStep

LEMMA SyncGoesOn ==
    ASSUME Types, SyncInv, NEW c \in Clients, NEW t,
           tx' = [tx EXCEPT ![c] = t], UNCHANGED <<db, commits>>, SyncOK(t)
    PROVE  SyncInv'
  <1>1. tx'[c] = t /\ \A d \in Clients : d # c => tx'[d] = tx[d]
    BY DEF Types, TxOK
  <1>2. \A d \in Clients : SyncOK(tx'[d])
    BY <1>1 DEF SyncInv
  <1>3. \A d \in Clients : SyncOK(tx[d])' <=> SyncOK(tx'[d])
    BY DEF SyncOK, InStep, Goal, Billing, BilledBy, See, Follows
  <1>4. QED
    BY <1>2, <1>3 DEF SyncInv

LEMMA StepSyncInv ==
    ASSUME Types, SyncInv, [Next]_vars
    PROVE  SyncInv'
  <1> USE DEF Types
  <1>0. /\ \A c \in Clients, r \in Rows : View(c, r) = See(tx[c], r)
        /\ \A i \in Invoices : i \notin Lines \cup {Order} /\ i # Sequence
        /\ Sequence \notin Lines \cup {Order}
    BY RowKinds DEF View, See
  <1>1. ASSUME NEW c \in Clients, LoadInvoice(c)
        PROVE  SyncInv'
    <2>1. PICK t \in Transactions :
             /\ Continue(c, t)
             /\ t.own = tx[c].own /\ t.at = tx[c].at /\ t.seen = tx[c].seen
             /\ t.pc \in {"load", "number", "save", "commit"}
      BY <1>1, LoadType
    <2>2. \A r : See(t, r) = See(tx[c], r)
      BY <2>1 DEF See
    <2>3. tx[c].pc = "load"
      BY <1>1 DEF LoadInvoice, At
    <2>4. SyncOK(t)
      BY <2>1, <2>2, <2>3, StaysInStep DEF SyncInv, SyncOK
    <2>5. QED
      BY <2>1, <2>4, SyncGoesOn DEF Continue
  <1>2. ASSUME NEW c \in Clients, TakeNumber(c)
        PROVE  SyncInv'
    <2>1. PICK t \in Transactions :
             /\ Continue(c, t)
             /\ t.at = tx[c].at /\ t.seen = tx[c].seen
             /\ DOMAIN t.own = DOMAIN tx[c].own \cup {Sequence}
             /\ \A i \in DOMAIN tx[c].own : i # Sequence => t.own[i] = tx[c].own[i]
             /\ t.pc = "save"
      BY <1>2, TakeNumberType
    <2>2. \A r : r # Sequence => See(t, r) = See(tx[c], r)
      BY <2>1 DEF See
    <2>3. tx[c].pc = "number" /\ tx[c].seen \in Memory
      BY <1>2 DEF TakeNumber, At, TxOK, Transactions
    <2>4. DOMAIN tx[c].seen \subseteq Lines \cup {Order}
      BY <2>3 DEF Memory
    <2>5. InStep(t) <=> InStep(tx[c])
      BY <1>0, <2>2, StaysInStep
    <2>6. \A r \in DOMAIN t.seen : See(t, r) = See(tx[c], r)
      BY <1>0, <2>1, <2>2, <2>4
    <2>7. SyncOK(tx[c])
      BY DEF SyncInv
    <2>8. SyncOK(t)
      BY <2>1, <2>3, <2>5, <2>6, <2>7 DEF SyncOK
    <2>9. QED
      BY <2>1, <2>8, SyncGoesOn DEF Continue
  <1>3. ASSUME NEW c \in Clients, SaveInvoice(c)
        PROVE  SyncInv'
    <2>1. PICK t \in Transactions, i \in Invoices :
             /\ Continue(c, t)
             /\ tx[c].pc = "save"
             /\ DOMAIN t.own = DOMAIN tx[c].own \cup {i}
             /\ \A q \in DOMAIN tx[c].own : q # i => t.own[q] = tx[c].own[q]
             /\ t.own[i].status = IF tx[c].op \in FinalizeOps THEN "finalized"
                                  ELSE IF tx[c].op = "reset" THEN "draft" ELSE View(c, i).status
             /\ t.at = tx[c].at /\ t.op = tx[c].op /\ t.seen = tx[c].seen
             /\ t.pc = IF t.op = "unlock" THEN "commit" ELSE "lines"
      BY <1>3, SaveType
    <2>2. \A r : r # i => See(t, r) = See(tx[c], r)
      BY <2>1 DEF See
    <2>3. DOMAIN tx[c].seen \subseteq Lines \cup {Order}
      BY DEF TxOK, Transactions, Memory
    <2>4. t.op = "unlock" => See(t, i).status = See(tx[c], i).status
      BY <1>0, <2>1 DEF FinalizeOps, See, Rows
    <2>5. t.op = "unlock" => (InStep(t) <=> InStep(tx[c]))
      BY <1>0, <2>2, <2>4, StaysInStep
    <2>6. \A r \in DOMAIN t.seen : See(t, r) = See(tx[c], r)
      BY <1>0, <2>1, <2>2, <2>3
    <2>7. SyncOK(tx[c])
      BY DEF SyncInv
    <2>8. SyncOK(t)
      BY <2>1, <2>5, <2>6, <2>7 DEF SyncOK
    <2>9. QED
      BY <2>1, <2>8, SyncGoesOn DEF Continue
  <1>4. ASSUME NEW c \in Clients, LoadLines(c)
        PROVE  SyncInv'
    <2> DEFINE u == tx[c]
    <2>1. PICK t \in Transactions :
             /\ Continue(c, t)
             /\ t.own = u.own /\ t.at = u.at
      BY <1>4, ReadType
    <2>2. u.pc = "lines" /\ u \in Transactions /\ u.seen \in Memory
      BY <1>4 DEF LoadLines, At, TxOK, Transactions
    <2>3. t = [u EXCEPT !.seen = Over(u.seen, [l \in Lines |-> View(c, l)]), !.pc = "flags"]
      BY <1>4, <2>1 DEF LoadLines, Continue, TxOK
    <2>4. t.seen = Over(u.seen, [l \in Lines |-> View(c, l)]) /\ t.pc = "flags"
      BY <2>2, <2>3 DEF Transactions
    <2>5. /\ DOMAIN t.seen = DOMAIN u.seen \cup Lines
          /\ \A r \in DOMAIN t.seen : t.seen[r] = IF r \in DOMAIN u.seen THEN u.seen[r] ELSE View(c, r)
      BY <2>4 DEF Over
    <2>6. \A r : See(t, r) = See(u, r)
      BY <2>1 DEF See
    <2>7. \A l \in Lines : View(c, l) = See(u, l)
      BY <1>0 DEF Rows
    <2>8. SyncOK(u)
      BY DEF SyncInv
    <2>9. SyncOK(t)
      BY <2>1, <2>2, <2>4, <2>5, <2>6, <2>7, <2>8 DEF SyncOK
    <2>10. QED
      BY <2>1, <2>9, SyncGoesOn DEF Continue
  <1>5. ASSUME NEW c \in Clients, ComputeSync(c)
        PROVE  SyncInv'
    <2> DEFINE u == tx[c]
               billed == BilledBy([i \in Invoices |-> View(c, i)])
               seen == Over(u.seen, Row(Order, View(c, Order)))
               goal == [r \in Lines \cup {Order} |->
                          IF (r = Order /\ billed = Lines) \/ r \in billed
                          THEN "invoiced" ELSE "shipped"]
               differ == {r \in DOMAIN goal : goal[r] # seen[r]}
    <2>1. PICK t \in Transactions :
             /\ Continue(c, t)
             /\ t.own = u.own /\ t.at = u.at
      BY <1>5, ReadType
    <2>2. u.pc = "flags" /\ u \in Transactions /\ u.seen \in Memory
      BY <1>5 DEF ComputeSync, At, TxOK, Transactions
    <2>3. t = [u EXCEPT !.seen = goal, !.plan = Restrict(goal, differ), !.pc = "apply"]
      BY <1>5, <2>1 DEF ComputeSync, Continue, TxOK
    <2>4. \A i \in Invoices : View(c, i) = See(u, i)
      BY <1>0 DEF Rows
    <2>5. billed = Billing(u)
      BY <2>4 DEF Billing
    <2>6. \A r \in Lines \cup {Order} : goal[r] = Goal(u, r)
      BY <2>5 DEF Goal
    <2>7. DOMAIN seen = DOMAIN u.seen \cup {Order} /\ View(c, Order) = See(u, Order)
      BY <1>0 DEF Over, Row, Rows
    <2>8. \A r \in DOMAIN seen : seen[r] = IF r \in DOMAIN u.seen THEN u.seen[r] ELSE View(c, Order)
      BY DEF Over, Row
    <2>9. u.at = commits => \A r \in Lines \cup {Order} : seen[r] = See(u, r)
      BY <2>2, <2>7, <2>8 DEF SyncInv, SyncOK
    <2>10. DOMAIN goal = Lines \cup {Order}
      OBVIOUS
    <2> HIDE DEF seen, goal
    <2>11. t.seen = goal /\ t.plan = Restrict(goal, differ) /\ t.pc = "apply"
      BY <2>2, <2>3 DEF Transactions
    <2>12. /\ DOMAIN t.plan = differ
           /\ \A r \in DOMAIN t.plan : t.plan[r] = goal[r]
      BY <2>11 DEF Restrict
    <2>13. /\ \A r : See(t, r) = See(u, r)
           /\ \A r : Goal(t, r) = Goal(u, r)
      BY <2>1 DEF See, Goal, Billing
    <2>14. SyncOK(t)
      BY <2>1, <2>6, <2>9, <2>10, <2>11, <2>12, <2>13 DEF SyncOK
    <2>15. QED
      BY <2>1, <2>14, SyncGoesOn DEF Continue
  <1>6. ASSUME NEW c \in Clients, ApplySync(c)
        PROVE  SyncInv'
    <2> DEFINE u == tx[c]
    <2>1. PICK t \in Transactions :
             /\ Continue(c, t)
             /\ \A q \in DOMAIN t.own : t.own[q] = IF q \in DOMAIN u.plan THEN u.plan[q] ELSE u.own[q]
             /\ DOMAIN t.own = DOMAIN u.own \cup DOMAIN u.plan
             /\ t.at = u.at /\ t.seen = u.seen
             /\ t.pc \in {"load", "commit"}
      BY <1>6, ApplyType
    <2>2. u.pc = "apply" /\ SyncOK(u) /\ u.plan \in Memory
      BY <1>6 DEF ApplySync, At, SyncInv, TxOK, Transactions
    <2>3. \A r : See(t, r) = IF r \in DOMAIN u.plan THEN u.plan[r] ELSE See(u, r)
      BY <2>1 DEF See
    <2>4. \A i \in Invoices : See(t, i) = See(u, i)
      BY <1>0, <2>2, <2>3 DEF Memory
    <2>5. Billing(t) = Billing(u)
      BY <2>4 DEF Billing
    <2>6. \A r : Goal(t, r) = Goal(u, r)
      BY <2>5 DEF Goal
    <2>7. t.at = commits => InStep(t) /\ \A r \in DOMAIN t.seen : t.seen[r] = See(t, r)
      BY <2>1, <2>2, <2>3, <2>6 DEF SyncOK, InStep
    <2>8. SyncOK(t)
      BY <2>1, <2>7 DEF SyncOK
    <2>9. QED
      BY <2>1, <2>8, SyncGoesOn DEF Continue
  <1>7. ASSUME NEW c \in Clients, Begin(c) \/ AbortVictim(c) \/ Crash(c)
        PROVE  SyncInv'
    <2>1. PICK t \in Transactions :
             /\ tx' = [tx EXCEPT ![c] = t] /\ UNCHANGED <<db, commits>>
             /\ t.own = << >> /\ t.seen = << >> /\ t.pc \in {"idle", "load"}
      <3>1. CASE Begin(c)
        BY <3>1, BeginType
      <3>2. CASE AbortVictim(c) \/ Crash(c)
        BY <3>2, IdleType DEF AbortVictim, Crash, Rollback, Continue, Idle
      <3>3. QED
        BY <1>7, <3>1, <3>2
    <2>2. DOMAIN t.own = {} /\ DOMAIN t.seen = {}
      BY <2>1, NothingWritten
    <2>3. SyncOK(t)
      BY <2>1, <2>2, FollowsMeansInStep DEF SyncOK
    <2>4. QED
      BY <2>1, <2>3, SyncGoesOn
  <1>8. ASSUME NEW c \in Clients, Commit(c)
        PROVE  SyncInv'
    <2>1. tx' = [tx EXCEPT ![c] = Idle] /\ commits' = commits + 1
      BY <1>8, CommitType
    <2>2. \A d \in Clients : tx'[d].at \in Nat /\ tx'[d].at <= commits /\ commits \in Nat
      BY <2>1 DEF TxOK, RowsOK, Transactions, Idle
    <2>3. ASSUME NEW d \in Clients
          PROVE  SyncOK(tx[d])'
      <3>1. ~(tx'[d].at = commits')
        BY <2>1, <2>2
      <3>2. QED
        BY <3>1 DEF SyncOK
    <2>4. QED
      BY <2>3 DEF SyncInv
  <1>9. CASE UNCHANGED vars
    <2>1. \A c \in Clients : SyncOK(tx[c])' <=> SyncOK(tx[c])
      BY <1>9 DEF vars, SyncOK, InStep, Goal, Billing, BilledBy, See, Follows
    <2>2. QED
      BY <2>1 DEF SyncInv
  <1>10. QED
    BY <1>1, <1>2, <1>3, <1>4, <1>5, <1>6, <1>7, <1>8, <1>9 DEF Next, Step

(* Line and order statuses that follow the finalized invoices go on doing  *)
(* so, and a sync restores them, unless the request overlaps another that  *)
(* commits (_sync_order_statuses_for_invoice in routes_invoices.py).       *)
THEOREM SyncSuffices == Spec => UnsyncedOnlyByStaleRequest
  <1>1. Init => SyncInv
    <2> SUFFICES ASSUME Init PROVE SyncInv
      OBVIOUS
    <2>1. Types /\ \A c \in Clients : tx[c] = Idle
      BY InitTypes, InitRows DEF Types
    <2>2. Idle.pc = "idle" /\ DOMAIN Idle.seen = {}
      BY NothingWritten DEF Idle
    <2>3. QED
      BY <2>1, <2>2 DEF SyncInv, SyncOK
  <1>2. ASSUME Types, SyncInv, [Next]_vars, NEW c \in Clients, Commits(c), ~Stale(c),
               Follows \/ Synced(c)
        PROVE  Follows'
    <2>1. Commit(c)
      <3>1. commits \in Nat /\ DOMAIN tx = Clients
        BY <1>2 DEF Types, RowsOK, TxOK
      <3>2. commits' # commits
        BY <1>2, <3>1 DEF Commits
      <3>3. PICK d \in Clients : Commit(d)
        BY <1>2, <3>2 DEF Next, Step, Begin, LoadInvoice, TakeNumber, SaveInvoice, LoadLines,
             ComputeSync, ApplySync, AbortVictim, Crash, Rollback, Continue, vars
      <3>4. d # c => tx'[c] = tx[c]
        BY <3>1, <3>3 DEF Commit
      <3>5. QED
        BY <1>2, <3>3, <3>4 DEF Commits, At, Idle
    <2>2. InStep(tx[c])
      BY <1>2, <2>1 DEF SyncInv, SyncOK, Commit, At, Stale, Synced
    <2>3. \A r \in Rows : db'[r] = See(tx[c], r)
      BY <1>2, <2>1, CommitType DEF Types, View, See
    <2>4. BilledBy(db') = Billing(tx[c])
      BY <2>3 DEF Rows, Billing, BilledBy
    <2>5. Order \notin Lines /\ Order \notin Billing(tx[c])
      BY RowKinds, OrderIsNoLine DEF Billing
    <2>6. /\ \A l \in Lines : db'[l] = "invoiced" <=> l \in BilledBy(db')
          /\ db'[Order] = "invoiced" <=> BilledBy(db') = Lines
      BY <2>2, <2>3, <2>4, <2>5 DEF InStep, Goal, Rows
    <2>7. BilledBy(db)' = BilledBy(db')
      BY DEF BilledBy
    <2>8. QED
      BY <2>6, <2>7 DEF Follows
  <1>3. Types /\ SyncInv /\ [Next]_vars =>
          [\A c \in Clients : Commits(c) /\ ~Stale(c) /\ (Follows \/ Synced(c)) => Follows']_vars
    BY <1>2
  <1>4. QED
    BY <1>1, <1>3, StepSyncInv, NumberInvHolds, PTL DEF Spec, UnsyncedOnlyByStaleRequest

-----------------------------------------------------------------------------
(* The register.  The numbers a transaction has taken and not committed    *)
(* are those from the committed sequence on; all of them are written to an *)
(* invoice, except for one that is just about to be.                       *)
Fresh(t) == {i \in Invoices \cap DOMAIN t.own : t.own[i].official >= db[Sequence]}

Pending(t) == IF t.pc = "save" /\ t.taken # 0 THEN 1 ELSE 0

RegisterOK(t) ==
    /\ Bound(t) = db[Sequence] + Cardinality(Fresh(t)) + Pending(t)
    /\ t.pc = "number" => t.op \in FinalizeOps /\ Target(t) \notin Fresh(t)
    /\ t.pc = "save" /\ t.taken # 0 =>
         t.op \in FinalizeOps /\ Target(t) \notin Fresh(t) /\ t.taken + 1 = Bound(t)
    /\ t.op \notin FinalizeOps => Fresh(t) = {}
    /\ \A i \in Invoices \cap DOMAIN t.own :
         /\ i \notin Fresh(t) => t.own[i].official = db[i].official
         /\ t.own[i].status = IF t.op \in FinalizeOps THEN "finalized"
                              ELSE IF t.op = "reset" THEN "draft" ELSE db[i].status

RegisterInv == \A c \in Clients : RegisterOK(tx[c])

LEMMA FreshIsFinite ==
    ASSUME NEW t
    PROVE  IsFiniteSet(Fresh(t)) /\ Cardinality(Fresh(t)) \in Nat
  <1>1. Fresh(t) \subseteq Invoices
    BY DEF Fresh
  <1>2. QED
    BY <1>1, RowsAssumption, FS_Subset, FS_CardinalityType DEF RowsAssumption

LEMMA RegisterGoesOn ==
    ASSUME Types, RegisterInv, NEW c \in Clients, NEW t,
           tx' = [tx EXCEPT ![c] = t], UNCHANGED db, RegisterOK(t)
    PROVE  RegisterInv'
  <1>1. tx'[c] = t /\ \A d \in Clients : d # c => tx'[d] = tx[d]
    BY DEF Types, TxOK
  <1>2. \A d \in Clients : RegisterOK(tx'[d])
    BY <1>1 DEF RegisterInv
  <1>3. \A d \in Clients : RegisterOK(tx[d])' <=> RegisterOK(tx'[d])
    BY DEF RegisterOK, Bound, Fresh, Pending, Target
  <1>4. QED
    BY <1>2, <1>3 DEF RegisterInv

(* A transaction that has the same invoices written, for the same          *)
(* operation.                                                              *)
LEMMA SameInvoices ==
    ASSUME NEW t, NEW u, RegisterOK(u), t.op = u.op,
           \A i \in Invoices : /\ i \in DOMAIN t.own <=> i \in DOMAIN u.own
                               /\ i \in DOMAIN u.own => t.own[i] = u.own[i],
           Bound(t) = db[Sequence] + Cardinality(Fresh(u)) + Pending(t),
           t.pc = "number" => t.op \in FinalizeOps /\ Target(t) \notin Fresh(u),
           t.pc = "save" /\ t.taken # 0 =>
             t.op \in FinalizeOps /\ Target(t) \notin Fresh(u) /\ t.taken + 1 = Bound(t)
    PROVE  RegisterOK(t)
  <1>1. Fresh(t) = Fresh(u)
    BY DEF Fresh
  <1>2. QED
    BY <1>1 DEF RegisterOK

LEMMA StepRegisterInv ==
    ASSUME Types, NumberInv, RegisterInv, [Next]_vars
    PROVE  RegisterInv'
  <1> USE DEF Types
  <1>0. /\ \A c \in Clients : RegisterOK(tx[c]) /\ tx[c] \in Transactions /\ Consistent(tx[c])
        /\ \A c \in Clients : Bound(tx[c]) \in Nat /\ Bound(tx[c]) = View(c, Sequence)
        /\ db[Sequence] \in Positive
        /\ \A c \in Clients : Cardinality(Fresh(tx[c])) \in Nat
        /\ \A c \in Clients : \A i \in Invoices \cap DOMAIN tx[c].own : tx[c].own[i].official \in Nat
        /\ \A i \in Invoices : db[i].official \in Nat /\ db[i].official < db[Sequence]
    <2>1. \A i \in Invoices : db[i] \in InvoiceRows
      BY ValueOf DEF RowsOK
    <2>2. ASSUME NEW i \in Invoices
          PROVE  db[i].official \in Nat /\ db[i].official < db[Sequence]
      <3>1. db[i].official \in Nat /\ db[Sequence] \in Positive
        BY <2>1, SequenceType DEF InvoiceRows
      <3>2. db[i].official \in Positive => db[i].official < db[Sequence]
        BY DEF NumberInv, Recorded
      <3>3. QED
        BY <3>1, <3>2 DEF Positive
    <2>3. \A c \in Clients : \A i \in Invoices \cap DOMAIN tx[c].own : tx[c].own[i] \in InvoiceRows
      BY ValueOf DEF TxOK, Consistent
    <2>4. QED
      BY <2>2, <2>3, FreshIsFinite, SequenceType DEF RegisterInv, TxOK, Positive, InvoiceRows
  <1>1. ASSUME NEW c \in Clients, LoadInvoice(c)
        PROVE  RegisterInv'
    <2>1. PICK t \in Transactions :
             /\ Continue(c, t) /\ Consistent(t)
             /\ t.own = tx[c].own /\ t.op = tx[c].op
             /\ t.pc = "number" => t.op \in FinalizeOps
             /\ t.pc \in {"number", "save"} =>
                  /\ Target(t) \in Invoices /\ t.snap = View(c, Target(t)) /\ t.taken = 0
      BY <1>1, LoadType
    <2>2. Bound(t) = Bound(tx[c]) /\ Pending(t) = 0 /\ Pending(tx[c]) = 0
      BY <1>1, <2>1 DEF Bound, Pending, LoadInvoice, At
    <2>3. t.pc = "number" => Target(t) \notin Fresh(tx[c])
      BY <1>0, <2>1 DEF Fresh, View, Consistent, Positive
    <2>4. RegisterOK(t)
      BY <1>0, <2>1, <2>2, <2>3, SameInvoices DEF RegisterOK
    <2>5. QED
      BY <2>1, <2>4, RegisterGoesOn DEF Continue
  <1>2. ASSUME NEW c \in Clients, TakeNumber(c)
        PROVE  RegisterInv'
    <2>1. PICK t \in Transactions :
             /\ Continue(c, t)
             /\ t.op = tx[c].op /\ t.todo = tx[c].todo
             /\ t.taken = View(c, Sequence) /\ t.taken \in Nat \ {0}
             /\ DOMAIN t.own = DOMAIN tx[c].own \cup {Sequence}
             /\ t.own[Sequence] = View(c, Sequence) + 1
             /\ \A i \in DOMAIN tx[c].own : i # Sequence => t.own[i] = tx[c].own[i]
             /\ t.pc = "save"
      BY <1>2, TakeNumberType
    <2>2. tx[c].pc = "number" /\ Pending(tx[c]) = 0 /\ Pending(t) = 1
      BY <1>2, <2>1 DEF TakeNumber, At, Pending
    <2>3. Bound(t) = Bound(tx[c]) + 1 /\ t.taken = Bound(tx[c]) /\ Target(t) = Target(tx[c])
      BY <1>0, <2>1 DEF Bound, Target
    <2>4. Bound(t) = db[Sequence] + Cardinality(Fresh(tx[c])) + Pending(t)
      BY <1>0, <2>2, <2>3 DEF RegisterOK, Positive
    <2>5. \A i \in Invoices : /\ i \in DOMAIN t.own <=> i \in DOMAIN tx[c].own
                              /\ i \in DOMAIN tx[c].own => t.own[i] = tx[c].own[i]
      BY <2>1, RowKinds
    <2>6. t.op \in FinalizeOps /\ Target(t) \notin Fresh(tx[c])
      BY <1>0, <2>1, <2>2, <2>3 DEF RegisterOK
    <2>7. RegisterOK(t)
      BY <1>0, <2>1, <2>3, <2>4, <2>5, <2>6, SameInvoices
    <2>8. QED
      BY <2>1, <2>7, RegisterGoesOn DEF Continue
  <1>3. ASSUME NEW c \in Clients, SaveInvoice(c)
        PROVE  RegisterInv'
    <2> DEFINE u == tx[c]
    <2>1. PICK t \in Transactions, i \in Invoices :
             /\ Continue(c, t)
             /\ i = Target(u) /\ u.pc = "save"
             /\ DOMAIN t.own = DOMAIN u.own \cup {i}
             /\ \A q \in DOMAIN u.own : q # i => t.own[q] = u.own[q]
             /\ t.own[i].official = IF u.op \in FinalizeOps /\ u.taken # 0
                                    THEN u.taken ELSE View(c, i).official
             /\ t.own[i].status = IF u.op \in FinalizeOps THEN "finalized"
                                  ELSE IF u.op = "reset" THEN "draft" ELSE View(c, i).status
             /\ t.op = u.op
             /\ t.pc = IF t.op = "unlock" THEN "commit" ELSE "lines"
      BY <1>3, SaveType
    <2>2. Bound(t) = Bound(u) /\ Pending(t) = 0
      BY <2>1, RowKinds DEF Bound, Pending
    <2>3. \A j \in Invoices : j # i =>
            /\ j \in DOMAIN t.own <=> j \in DOMAIN u.own
            /\ j \in DOMAIN u.own => t.own[j] = u.own[j]
            /\ j \in Fresh(t) <=> j \in Fresh(u)
      BY <2>1 DEF Fresh
    <2>4. CASE u.taken # 0
      <3>1. u.op \in FinalizeOps /\ i \notin Fresh(u) /\ u.taken + 1 = Bound(u) /\ Pending(u) = 1
        BY <1>0, <2>1, <2>4 DEF RegisterOK, Pending
      <3>2. t.own[i].official = u.taken /\ u.taken \in Nat /\ u.taken >= db[Sequence]
        BY <1>0, <2>1, <2>4, <3>1 DEF RegisterOK, Transactions, Positive
      <3>3. Fresh(t) = Fresh(u) \cup {i}
        BY <2>1, <2>3, <3>2 DEF Fresh
      <3>4. Cardinality(Fresh(t)) = Cardinality(Fresh(u)) + 1
        BY <3>1, <3>3, FreshIsFinite, FS_AddElement
      <3>5. Bound(t) = db[Sequence] + Cardinality(Fresh(t)) + Pending(t)
        BY <1>0, <2>2, <3>1, <3>4 DEF RegisterOK, Positive
      <3>6. \A j \in Invoices \cap DOMAIN t.own :
              /\ j \notin Fresh(t) => t.own[j].official = db[j].official
              /\ t.own[j].status = "finalized"
        BY <1>0, <2>1, <2>3, <3>1, <3>3 DEF RegisterOK
      <3>7. RegisterOK(t)
        BY <2>1, <3>1, <3>5, <3>6 DEF RegisterOK, FinalizeOps
      <3>8. QED
        BY <2>1, <3>7, RegisterGoesOn DEF Continue
    <2>5. CASE u.taken = 0
      <3>1. t.own[i].official = View(c, i).official
        BY <2>1, <2>5
      <3>2. /\ i \in Fresh(t) <=> i \in Fresh(u)
            /\ i \notin Fresh(t) => t.own[i].official = db[i].official
        <4>1. CASE i \in DOMAIN u.own
          <5>1. t.own[i].official = u.own[i].official
            BY <3>1, <4>1 DEF View
          <5>2. QED
            BY <1>0, <2>1, <4>1, <5>1 DEF Fresh, RegisterOK
        <4>2. CASE i \notin DOMAIN u.own
          <5>1. t.own[i].official = db[i].official
            BY <3>1, <4>2 DEF View
          <5>2. i \notin Fresh(t) /\ i \notin Fresh(u)
            BY <1>0, <4>2, <5>1 DEF Fresh, Positive
          <5>3. QED
            BY <5>1, <5>2
        <4>3. QED
          BY <4>1, <4>2
      <3>3. Fresh(t) = Fresh(u)
        BY <2>3, <3>2 DEF Fresh
      <3>4. Bound(t) = db[Sequence] + Cardinality(Fresh(t)) + Pending(t)
        BY <1>0, <2>2, <2>5, <3>3 DEF RegisterOK, Pending
      <3>5. t.op \notin FinalizeOps /\ t.op # "reset" => t.own[i].status = db[i].status
        BY <1>0, <2>1 DEF RegisterOK, View
      <3>6. \A j \in Invoices \cap DOMAIN t.own :
              /\ j \notin Fresh(t) => t.own[j].official = db[j].official
              /\ t.own[j].status = IF t.op \in FinalizeOps THEN "finalized"
                                   ELSE IF t.op = "reset" THEN "draft" ELSE db[j].status
        BY <1>0, <2>1, <2>3, <3>2, <3>3, <3>5 DEF RegisterOK
      <3>7. RegisterOK(t)
        BY <1>0, <2>1, <3>3, <3>4, <3>6 DEF RegisterOK
      <3>8. QED
        BY <2>1, <3>7, RegisterGoesOn DEF Continue
    <2>6. QED
      BY <2>4, <2>5
  <1>4. ASSUME NEW c \in Clients, LoadLines(c) \/ ComputeSync(c)
        PROVE  RegisterInv'
    <2>1. PICK t \in Transactions :
             /\ Continue(c, t)
             /\ t.own = tx[c].own /\ t.op = tx[c].op
             /\ t.pc \in {"flags", "apply"}
      BY <1>4, ReadType
    <2>2. Bound(t) = Bound(tx[c]) /\ Pending(t) = 0 /\ Pending(tx[c]) = 0
      BY <1>4, <2>1 DEF Bound, Pending, LoadLines, ComputeSync, At
    <2>3. RegisterOK(t)
      BY <1>0, <2>1, <2>2, SameInvoices DEF RegisterOK
    <2>4. QED
      BY <2>1, <2>3, RegisterGoesOn DEF Continue
  <1>5. ASSUME NEW c \in Clients, ApplySync(c)
        PROVE  RegisterInv'
    <2>1. PICK t \in Transactions :
             /\ Continue(c, t)
             /\ \A r \in DOMAIN t.own \ DOMAIN tx[c].own : r \in Lines \cup {Order}
             /\ DOMAIN tx[c].own \subseteq DOMAIN t.own
             /\ \A q \in DOMAIN tx[c].own : q \notin Lines \cup {Order} => t.own[q] = tx[c].own[q]
             /\ t.op = tx[c].op
             /\ t.pc \in {"load", "commit"}
      BY <1>5, ApplyType
    <2>2. Bound(t) = Bound(tx[c]) /\ Pending(t) = 0 /\ Pending(tx[c]) = 0
      BY <1>5, <2>1, RowKinds DEF Bound, Pending, ApplySync, At
    <2>3. \A i \in Invoices : /\ i \in DOMAIN t.own <=> i \in DOMAIN tx[c].own
                              /\ i \in DOMAIN tx[c].own => t.own[i] = tx[c].own[i]
      BY <2>1, RowKinds
    <2>4. RegisterOK(t)
      BY <1>0, <2>1, <2>2, <2>3, SameInvoices DEF RegisterOK
    <2>5. QED
      BY <2>1, <2>4, RegisterGoesOn DEF Continue
  <1>6. ASSUME NEW c \in Clients, Begin(c) \/ AbortVictim(c) \/ Crash(c)
        PROVE  RegisterInv'
    <2>1. PICK t \in Transactions :
             /\ tx' = [tx EXCEPT ![c] = t] /\ UNCHANGED db
             /\ t.own = << >> /\ t.pc \in {"idle", "load"}
      <3>1. CASE Begin(c)
        BY <3>1, BeginType
      <3>2. CASE AbortVictim(c) \/ Crash(c)
        BY <3>2, IdleType DEF AbortVictim, Crash, Rollback, Continue, Idle
      <3>3. QED
        BY <1>6, <3>1, <3>2
    <2>2. DOMAIN t.own = {} /\ Fresh(t) = {} /\ Pending(t) = 0 /\ Bound(t) = db[Sequence]
      BY <2>1, NothingWritten DEF Fresh, Pending, Bound
    <2>3. RegisterOK(t)
      BY <1>0, <2>1, <2>2, FS_EmptySet DEF RegisterOK, Positive
    <2>4. QED
      BY <2>1, <2>3, RegisterGoesOn
  <1>7. ASSUME NEW c \in Clients, Commit(c)
        PROVE  RegisterInv'
    <2>1. /\ \A r \in Rows : db'[r] = View(c, r)
          /\ tx' = [tx EXCEPT ![c] = Idle]
      BY <1>7, CommitType
    <2>2. tx'[c] = Idle /\ \A d \in Clients : d # c => tx'[d] = tx[d]
      BY <2>1 DEF TxOK
    <2>3. db'[Sequence] = Bound(tx[c]) /\ db[Sequence] <= db'[Sequence] /\ db'[Sequence] \in Positive
      BY <2>1, SequenceType DEF NumberInv, Rows
    <2>4. ASSUME NEW d \in Clients, d # c
          PROVE  RegisterOK(tx[d])'
      <3> DEFINE t == tx[d]
      <3>1. tx'[d] = t /\ DOMAIN t.own \cap DOMAIN tx[c].own = {}
        BY <2>2, <2>4 DEF NumberInv
      <3>2. \A i \in Invoices \cap DOMAIN t.own : db'[i] = db[i]
        BY <2>1, <3>1 DEF View, Rows
      <3>3. Fresh(t)' = {i \in Invoices \cap DOMAIN t.own : t.own[i].official >= db'[Sequence]}
        BY <3>1 DEF Fresh
      <3>4. Fresh(t)' = Fresh(t) /\ Bound(t)' = db'[Sequence] + Cardinality(Fresh(t)) + Pending(t)
        <4>1. CASE Sequence \in DOMAIN t.own
          <5>1. db'[Sequence] = db[Sequence]
            BY <2>1, <3>1, <4>1 DEF View, Rows
          <5>2. Bound(t)' = Bound(t)
            BY <3>1, <4>1 DEF Bound
          <5>3. QED
            BY <1>0, <3>3, <5>1, <5>2 DEF Fresh, RegisterOK
        <4>2. CASE Sequence \notin DOMAIN t.own
          <5>1. Bound(t) = db[Sequence] /\ Bound(t)' = db'[Sequence]
            BY <3>1, <4>2 DEF Bound
          <5>2. Cardinality(Fresh(t)) = 0 /\ Pending(t) = 0
            BY <1>0, <5>1 DEF RegisterOK, Pending, Positive
          <5>3. Fresh(t) = {}
            BY <5>2, FreshIsFinite, FS_EmptySet
          <5>4. \A i \in Invoices \cap DOMAIN t.own : ~(t.own[i].official >= db'[Sequence])
            BY <1>0, <2>3, <5>3 DEF Fresh, Positive
          <5>5. QED
            BY <2>3, <3>3, <5>1, <5>2, <5>3, <5>4 DEF Positive
        <4>3. QED
          BY <4>1, <4>2
      <3>5. t.pc = "save" /\ t.taken # 0 => Bound(t)' = Bound(t)
        <4>1. Sequence \notin DOMAIN t.own => Pending(t) = 0
          BY <1>0 DEF RegisterOK, Pending, Positive, Bound
        <4>2. QED
          BY <3>1, <4>1 DEF Pending, Bound
      <3>6. RegisterOK(t)
        BY <1>0
      <3>7. QED
        BY <3>1, <3>2, <3>4, <3>5, <3>6 DEF RegisterOK, Pending, Target
    <2>5. RegisterOK(tx[c])'
      <3>1. DOMAIN Idle.own = {} /\ Idle.pc = "idle"
        BY NothingWritten DEF Idle
      <3>2. /\ DOMAIN tx'[c].own = {} /\ tx'[c].pc = "idle"
            /\ Fresh(tx[c])' = {} /\ Pending(tx[c])' = 0 /\ Bound(tx[c])' = db'[Sequence]
        BY <2>2, <3>1 DEF Fresh, Pending, Bound
      <3>3. QED
        BY <2>3, <3>2, FS_EmptySet DEF RegisterOK, Positive
    <2>6. QED
      BY <2>4, <2>5 DEF RegisterInv
  <1>8. CASE UNCHANGED vars
    <2>1. \A c \in Clients : RegisterOK(tx[c])' <=> RegisterOK(tx[c])
      BY <1>8 DEF vars, RegisterOK, Bound, Fresh, Pending, Target
    <2>2. QED
      BY <2>1 DEF RegisterInv
  <1>9. QED
    BY <1>1, <1>2, <1>3, <1>4, <1>5, <1>6, <1>7, <1>8 DEF Next, Step

(* The operators of the register's library are the ones of this module.    *)
LEMMA RegisterOperators ==
    /\ \A S : Register!Cardinality(S) = Cardinality(S)
    /\ \A S, T : Register!Injection(S, T) = Injection(S, T)
    /\ \A S, T : Register!Bijection(S, T) = Bijection(S, T)
  <1>1. \A S : Register!Cardinality(S) = Cardinality(S)
    BY DEF Cardinality, Register!Cardinality
  <1>2. \A S, T : Register!Injection(S, T) = Injection(S, T)
    BY DEF Injection, Register!Injection, IsInjective, Register!IsInjective
  <1>3. \A S, T : Register!Bijection(S, T) = Bijection(S, T)
    BY <1>2 DEF Bijection, Register!Bijection, Surjection, Register!Surjection
  <1>4. QED
    BY <1>1, <1>2, <1>3

LEMMA RegisterStarts == Init => RegisterInv /\ Register!Init
  <1> SUFFICES ASSUME Init PROVE RegisterInv /\ Register!Init
    OBVIOUS
  <1>1. Types /\ \A c \in Clients : tx[c] = Idle
    BY InitTypes, InitRows DEF Types
  <1>2. \A c \in Clients : RegisterOK(tx[c])
    <2>1. DOMAIN Idle.own = {} /\ Idle.pc = "idle"
      BY NothingWritten DEF Idle
    <2>2. \A c \in Clients : Fresh(tx[c]) = {} /\ Pending(tx[c]) = 0 /\ Bound(tx[c]) = db[Sequence]
      BY <1>1, <2>1 DEF Fresh, Pending, Bound
    <2>3. db[Sequence] \in Nat
      BY <1>1, SequenceType DEF Positive
    <2>4. QED
      BY <1>1, <2>1, <2>2, <2>3, FS_EmptySet DEF RegisterOK
  <1>3. PICK numbered \in SUBSET Invoices :
          \E first \in Bijection(numbered, 1 .. Cardinality(numbered)) :
            FirstRows(numbered, first)
    BY InitRows
  <1>4. PICK first \in Bijection(numbered, 1 .. Cardinality(numbered)) : FirstRows(numbered, first)
    BY <1>3
  <1>5. /\ [i \in Invoices |-> db[i].official] = [i \in Invoices |-> IF i \in numbered THEN first[i] ELSE 0]
        /\ {i \in Invoices : db[i].status = "finalized"} \in SUBSET numbered
        /\ db[Sequence] = Cardinality(numbered) + 1
    BY <1>4 DEF FirstRows
  <1>6. Register!Init
    BY <1>5, RegisterOperators DEF Register!Init
  <1>7. QED
    BY <1>2, <1>6 DEF RegisterInv

(* A commit enters the invoices the transaction has written. *)
LEMMA CommitEnters ==
    ASSUME Types, NumberInv, NumberedInv, RegisterInv, NEW c \in Clients, Commit(c)
    PROVE  [Register!Next]_(Register!registerVars)
  <1> USE DEF Types
  <1> DEFINE t == tx[c]
             S == Invoices \cap DOMAIN t.own
             number == [i \in Invoices |-> db[i].official]
             finalized == {i \in Invoices : db[i].status = "finalized"}
             new == [i \in Fresh(t) |-> t.own[i].official]
  <1>1. \A r \in Rows : db'[r] = View(c, r)
    BY CommitType
  <1>2. RegisterOK(t) /\ t.pc = "commit" /\ t \in Transactions /\ Consistent(t)
    BY DEF RegisterInv, Commit, At, TxOK
  <1>3. \A i \in Invoices : db'[i] = IF i \in S THEN t.own[i] ELSE db[i]
    BY <1>1 DEF View, Rows
  <1>4. Fresh(t) \subseteq S
    BY DEF Fresh
  <1>5. Bound(t) = db[Sequence] + Cardinality(Fresh(t)) /\ db'[Sequence] = Bound(t)
    <2>1. Pending(t) = 0 /\ db[Sequence] \in Nat /\ Cardinality(Fresh(t)) \in Nat
      BY <1>2, SequenceType, FreshIsFinite DEF Pending, Positive
    <2>2. db'[Sequence] = Bound(t)
      BY <1>1, SequenceType DEF Rows
    <2>3. QED
      BY <1>2, <2>1, <2>2 DEF RegisterOK
  <1>6. \A i \in S \ Fresh(t) : db'[i].official = db[i].official
    BY <1>2, <1>3 DEF RegisterOK
  <1>7. number' = [i \in Invoices |-> IF i \in Fresh(t) THEN new[i] ELSE number[i]]
    <2>1. \A i \in Invoices : db'[i].official = IF i \in Fresh(t) THEN new[i] ELSE db[i].official
      BY <1>3, <1>4, <1>6
    <2>2. QED
      BY <2>1
  <1>8. new \in Injection(Fresh(t), db[Sequence] .. db[Sequence] + Cardinality(Fresh(t)) - 1)
    <2>1. \A i \in S : t.own[i].official \in Nat
      <3>1. \A i \in S : t.own[i] \in InvoiceRows
        BY <1>2, ValueOf DEF Consistent
      <3>2. QED
        BY <3>1 DEF InvoiceRows
    <2>2. \A i \in Fresh(t) : t.own[i].official \in Positive /\ t.own[i].official >= db[Sequence]
      BY <1>4, <2>1, SequenceType DEF Fresh, Positive
    <2>3. \A i \in Fresh(t) : Holds(t, i, t.own[i].official)
      BY <1>4 DEF Holds
    <2>4. \A i \in Fresh(t) : t.own[i].official < Bound(t)
      BY <1>4, <2>2, <2>3 DEF NumberInv
    <2>5. \A i, j \in Fresh(t) : t.own[i].official = t.own[j].official => i = j
      BY <1>4, <2>2, <2>3 DEF NumberInv, Claim
    <2>6. db[Sequence] \in Nat /\ Cardinality(Fresh(t)) \in Nat
      BY SequenceType, FreshIsFinite DEF Positive
    <2>7. \A i \in Fresh(t) : new[i] \in db[Sequence] .. db[Sequence] + Cardinality(Fresh(t)) - 1
      BY <1>5, <2>2, <2>4, <2>6 DEF Positive
    <2>8. QED
      BY <2>5, <2>7 DEF Injection, IsInjective
  <1>9. CASE t.op \in FinalizeOps
    <2>1. finalized' = finalized \cup S
      BY <1>2, <1>3, <1>9 DEF RegisterOK
    <2>2. \A i \in S \ Fresh(t) : number[i] # 0
      <3>1. \A i \in S : t.own[i].status = "finalized"
        BY <1>2, <1>9 DEF RegisterOK
      <3>2. \A i \in S : t.own[i].official # 0
        BY <3>1 DEF NumberedInv
      <3>3. QED
        BY <1>2, <3>2 DEF RegisterOK
    <2>3. PICK T \in SUBSET Invoices, F \in SUBSET Invoices : T = S /\ F = Fresh(t)
      BY DEF Fresh
    <2>4. F \in SUBSET T /\ Register!Issue(T, F)
      BY <1>4, <1>5, <1>7, <1>8, <2>1, <2>2, <2>3, RegisterOperators DEF Register!Issue
    <2>5. QED
      BY <2>4 DEF Register!Next
  <1>10. CASE t.op \notin FinalizeOps
    <2>1. Fresh(t) = {}
      BY <1>2, <1>10 DEF RegisterOK
    <2>2. number' = number
      BY <1>7, <2>1
    <2>3. db'[Sequence] = db[Sequence]
      BY <1>5, <2>1, FS_EmptySet, SequenceType DEF Positive
    <2>4. CASE t.op = "reset"
      <3>1. finalized' = finalized \ S
        BY <1>2, <1>3, <1>10, <2>4 DEF RegisterOK
      <3>2. PICK T \in SUBSET Invoices : T = S
        OBVIOUS
      <3>3. Register!Reopen(T)
        BY <2>2, <2>3, <3>1, <3>2 DEF Register!Reopen
      <3>4. QED
        BY <3>3 DEF Register!Next
    <2>5. CASE t.op # "reset"
      <3>1. finalized' = finalized
        BY <1>2, <1>3, <1>10, <2>5 DEF RegisterOK
      <3>2. QED
        BY <2>2, <2>3, <3>1 DEF Register!registerVars
    <2>6. QED
      BY <2>4, <2>5
  <1>11. QED
    BY <1>9, <1>10

(* However requests overlap, abort or crash, the committed numbers are     *)
(* those of a register: every number taken is entered, none is lost, and   *)
(* none is given twice (generate_official_invoice_no).                     *)
THEOREM ImplementsNumberRegister == Spec => ImplementsRegister
  <1>1. ASSUME Types, NumberInv, NumberedInv, RegisterInv, [Next]_vars
        PROVE  [Register!Next]_(Register!registerVars)
    <2>1. CASE \E c \in Clients : Commit(c)
      BY <1>1, <2>1, CommitEnters
    <2>2. CASE ~\E c \in Clients : Commit(c)
      <3>1. UNCHANGED db
        BY <1>1, <2>2 DEF Next, Step, Begin, LoadInvoice, TakeNumber, SaveInvoice, LoadLines,
             ComputeSync, ApplySync, AbortVictim, Crash, Rollback, Continue, vars
      <3>2. QED
        BY <3>1 DEF Register!registerVars
    <2>3. QED
      BY <2>1, <2>2
  <1>2. QED
    BY <1>1, RegisterStarts, StepRegisterInv, NumberInvHolds, NumberedInvHolds, PTL
       DEF Spec, ImplementsRegister, Register!Spec

-----------------------------------------------------------------------------
(* Requests come closer to their end, and nobody waits in vain.            *)

LEMMA ListLength ==
    ASSUME NEW t \in Transactions
    PROVE  /\ Len(t.todo) \in Nat
           /\ Consistent(t) /\ t.pc \in Busy => Len(t.todo) >= 1
  <1>1. t.todo \in Seq(Invoices)
    BY DEF Transactions
  <1>2. Len(t.todo) \in Nat /\ (t.todo # << >> => Len(t.todo) # 0)
    BY <1>1, LenProperties, EmptySeq
  <1>3. QED
    BY <1>2 DEF Consistent

(* Skipping an invoice is progress from any statement about it. *)
LEMMA SkipShrinks ==
    ASSUME NEW t \in Transactions, Consistent(t), t.pc \in Busy
    PROVE  Remaining(Skip(t)) < 6 * Len(t.todo) + 2
  <1>1. t.todo \in Seq(Invoices) /\ t.todo # << >>
    BY DEF Transactions, Consistent
  <1>2. /\ Skip(t).todo = Tail(t.todo)
        /\ Skip(t).pc \in {"load", "commit"}
    BY SkipType DEF Skip, Transactions
  <1>3. Len(Tail(t.todo)) = Len(t.todo) - 1 /\ Len(t.todo) \in Nat
    BY <1>1, HeadTailProperties, LenProperties
  <1>4. StepsLeft[Skip(t).pc] \in {1, 7}
    BY <1>2 DEF StepsLeft
  <1> DEFINE n == Len(t.todo)
             m == Len(Skip(t).todo)
             k == StepsLeft[Skip(t).pc]
  <1>5. n \in Nat /\ m = n - 1 /\ k \in {1, 7}
    BY <1>2, <1>3, <1>4
  <1> HIDE DEF n, m, k
  <1>6. 6 * m + k < 6 * n + 2
    BY <1>5
  <1>7. QED
    BY <1>6 DEF Remaining, n, m, k

(* A statement about the same list that is further on is progress. *)
LEMMA AdvanceShrinks ==
    ASSUME NEW t \in Transactions, NEW u, u.todo = t.todo,
           StepsLeft[u.pc] \in Nat, StepsLeft[t.pc] \in Nat, StepsLeft[u.pc] < StepsLeft[t.pc]
    PROVE  Remaining(u) < Remaining(t)
  <1> DEFINE n == Len(t.todo)
             a == StepsLeft[u.pc]
             b == StepsLeft[t.pc]
  <1>1. n \in Nat /\ a \in Nat /\ b \in Nat /\ a < b
    BY ListLength
  <1> HIDE DEF n, a, b
  <1>2. 6 * n + a < 6 * n + b
    BY <1>1
  <1>3. QED
    BY <1>2 DEF Remaining, n, a, b

LEMMA EndShrinks ==
    ASSUME NEW t \in Transactions, t.pc # "idle"
    PROVE  Remaining(Idle) < Remaining(t)
  <1>1. Remaining(Idle) = 0
    <2>1. Len(<< >>) = 0
      OBVIOUS
    <2>2. QED
      BY <2>1 DEF Remaining, Idle, StepsLeft
  <1>2. t.pc \in Steps \ {"idle"}
    BY DEF Transactions
  <1>3. StepsLeft[t.pc] \in 1 .. 7
    BY <1>2 DEF StepsLeft, Steps
  <1>4. Len(t.todo) \in Nat
    BY ListLength
  <1>5. Remaining(t) > 0
    BY <1>3, <1>4 DEF Remaining
  <1>6. QED
    BY <1>1, <1>5

LEMMA StepShrinks ==
    ASSUME RowsOK, TxOK, NEW c \in Clients, Step(c)
    PROVE  /\ ~At(c, "idle")
           /\ \A d \in Clients \ {c} : tx'[d] = tx[d]
           /\ Remaining(tx'[c]) < Remaining(tx[c])
           /\ tx'[c] = Idle \/ tx'[c].pc # "idle"
  <1> DEFINE t == tx[c]
  <1>1. t \in Transactions /\ Consistent(t) /\ tx \in [Clients -> Transactions]
    BY DEF TxOK
  <1>2. ASSUME NEW u, Continue(c, u)
        PROVE  tx'[c] = u /\ \A d \in Clients \ {c} : tx'[d] = tx[d]
    BY <1>1, <1>2 DEF Continue
  <1>3. /\ StepsLeft["load"] = 7 /\ StepsLeft["number"] = 6 /\ StepsLeft["save"] = 5
        /\ StepsLeft["lines"] = 4 /\ StepsLeft["flags"] = 3 /\ StepsLeft["apply"] = 2
        /\ StepsLeft["commit"] = 1
    BY DEF StepsLeft
  <1>4. CASE LoadInvoice(c)
    <2>1. t.pc = "load"
      BY <1>4 DEF LoadInvoice, At
    <2> DEFINE row == View(c, Target(t))
               u == [t EXCEPT !.snap = row,
                              !.pc = IF t.op \in FinalizeOps /\ row.official = 0
                                     THEN "number" ELSE "save"]
    <2>2. CASE Refused(t.op, row)
      <3>1. tx'[c] = Skip(t) /\ \A d \in Clients \ {c} : tx'[d] = tx[d]
        BY <1>2, <1>4, <2>2 DEF LoadInvoice
      <3>2. Remaining(Skip(t)) < 6 * Len(t.todo) + 2 /\ Skip(t).pc # "idle"
        BY <1>1, <2>1, SkipShrinks, SkipType DEF Busy
      <3>3. Remaining(Skip(t)) < Remaining(t)
        <4>1. Remaining(t) = 6 * Len(t.todo) + 7 /\ Len(t.todo) \in Nat
          BY <1>1, <1>3, <2>1, ListLength DEF Remaining
        <4>2. Len(Skip(t).todo) \in Nat /\ StepsLeft[Skip(t).pc] \in {1, 7}
          <5>1. Skip(t) \in Transactions /\ Skip(t).pc \in {"load", "commit"}
            BY <1>1, <2>1, SkipType DEF Busy
          <5>2. QED
            BY <1>3, <5>1, ListLength
        <4>3. Remaining(Skip(t)) \in Nat
          BY <4>2 DEF Remaining
        <4> DEFINE n == Len(t.todo)
                   r == Remaining(Skip(t))
        <4>4. n \in Nat /\ r \in Nat /\ r < 6 * n + 2 /\ Remaining(t) = 6 * n + 7
          BY <3>2, <4>1, <4>3
        <4> HIDE DEF n, r
        <4>5. r < 6 * n + 7
          BY <4>4
        <4>6. QED
          BY <4>4, <4>5 DEF r
      <3>4. QED
        BY <2>1, <3>1, <3>2, <3>3 DEF At
    <2>3. CASE ~Refused(t.op, row)
      <3>1. tx'[c] = u /\ \A d \in Clients \ {c} : tx'[d] = tx[d]
        BY <1>2, <1>4, <2>3 DEF LoadInvoice
      <3>2. u.todo = t.todo /\ u.pc \in {"number", "save"}
        BY <1>1 DEF Transactions
      <3> HIDE DEF u
      <3>3. Remaining(u) < Remaining(t)
        BY <1>1, <1>3, <2>1, <3>2, AdvanceShrinks
      <3>4. QED
        BY <2>1, <3>1, <3>2, <3>3 DEF At
    <2>4. QED
      BY <2>2, <2>3
  <1>5. CASE TakeNumber(c)
    <2> DEFINE u == [t EXCEPT !.taken = View(c, Sequence),
                              !.own = Over(Row(Sequence, View(c, Sequence) + 1), @),
                              !.pc = "save"]
    <2>1. t.pc = "number" /\ tx'[c] = u /\ \A d \in Clients \ {c} : tx'[d] = tx[d]
      BY <1>2, <1>5 DEF TakeNumber, At
    <2>2. u.todo = t.todo /\ u.pc = "save"
      BY <1>1 DEF Transactions
    <2> HIDE DEF u
    <2>3. Remaining(u) < Remaining(t)
      BY <1>1, <1>3, <2>1, <2>2, AdvanceShrinks
    <2>4. QED
      BY <2>1, <2>2, <2>3 DEF At
  <1>6. CASE SaveInvoice(c)
    <2> DEFINE u == [t EXCEPT
                 !.own = Over(Row(Target(t), Saved(t, View(c, Target(t)))), @),
                 !.answer = Answer(t),
                 !.pc = IF t.op = "unlock" THEN "commit" ELSE "lines"]
    <2>1. t.pc = "save" /\ tx'[c] = u /\ \A d \in Clients \ {c} : tx'[d] = tx[d]
      BY <1>2, <1>6 DEF SaveInvoice, At
    <2>2. u.todo = t.todo /\ u.pc \in {"commit", "lines"}
      BY <1>1 DEF Transactions
    <2> HIDE DEF u
    <2>3. Remaining(u) < Remaining(t)
      BY <1>1, <1>3, <2>1, <2>2, AdvanceShrinks
    <2>4. QED
      BY <2>1, <2>2, <2>3 DEF At
  <1>7. CASE LoadLines(c)
    <2> DEFINE u == [t EXCEPT !.seen = Over(@, [l \in Lines |-> View(c, l)]), !.pc = "flags"]
    <2>1. t.pc = "lines" /\ tx'[c] = u /\ \A d \in Clients \ {c} : tx'[d] = tx[d]
      BY <1>2, <1>7 DEF LoadLines, At
    <2>2. u.todo = t.todo /\ u.pc = "flags"
      BY <1>1 DEF Transactions
    <2> HIDE DEF u
    <2>3. Remaining(u) < Remaining(t)
      BY <1>1, <1>3, <2>1, <2>2, AdvanceShrinks
    <2>4. QED
      BY <2>1, <2>2, <2>3 DEF At
  <1>8. CASE ComputeSync(c)
    <2>1. PICK goal, plan : Continue(c, [t EXCEPT !.seen = goal, !.plan = plan, !.pc = "apply"])
      BY <1>8 DEF ComputeSync
    <2> DEFINE u == [t EXCEPT !.seen = goal, !.plan = plan, !.pc = "apply"]
    <2>2. t.pc = "flags" /\ tx'[c] = u /\ \A d \in Clients \ {c} : tx'[d] = tx[d]
      BY <1>2, <1>8, <2>1 DEF ComputeSync, At
    <2>3. u.todo = t.todo /\ u.pc = "apply"
      BY <1>1 DEF Transactions
    <2> HIDE DEF u
    <2>4. Remaining(u) < Remaining(t)
      BY <1>1, <1>3, <2>2, <2>3, AdvanceShrinks
    <2>5. QED
      BY <2>2, <2>3, <2>4 DEF At
  <1>9. CASE ApplySync(c)
    <2> DEFINE u == [t EXCEPT !.own = Over(t.plan, @), !.plan = << >>]
    <2>1. t.pc = "apply" /\ tx'[c] = Skip(u) /\ \A d \in Clients \ {c} : tx'[d] = tx[d]
      BY <1>2, <1>9 DEF ApplySync, At
    <2>2. /\ Skip(u).todo = Skip(t).todo
          /\ Skip(u).pc = Skip(t).pc
      BY <1>1 DEF Skip, Transactions
    <2>3. Remaining(Skip(u)) = Remaining(Skip(t))
      BY <2>2 DEF Remaining
    <2>4. /\ Remaining(Skip(t)) < 6 * Len(t.todo) + 2
          /\ Skip(t).pc # "idle"
      BY <1>1, <2>1, SkipShrinks, SkipType DEF Busy
    <2>5. Remaining(t) = 6 * Len(t.todo) + 2
      BY <1>3, <2>1 DEF Remaining
    <2>6. QED
      BY <2>1, <2>2, <2>3, <2>4, <2>5 DEF At
  <1>10. CASE Commit(c)
    <2>1. t.pc # "idle" /\ tx' = [tx EXCEPT ![c] = Idle]
      BY <1>10 DEF Commit, At
    <2>2. QED
      BY <1>1, <2>1, EndShrinks DEF At
  <1>11. QED
    BY <1>4, <1>5, <1>6, <1>7, <1>8, <1>9, <1>10 DEF Step

(* What a step does to the transactions, whoever takes it. *)
LEMMA NextShrinks ==
    ASSUME RowsOK, TxOK, [Next]_vars, NEW c \in Clients, tx'[c] # tx[c]
    PROVE  /\ tx'[c] = Idle \/ tx'[c].pc # "idle"
           /\ ~At(c, "idle") => Remaining(tx'[c]) < Remaining(tx[c])
  <1>1. tx \in [Clients -> Transactions]
    BY DEF TxOK
  <1>2. ASSUME NEW d \in Clients, Begin(d)
        PROVE  At(c, "idle") /\ tx'[c].pc = "load"
    <2>1. PICK r \in Requests :
            tx' = [tx EXCEPT ![d] =
                     [Idle EXCEPT !.at = commits, !.op = r.op, !.todo = r.invoices, !.pc = "load"]]
      BY <1>2 DEF Begin
    <2>2. c = d
      BY <1>1, <2>1
    <2>3. tx'[c] = [Idle EXCEPT !.at = commits, !.op = r.op, !.todo = r.invoices, !.pc = "load"]
      BY <1>1, <2>1, <2>2
    <2>4. tx'[c].pc = "load"
      BY <2>3 DEF Idle
    <2>5. QED
      BY <1>2, <2>2, <2>4 DEF Begin
  <1>3. ASSUME NEW d \in Clients, Step(d)
        PROVE  /\ Remaining(tx'[c]) < Remaining(tx[c])
               /\ tx'[c] = Idle \/ tx'[c].pc # "idle"
    BY <1>3, StepShrinks
  <1>4. ASSUME NEW d \in Clients, AbortVictim(d) \/ Crash(d)
        PROVE  tx'[c] = Idle
    BY <1>1, <1>4 DEF AbortVictim, Crash, Rollback, Continue
  <1>5. tx[c].pc # "idle" => Remaining(Idle) < Remaining(tx[c])
    BY <1>1, EndShrinks
  <1>6. CASE UNCHANGED vars
    BY <1>6 DEF vars
  <1>7. CASE Next
    <2>1. PICK d \in Clients : Begin(d) \/ Step(d) \/ AbortVictim(d) \/ Crash(d)
      BY <1>7 DEF Next
    <2>2. CASE Begin(d)
      BY <1>2, <2>2
    <2>3. CASE Step(d)
      BY <1>3, <2>3
    <2>4. CASE AbortVictim(d) \/ Crash(d)
      BY <1>4, <1>5, <2>4 DEF At
    <2>5. QED
      BY <2>1, <2>2, <2>3, <2>4
  <1>8. QED
    BY <1>6, <1>7

(* Whatever other requests do, each statement of a request that runs       *)
(* (api/routes_invoices.py, finalize, batch, reset and unlock) brings it   *)
(* closer to its end; only RequestsEnd itself is left to TLC.              *)
THEOREM StatementsRunOut == Spec => RequestsShrink
  <1>1. ASSUME RowsOK, TxOK, [Next]_vars
        PROVE  [\A c \in Clients :
                  ~At(c, "idle") /\ tx'[c] # tx[c] => Remaining(tx'[c]) < Remaining(tx[c])]_vars
    BY <1>1, NextShrinks
  <1>2. QED
    BY <1>1, TypesHold, PTL DEF Spec, RequestsShrink

(* Only a request in flight holds rows. *)
HoldersInv == \A c \in Clients : DOMAIN tx[c].own # {} => ~At(c, "idle")

LEMMA HoldersAtWork == Spec => []HoldersInv
  <1>1. DOMAIN Idle.own = {}
    BY NothingWritten DEF Idle
  <1>2. Init => HoldersInv
    BY <1>1, InitRows DEF HoldersInv
  <1>3. RowsOK /\ TxOK /\ HoldersInv /\ [Next]_vars => HoldersInv'
    <2> SUFFICES ASSUME RowsOK, TxOK, HoldersInv, [Next]_vars, NEW c \in Clients
                 PROVE  DOMAIN tx'[c].own # {} => tx'[c].pc # "idle"
      BY DEF HoldersInv, At
    <2>1. CASE tx'[c] = tx[c]
      BY <2>1 DEF HoldersInv, At
    <2>2. CASE tx'[c] # tx[c]
      BY <1>1, <2>2, NextShrinks
    <2>3. QED
      BY <2>1, <2>2
  <1>4. QED
    BY <1>2, <1>3, TypesHold, PTL DEF Spec

-----------------------------------------------------------------------------
LEMMA AheadIsClosed ==
    ASSUME NEW c \in Clients
    PROVE  /\ WaitsFor(c) \subseteq Ahead(c)
           /\ \A d \in Ahead(c) : WaitsFor(d) \subseteq Ahead(c)
           /\ Ahead(c) \subseteq Clients
  BY DEF Ahead, WaitsFor

LEMMA AheadIsLeast ==
    ASSUME NEW c \in Clients, NEW S \in SUBSET Clients,
           WaitsFor(c) \subseteq S, \A d \in S : WaitsFor(d) \subseteq S
    PROVE  Ahead(c) \subseteq S
  BY DEF Ahead

(* Among finitely many clients that all wait for one another's rows, one   *)
(* waits for itself: it is on a cycle that has the fewest ahead.           *)
LEMMA WaitersHaveACycle ==
    ASSUME NEW A \in SUBSET Clients, A # {},
           \A d \in A : WaitsFor(d) # {} /\ WaitsFor(d) \subseteq A
    PROVE  \E d \in A : InDeadlock(d)
  <1>1. \A d \in A : Ahead(d) \subseteq A
    BY AheadIsLeast
  <1>2. \A d \in A : IsFiniteSet(Ahead(d)) /\ Cardinality(Ahead(d)) \in Nat
    BY ClientsAssumption, AheadIsClosed, FS_Subset, FS_CardinalityType DEF ClientsAssumption
  <1> DEFINE Sizes == {Cardinality(Ahead(d)) : d \in A}
  <1>3. Sizes \in SUBSET Nat /\ Sizes # {}
    BY <1>2
  <1>4. \E n \in Sizes : \A m \in Sizes : ~(<<m, n>> \in OpToRel(<, Nat))
    BY <1>3, WFMin, NatLessThanWellFounded
  <1>5. PICK n \in Sizes : \A m \in Sizes : ~(m < n)
    BY <1>3, <1>4 DEF OpToRel
  <1>6. PICK d \in A : n = Cardinality(Ahead(d))
    BY <1>5
  <1>7. PICK e \in A : e \in WaitsFor(d)
    OBVIOUS
  <1>8. e \in Ahead(d) /\ Ahead(e) \subseteq Ahead(d)
    BY <1>7, AheadIsClosed, AheadIsLeast
  <1>9. Cardinality(Ahead(e)) <= n /\ ~(Cardinality(Ahead(e)) < n)
    BY <1>2, <1>5, <1>6, <1>8, FS_Subset
  <1>10. Cardinality(Ahead(e)) = Cardinality(Ahead(d))
    BY <1>2, <1>6, <1>9
  <1>11. Ahead(e) = Ahead(d)
    BY <1>2, <1>8, <1>10, FS_Subset
  <1>12. QED
    BY <1>8, <1>11 DEF InDeadlock

(* A request in flight that cannot take its next statement waits, maybe    *)
(* through others, for one that can or for a deadlock, and PostgreSQL      *)
(* breaks deadlocks: no row stays locked by a request that has ended.      *)
THEOREM NobodyWaitsInVain == Spec => []WaitsAreResolved
  <1>1. HoldersInv => WaitsAreResolved
    <2> SUFFICES ASSUME HoldersInv, NEW c \in Clients, ~At(c, "idle"),
                        \A d \in {c} \cup Ahead(c) : ~CanGoOn(d)
                 PROVE  \E d \in {c} \cup Ahead(c) : InDeadlock(d)
      BY DEF WaitsAreResolved
    <2> DEFINE A == {c} \cup Ahead(c)
               AtWork == {d \in Clients : ~At(d, "idle")}
    <2>1. \A d \in Clients : WaitsFor(d) \subseteq AtWork
      BY DEF WaitsFor, HoldersInv
    <2>2. A \subseteq AtWork
      BY <2>1, AheadIsLeast
    <2>3. \A d \in A : WaitsFor(d) \subseteq A
      BY AheadIsClosed
    <2>4. \A d \in A : WaitsFor(d) # {}
      <3> TAKE d \in A
      <3>1. d \in Clients /\ ~At(d, "idle") /\ ~CanGoOn(d)
        BY <2>2
      <3>2. PICK r \in Wanted(d) : ~Free(d, r)
        BY <3>1 DEF CanGoOn
      <3>3. PICK e \in Clients \ {d} : r \in DOMAIN tx[e].own
        BY <3>2 DEF Free
      <3>4. e \in WaitsFor(d)
        BY <3>2, <3>3 DEF WaitsFor
      <3>5. QED
        BY <3>4
    <2>5. A \in SUBSET Clients /\ A # {}
      BY <2>2
    <2>6. QED
      BY <2>3, <2>4, <2>5, WaitersHaveACycle
  <1>2. QED
    BY <1>1, HoldersAtWork, PTL

=============================================================================
