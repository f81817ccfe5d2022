--------------------------- MODULE InvoiceRequests ---------------------------
(***************************************************************************)
(* Finalize, batch finalize, reset and unlock requests whose database      *)
(* transactions overlap.                                                   *)
(*                                                                         *)
(* Every request runs in one session of db/session.py: autoflush is off,   *)
(* the database isolates at READ COMMITTED, a row that was updated stays   *)
(* locked to other writers until the transaction ends, and an UPDATE       *)
(* writes only the columns whose value differs from the one loaded.  A     *)
(* step of this module is one statement, or a few statements that read,    *)
(* of one transaction.  The invoices all bill lines of one shipped order,  *)
(* and their drafts exist; the rest of the system is in OrderBilling.      *)
(***************************************************************************)
EXTENDS Naturals, FiniteSets, Sequences, Functions

CONSTANTS
    Clients,        \* requests served at the same time
    Invoices,       \* the draft or finalized invoices of one order
    Lines,          \* the lines of that order
    ItemsOf,        \* the lines each invoice bills
    Order,          \* the order's own row
    Sequence,       \* the row of invoice_number_sequences for the year
    Requests,       \* the requests clients send
    MaxRequests     \* how many requests each client may send

ASSUME ItemsAssumption ==
    ItemsOf \in [Invoices -> SUBSET Lines] /\ \A i \in Invoices : ItemsOf[i] # {}
ASSUME RowsAssumption ==
    /\ IsFiniteSet(Invoices) /\ Invoices \cap Lines = {}
    /\ Order # Sequence /\ {Order, Sequence} \cap (Invoices \cup Lines) = {}
ASSUME RequestsAssumption ==
    \A r \in Requests : /\ r.op \in {"finalize", "finalize_batch", "reset", "unlock"}
                        /\ r.invoices \in Seq(Invoices) \ {<< >>}
ASSUME ClientsAssumption == IsFiniteSet(Clients)
ASSUME MaxRequestsAssumption == MaxRequests \in [Clients -> Nat]

VARIABLES
    db,         \* the committed value of every row
    tx,         \* the transaction of each client
    sent,       \* how many requests each client has sent
    answered,   \* the <<invoice, number>> pairs answered to finalize requests
    commits     \* how many transactions have committed

vars == <<db, tx, sent, answered, commits>>

Rows == Invoices \cup Lines \cup {Order, Sequence}

InvoiceRows == [status : {"draft", "finalized"}, locked : BOOLEAN, official : Nat]

(* A transaction: how many committed before it began, the operation, the   *)
(* invoices it still is for (only finalize_batch may have several), the    *)
(* next statement, the invoice as it was loaded, the number just taken for *)
(* it (0: none), the rows written and not committed, the order's rows as   *)
(* they are in the session's memory, the changes to flush and the number   *)
(* to answer with.                                                         *)
Idle == [at |-> 0, op |-> "none", todo |-> << >>, pc |-> "idle", snap |-> << >>, taken |-> 0,
         own |-> << >>, seen |-> << >>, plan |-> << >>, answer |-> {}]

FinalizeOps == {"finalize", "finalize_batch"}

(* Rows written put over rows as they were, and a single row. *)
Over(new, old) ==
    [r \in DOMAIN new \cup DOMAIN old |-> IF r \in DOMAIN new THEN new[r] ELSE old[r]]
Row(r, value) == [q \in {r} |-> value]

(* What client c reads: its own flushed writes, else what is committed. *)
View(c, r) == IF r \in DOMAIN tx[c].own THEN tx[c].own[r] ELSE db[r]

(* No other transaction has updated row r and not ended yet. *)
Free(c, r) == \A d \in Clients \ {c} : r \notin DOMAIN tx[d].own

TypeOK ==
    /\ \A i \in Invoices : db[i] \in InvoiceRows
    /\ \A r \in Lines \cup {Order} : db[r] \in {"shipped", "invoiced"}
    /\ db[Sequence] \in Nat \ {0}
    /\ \A c \in Clients :
         /\ tx[c].pc \in {"idle", "load", "number", "save", "lines", "flags", "apply", "commit"}
         /\ tx[c].at \in 0 .. commits
         /\ DOMAIN tx[c].own \subseteq Rows
         /\ DOMAIN tx[c].seen \subseteq Lines \cup {Order}
    /\ \A c \in Clients : sent[c] \in 0 .. MaxRequests[c]

-----------------------------------------------------------------------------
BilledBy(rows) ==
    UNION {ItemsOf[i] : i \in {j \in Invoices : rows[j].status = "finalized"}}

(* Between requests: any mix of fresh drafts, drafts that were finalized   *)
(* before, finalized and unlocked invoices, numbered 1, 2, ..., with the   *)
(* lines and the order as _sync_order_statuses_for_invoice leaves them.    *)
Init ==
    \E numbered \in SUBSET Invoices :
      \E number \in Bijection(numbered, 1 .. Cardinality(numbered)),
         finalized \in SUBSET numbered :
      \E locked \in SUBSET finalized :
        LET rows == [i \in Invoices |->
              [status |-> IF i \in finalized THEN "finalized" ELSE "draft",
               locked |-> i \in locked,
               official |-> IF i \in numbered THEN number[i] ELSE 0]]
        IN
        /\ db = [r \in Rows |->
             CASE r \in Invoices -> rows[r]
               [] r \in Lines -> IF r \in BilledBy(rows) THEN "invoiced" ELSE "shipped"
               [] r = Order -> IF BilledBy(rows) = Lines THEN "invoiced" ELSE "shipped"
               [] r = Sequence -> Cardinality(numbered) + 1]
        /\ tx = [c \in Clients |-> Idle]
        /\ sent = [c \in Clients |-> 0]
        /\ answered = {}
        /\ commits = 0

-----------------------------------------------------------------------------
At(c, step) == tx[c].pc = step
Target(t) == Head(t.todo)

(* The transaction goes on as record t; nothing is committed. *)
Continue(c, t) == tx' = [tx EXCEPT ![c] = t] /\ UNCHANGED <<db, sent, answered, commits>>

Begin(c) ==
    /\ At(c, "idle")
    /\ sent[c] < MaxRequests[c]
    /\ \E r \in Requests :
         tx' = [tx EXCEPT ![c] =
                  [Idle EXCEPT !.at = commits, !.op = r.op, !.todo = r.invoices, !.pc = "load"]]
    /\ sent' = [sent EXCEPT ![c] = @ + 1]
    /\ UNCHANGED <<db, answered, commits>>

(* The 409 guards at the head of the three handlers. *)
Refused(op, row) ==
    CASE op \in FinalizeOps -> row.status # "draft" \/ row.locked
      [] op = "reset"    -> row.status # "finalized"
      [] op = "unlock"   -> row.status # "finalized" \/ ~row.locked

(* Mutant: a refused invoice of a batch is tried again. *)
Skip_Stays(t) ==
    IF Len(t.todo) = 1 THEN [t EXCEPT !.todo = << >>, !.snap = << >>, !.taken = 0, !.pc = "commit"]
    ELSE [t EXCEPT !.snap = << >>, !.taken = 0, !.pc = "load"]

(* A refused invoice is skipped in a batch and ends a single request. *)
Skip(t) == [t EXCEPT !.todo = Tail(@), !.snap = << >>, !.taken = 0,
                     !.pc = IF Len(t.todo) = 1 THEN "commit" ELSE "load"]

LoadInvoice(c) ==
    /\ At(c, "load")
    /\ LET t == tx[c]
           row == View(c, Target(t))
       IN  Continue(c,
             IF Refused(t.op, row) THEN Skip(t)
             ELSE [t EXCEPT !.snap = row,
                            !.pc = IF t.op \in FinalizeOps /\ row.official = 0
                                   THEN "number" ELSE "save"])

(* Mutant: the sequence is read without waiting for its row. *)
TakeNumber_Unlocked(c) ==
    /\ At(c, "number")
    /\ Continue(c, [tx[c] EXCEPT !.taken = db[Sequence],
                                 !.own = Over(Row(Sequence, db[Sequence] + 1), @),
                                 !.pc = "save"])

(* generate_official_invoice_no: the upsert waits for the sequence row and *)
(* keeps it until the transaction ends.                                    *)
TakeNumber(c) ==
    /\ At(c, "number")
    /\ Free(c, Sequence)
    /\ Continue(c, [tx[c] EXCEPT !.taken = View(c, Sequence),
                                 !.own = Over(Row(Sequence, View(c, Sequence) + 1), @),
                                 !.pc = "save"])

(* Mutant: an unlock writes a status of its own. *)
Saved_Unlocked(t, row) ==
    CASE t.op \in FinalizeOps ->
           [status |-> "finalized", locked |-> TRUE,
            official |-> IF t.taken # 0 THEN t.taken ELSE row.official]
      [] t.op = "reset"  ->
           [row EXCEPT !.status = "draft", !.locked = IF t.snap.locked THEN FALSE ELSE @]
      [] t.op = "unlock" ->
           [row EXCEPT !.status = "unlocked", !.locked = FALSE]

(* The columns the handler changed, put over the row as it is now. *)
Saved(t, row) ==
    CASE t.op \in FinalizeOps ->
           [status |-> "finalized", locked |-> TRUE,
            official |-> IF t.taken # 0 THEN t.taken ELSE row.official]
      [] t.op = "reset"  ->
           [row EXCEPT !.status = "draft", !.locked = IF t.snap.locked THEN FALSE ELSE @]
      [] t.op = "unlock" ->
           [row EXCEPT !.locked = FALSE]

(* The number in the answer is the one in the session's memory. *)
Answer(t) ==
    IF t.op = "finalize"
    THEN {<<Target(t), IF t.taken # 0 THEN t.taken ELSE t.snap.official>>} ELSE {}

(* db.flush() of the invoice: waits for the row, then writes it. *)
SaveInvoice(c) ==
    /\ At(c, "save")
    /\ Free(c, Target(tx[c]))
    /\ LET t == tx[c] IN
       Continue(c, [t EXCEPT
         !.own = Over(Row(Target(t), Saved(t, View(c, Target(t)))), @),
         !.answer = Answer(t),
         !.pc = IF t.op = "unlock" THEN "commit" ELSE "lines"])

(* The sync reads the lines.  Rows the session has loaded before keep the  *)
(* values they have in memory.                                             *)
LoadLines(c) ==
    /\ At(c, "lines")
    /\ Continue(c, [tx[c] EXCEPT !.seen = Over(@, [l \in Lines |-> View(c, l)]), !.pc = "flags"])

(* Mutant: the invoices are looked up without the request's own writes. *)
ComputeSync_Committed(c) ==
    /\ At(c, "flags")
    /\ LET t == tx[c]
           billed == BilledBy(db)
           seen == Over(t.seen, Row(Order, View(c, Order)))
           goal == [r \in Lines \cup {Order} |->
                      IF (r = Order /\ billed = Lines) \/ r \in billed
                      THEN "invoiced" ELSE "shipped"]
       IN  Continue(c, [t EXCEPT
             !.seen = goal,
             !.plan = Restrict(goal, {r \in DOMAIN goal : goal[r] # seen[r]}),
             !.pc = "apply"])

(* It then looks up the finalized invoices of each line and the order, and *)
(* sets the lines and the order that change.                               *)
ComputeSync(c) ==
    /\ At(c, "flags")
    /\ LET t == tx[c]
           billed == BilledBy([i \in Invoices |-> View(c, i)])
           seen == Over(t.seen, Row(Order, View(c, Order)))
           goal == [r \in Lines \cup {Order} |->
                      IF (r = Order /\ billed = Lines) \/ r \in billed
                      THEN "invoiced" ELSE "shipped"]
       IN  Continue(c, [t EXCEPT
             !.seen = goal,
             !.plan = Restrict(goal, {r \in DOMAIN goal : goal[r] # seen[r]}),
             !.pc = "apply"])

(* The flush at the end of the request, or at the end of a savepoint.  It  *)
(* sends an UPDATE per row and keeps each row while it waits for the next; *)
(* here it waits for all of them first.  The deadlocks this leaves out end *)
(* in the loss of one request, which Crash allows at any time.             *)
ApplySync(c) ==
    /\ At(c, "apply")
    /\ \A r \in DOMAIN tx[c].plan : Free(c, r)
    /\ Continue(c, Skip([tx[c] EXCEPT !.own = Over(tx[c].plan, @), !.plan = << >>]))

Commit(c) ==
    /\ At(c, "commit")
    /\ db' = Over(tx[c].own, db)
    /\ tx' = [tx EXCEPT ![c] = Idle]
    /\ answered' = answered \cup tx[c].answer
    /\ commits' = commits + 1
    /\ UNCHANGED sent

(* Mutant: the sequence is counted up outside the transaction. *)
Rollback_Counted(c) ==
    /\ db' = [db EXCEPT ![Sequence] = View(c, Sequence)]
    /\ tx' = [tx EXCEPT ![c] = Idle]
    /\ UNCHANGED <<sent, answered, commits>>

(* Mutant: a lost transaction goes on holding its rows. *)
Rollback_KeepsRows(c) == Continue(c, [Idle EXCEPT !.own = tx[c].own])

(* The connection or the worker is lost; the transaction is rolled back. *)
Rollback(c) == Continue(c, Idle)

Crash(c) == ~At(c, "idle") /\ Rollback(c)

-----------------------------------------------------------------------------
(* The rows a client's next statement must lock. *)
Wanted(c) ==
    CASE At(c, "number") -> {Sequence}
      [] At(c, "save")   -> {Target(tx[c])}
      [] At(c, "apply")  -> DOMAIN tx[c].plan
      [] OTHER           -> {}

WaitsFor(c) == {d \in Clients \ {c} : Wanted(c) \cap DOMAIN tx[d].own # {}}

(* The clients that c waits for, directly or through others: those in every *)
(* set that has whom c waits for and whom its members wait for.            *)
Ahead(c) ==
    {d \in Clients : \A S \in SUBSET Clients :
       WaitsFor(c) \subseteq S /\ (\A e \in S : WaitsFor(e) \subseteq S) => d \in S}

InDeadlock(c) == c \in Ahead(c)

(* The database finds the cycle and aborts one of its transactions. *)
AbortVictim(c) == InDeadlock(c) /\ Rollback(c)

Step(c) ==
    \/ LoadInvoice(c)
    \/ TakeNumber(c)
    \/ SaveInvoice(c)
    \/ LoadLines(c)
    \/ ComputeSync(c)
    \/ ApplySync(c)
    \/ Commit(c)

Next == \E c \in Clients : Begin(c) \/ Step(c) \/ AbortVictim(c) \/ Crash(c)

(* A request that can go on does, and the database breaks every deadlock.  *)
(* Nothing makes a client send a request or a worker crash.                *)
Fairness == \A c \in Clients : WF_vars(Step(c)) /\ WF_vars(AbortVictim(c))

Spec == Init /\ [][Next]_vars /\ Fairness

-----------------------------------------------------------------------------
(* Properties *)

(* Committed official numbers are distinct and below the sequence, so the  *)
(* next finalize cannot repeat one, whatever requests overlap or crash.    *)
NumbersAreUnique ==
    \A i \in Invoices : db[i].official # 0 =>
        /\ db[i].official < db[Sequence]
        /\ \A j \in Invoices : db[j].official = db[i].official => i = j

(* No official number is ever answered for two invoices.                   *)
AnsweredNumbersAreUnique ==
    \A a, b \in answered : a[2] = b[2] => a[1] = b[1]

(* A finalized invoice has its official number in every committed state.   *)
FinalizedIsNumbered ==
    \A i \in Invoices : db[i].status = "finalized" => db[i].official # 0

(* The lines and the order are invoiced exactly when finalized invoices    *)
(* bill them.                                                              *)
Follows ==
    /\ \A l \in Lines : db[l] = "invoiced" <=> l \in BilledBy(db)
    /\ db[Order] = "invoiced" <=> BilledBy(db) = Lines

Commits(c) == ~At(c, "idle") /\ commits' = commits + 1 /\ tx'[c] = Idle

(* Another request committed after this one began. *)
Stale(c) == tx[c].at # commits

(* The request ran _sync_order_statuses_for_invoice. *)
Synced(c) == Order \in DOMAIN tx[c].seen

(* Line and order statuses that follow the finalized invoices go on doing  *)
(* so, and a sync restores them, unless the request overlaps another that  *)
(* commits: the sync looks at what is committed and at its own writes.     *)
UnsyncedOnlyByStaleRequest ==
    [][\A c \in Clients : Commits(c) /\ ~Stale(c) /\ (Follows \/ Synced(c)) => Follows']_vars

Register ==
    INSTANCE NumberRegister WITH
        number    <- [i \in Invoices |-> db[i].official],
        finalized <- {i \in Invoices : db[i].status = "finalized"},
        next      <- db[Sequence]

(* The committed numbers are those of a register: each transaction enters  *)
(* all the numbers it took or none, a lost one leaves no gap, and a number *)
(* is never given again, not even when the invoice that had it got another. *)
ImplementsRegister == Register!Spec

(* A bound on the statements a request has left: six for each invoice on   *)
(* its list (load, number, save, three of the sync), those for the present *)
(* one counted by where it is, and the commit.                             *)
StepsLeft == [load |-> 7, number |-> 6, save |-> 5, lines |-> 4, flags |-> 3,
              apply |-> 2, commit |-> 1, idle |-> 0]
Remaining(t) == 6 * Len(t.todo) + StepsLeft[t.pc]

(* A request only ever comes closer to its end: refused invoices of a      *)
(* batch, numbers taken in between and waits make none of them start over. *)
RequestsShrink ==
    [][\A c \in Clients :
         ~At(c, "idle") /\ tx'[c] # tx[c] => Remaining(tx'[c]) < Remaining(tx[c])]_vars

CanGoOn(c) == ~At(c, "idle") /\ \A r \in Wanted(c) : Free(c, r)

(* Nobody waits in vain: a request in flight can go on, or one that it     *)
(* waits for through others can, or is in a deadlock, which the database   *)
(* breaks.  No row stays locked by a request that has ended.               *)
WaitsAreResolved ==
    \A c \in Clients : ~At(c, "idle") =>
      \E d \in {c} \cup Ahead(c) : CanGoOn(d) \/ InDeadlock(d)

(* Every request ends, by its answer, an abort or a crash.                 *)
RequestsEnd == \A c \in Clients : ~At(c, "idle") ~> At(c, "idle")

(* docs/invoice-lock-and-concurrency-draft.md:30 - "Re-numbering: not      *)
(* allowed": an invoice keeps the official number it was given.            *)
NoRenumbering ==
    [][\A i \in Invoices :
         db[i].official # 0 => db'[i].official = db[i].official]_vars

=============================================================================
