--------------------------- MODULE BatchJobsProofs ---------------------------
(***************************************************************************)
(* Theorems of BatchJobs for any jobs, dates, keys and clients.            *)
(***************************************************************************)
EXTENDS BatchJobs, FiniteSetTheorems, TLAPS

USE NoDateAssumption, NoKeyAssumption, FailedJobsAssumption

(* What the checks of the handlers leave true of the request they let      *)
(* through, however long it takes: a poll or a cancel loaded its job while *)
(* it was active, a retry loaded it as failed, and the job is still there  *)
(* (no handler deletes one).                                               *)
CheckedWhenLoaded ==
    \A c \in Clients :
      /\ req[c].op \in {"poll", "cancel"} => req[c].status \in Active
      /\ req[c].op = "retry" => req[c].status = "failed"
      /\ req[c].op \in {"poll", "cancel", "retry"} => Exists(req[c].job)

IInv == TypeOK /\ CheckedWhenLoaded

LEMMA InitIInv == Init => IInv
  BY DEF Init, IInv, TypeOK, CheckedWhenLoaded, Idle, Statuses, MaxRetries, Exists

(* The status a request writes is one the table may hold. *)
LEMMA NewStatusType ==
    ASSUME IInv, NEW c \in Clients, req[c].op \in {"poll", "cancel", "retry"}
    PROVE  /\ req[c] \in Changes
           /\ NewStatus(req[c]) \in Statuses
  BY DEF IInv, TypeOK, CheckedWhenLoaded, Idle, Enqueues, Changes, NewStatus, Statuses,
         Active, Finished

(* A request that is loaded: its record is typed, its check has held. *)
LEMMA LoadIInv ==
    ASSUME IInv, NEW c \in Clients, NEW r \in Enqueues \cup Changes, Load(c, r),
           r.op \in {"poll", "cancel"} => r.status \in Active,
           r.op = "retry" => r.status = "failed",
           r.op \in {"poll", "cancel", "retry"} => Exists(r.job)
    PROVE  IInv'
  <1>1. req' = [req EXCEPT ![c] = r] /\ UNCHANGED jobVars
    BY DEF Load
  <1>2. TypeOK'
    BY <1>1 DEF IInv, TypeOK, jobVars
  <1>3. CheckedWhenLoaded'
    BY <1>1 DEF IInv, TypeOK, CheckedWhenLoaded, Exists, jobVars
  <1>4. QED
    BY <1>2, <1>3 DEF IInv

LEMMA StepIInv ==
    ASSUME IInv, [Next]_vars
    PROVE  IInv'
  <1>1. ASSUME NEW c \in Clients, NEW d \in Dates, NEW k \in Keys, LoadEnqueue(c, d, k)
        PROVE  IInv'
    <2>1. [op |-> "enqueue", date |-> d, key |-> k] \in Enqueues
      BY DEF Enqueues
    <2>2. QED
      BY <1>1, <2>1, LoadIInv DEF LoadEnqueue
  <1>2. ASSUME NEW c \in Clients, NEW j \in Jobs,
               LoadPoll(c, j) \/ LoadCancel(c, j) \/ LoadRetry(c, j)
        PROVE  IInv'
    <2>1. PICK op \in {"poll", "cancel", "retry"} :
            /\ Load(c, Loaded(op, j))
            /\ status[j] \in Statuses
            /\ op \in {"poll", "cancel"} => status[j] \in Active
            /\ op = "retry" => status[j] = "failed"
      BY <1>2 DEF LoadPoll, LoadCancel, LoadRetry, Statuses, Active
    <2>2. Loaded(op, j) \in Changes
      BY <2>1 DEF IInv, TypeOK, Loaded, Changes
    <2>3. QED
      BY <2>1, <2>2, LoadIInv DEF Loaded, Exists, Statuses, Active, Finished
  <1>3. ASSUME NEW c \in Clients, CommitEnqueue(c)
        PROVE  IInv'
    <2>1. req[c] \in Enqueues
      BY <1>3 DEF CommitEnqueue, IInv, TypeOK, Idle, Enqueues, Changes
    <2>2. TypeOK'
      BY <1>3, <2>1 DEF CommitEnqueue, IInv, TypeOK, Enqueues, Statuses, Active
    <2>3. CheckedWhenLoaded'
      BY <1>3 DEF CommitEnqueue, IInv, TypeOK, CheckedWhenLoaded, Exists, Idle
    <2>4. QED
      BY <2>2, <2>3 DEF IInv
  <1>4. ASSUME NEW c \in Clients, CommitChange(c)
        PROVE  IInv'
    <2>1. req[c] \in Changes /\ NewStatus(req[c]) \in Statuses
      BY <1>4, NewStatusType DEF CommitChange
    <2>2. TypeOK'
      BY <1>4, <2>1 DEF CommitChange, IInv, TypeOK, Changes
    <2>3. CheckedWhenLoaded'
      BY <1>4, <2>1
         DEF CommitChange, IInv, TypeOK, CheckedWhenLoaded, Exists, Idle, Statuses, Active, Finished
    <2>4. QED
      BY <2>2, <2>3 DEF IInv
  <1>5. ASSUME NEW c \in Clients, Rollback(c)
        PROVE  IInv'
    BY <1>5 DEF Rollback, IInv, TypeOK, CheckedWhenLoaded, Exists, Idle, jobVars
  <1>6. CASE UNCHANGED vars
    BY <1>6 DEF vars, jobVars, IInv, TypeOK, CheckedWhenLoaded, Exists
  <1>7. QED
    BY <1>1, <1>2, <1>3, <1>4, <1>5, <1>6 DEF Next

LEMMA IInvHolds == Spec => []IInv
  BY InitIInv, StepIInv, PTL DEF Spec

(* Every variable keeps its type: in particular no request stores a status *)
(* that is none of the table's.                                            *)
THEOREM TypeCorrect == Spec => []TypeOK
  <1>1. IInv => TypeOK
    BY DEF IInv
  <1>2. QED
    BY <1>1, IInvHolds, PTL

-----------------------------------------------------------------------------
(* No two jobs have one idempotency key, whatever requests overlap. *)
THEOREM UniqueKeys == Spec => []KeyNamesOneJob
  <1>1. Init => KeyNamesOneJob
    BY DEF Init, KeyNamesOneJob
  <1>2. ASSUME IInv, KeyNamesOneJob, [Next]_vars
        PROVE  KeyNamesOneJob'
    <2>1. ASSUME NEW c \in Clients, CommitEnqueue(c)
          PROVE  KeyNamesOneJob'
      BY <1>2, <2>1 DEF CommitEnqueue, IInv, TypeOK, KeyNamesOneJob, Exists
    <2>2. ASSUME NEW c \in Clients, CommitChange(c)
          PROVE  KeyNamesOneJob'
      <3>1. PICK j \in Jobs : j = req[c].job /\ Exists(j)
        BY <1>2, <2>2, NewStatusType DEF CommitChange, Changes, IInv, CheckedWhenLoaded
      <3>2. QED
        BY <1>2, <2>2, <3>1 DEF CommitChange, IInv, TypeOK, KeyNamesOneJob, Exists
    <2>3. CASE UNCHANGED jobVars
      BY <1>2, <2>3 DEF jobVars, KeyNamesOneJob, Exists
    <2>4. QED
      BY <1>2, <2>1, <2>2, <2>3
         DEF Next, LoadEnqueue, LoadPoll, LoadCancel, LoadRetry, Load, Rollback, vars, jobVars
  <1>3. QED
    BY <1>1, <1>2, IInvHolds, PTL DEF Spec

(* A job that succeeded or was cancelled changes only by a request that    *)
(* had loaded it before it did.                                            *)
THEOREM FinishedStays == Spec => FinishedChangesOnlyByStaleRequest
  <1>1. ASSUME IInv, Next
        PROVE  \A j \in Jobs :
                 status[j] \in Finished /\ status'[j] # status[j] =>
                   \E c \in Clients :
                     /\ req[c].op \in {"poll", "cancel", "retry"}
                     /\ req[c].job = j
                     /\ req[c].status \notin Finished
    <2> SUFFICES ASSUME NEW j \in Jobs, status[j] \in Finished, status'[j] # status[j]
                 PROVE  \E c \in Clients :
                          /\ req[c].op \in {"poll", "cancel", "retry"}
                          /\ req[c].job = j
                          /\ req[c].status \notin Finished
      OBVIOUS
    <2>1. ASSUME NEW c \in Clients, CommitEnqueue(c)
          PROVE  FALSE
      BY <1>1, <2>1 DEF CommitEnqueue, IInv, TypeOK, Exists, Finished
    <2>2. ASSUME NEW c \in Clients, CommitChange(c)
          PROVE  req[c].job = j /\ req[c].status \notin Finished
      BY <1>1, <2>2 DEF CommitChange, IInv, TypeOK, CheckedWhenLoaded, Active, Finished
    <2>3. PICK c \in Clients : CommitChange(c)
      BY <1>1, <2>1
         DEF Next, LoadEnqueue, LoadPoll, LoadCancel, LoadRetry, Load, Rollback, jobVars
    <2>4. QED
      BY <2>2, <2>3 DEF CommitChange
  <1>2. ASSUME IInv, [Next]_vars
        PROVE  [\A j \in Jobs :
                 status[j] \in Finished /\ status'[j] # status[j] =>
                   \E c \in Clients :
                     /\ req[c].op \in {"poll", "cancel", "retry"}
                     /\ req[c].job = j
                     /\ req[c].status \notin Finished]_vars
    BY <1>1, <1>2
  <1>3. QED
    BY <1>2, IInvHolds, PTL DEF Spec, FinishedChangesOnlyByStaleRequest

-----------------------------------------------------------------------------
(* The jobs of a date that are active or can be made so by a request in    *)
(* flight, and the requests that are going to enqueue one.                 *)
Moving(c) == req[c].op \in {"poll", "retry"}
Busy(d) == ActiveOn(d) \cup {j \in Jobs : date[j] = d /\ \E c \in Clients : Moving(c) /\ req[c].job = j}
Enqueuing(d) == {c \in Clients : req[c].op = "enqueue" /\ req[c].date = d}

(* The inductive invariant: each of these jobs can be charged to a client  *)
(* of its own that is not enqueuing another.  (A request checks that no    *)
(* job is active, so when it begins only those are left that other clients *)
(* are moving.)                                                            *)
Charges(B, E, f) ==
    /\ f \in [B -> Clients \ E]
    /\ \A j, k \in B : f[j] = f[k] => j = k

Charged == \A d \in Dates : \E f : Charges(Busy(d), Enqueuing(d), f)

LEMMA NoneActive ==
    ASSUME NEW d \in Dates, ActiveOn(d) = {}
    PROVE  \E f : Charges(Busy(d), Enqueuing(d), f)
  <1> DEFINE f == [j \in Busy(d) |-> CHOOSE c \in Clients : Moving(c) /\ req[c].job = j]
  <1>1. ASSUME NEW j \in Busy(d)
        PROVE  f[j] \in Clients /\ Moving(f[j]) /\ req[f[j]].job = j
    BY DEF Busy
  <1>2. f \in [Busy(d) -> Clients \ Enqueuing(d)]
    BY <1>1 DEF Enqueuing, Moving
  <1>3. \A j, k \in Busy(d) : f[j] = f[k] => j = k
    BY <1>1
  <1>4. QED
    BY <1>2, <1>3 DEF Charges

LEMMA FewerBusy ==
    ASSUME NEW d \in Dates, \E f : Charges(Busy(d), Enqueuing(d), f), Busy(d)' \subseteq Busy(d),
           Enqueuing(d)' \subseteq Enqueuing(d)
    PROVE  \E f : Charges(Busy(d)', Enqueuing(d)', f)
  <1>1. PICK f : Charges(Busy(d), Enqueuing(d), f)
    OBVIOUS
  <1> DEFINE g == [j \in Busy(d)' |-> f[j]]
  <1>2. g \in [Busy(d)' -> Clients \ Enqueuing(d)']
    BY <1>1 DEF Charges
  <1>3. \A j, k \in Busy(d)' : g[j] = g[k] => j = k
    BY <1>1 DEF Charges
  <1>4. Charges(Busy(d)', Enqueuing(d)', g)
    BY <1>2, <1>3 DEF Charges
  <1>5. QED
    BY <1>4

LEMMA StepCharged ==
    ASSUME IInv, Charged, [Next]_vars
    PROVE  Charged'
  <1> SUFFICES ASSUME NEW d \in Dates PROVE \E f : Charges(Busy(d)', Enqueuing(d)', f)
    BY DEF Charged
  <1>1. \E f : Charges(Busy(d), Enqueuing(d), f)
    BY DEF Charged
  <1>2. DOMAIN req = Clients /\ DOMAIN status = Jobs /\ DOMAIN date = Jobs
    BY DEF IInv, TypeOK
  <1>3. ASSUME ActiveOn(d)' = {}
        PROVE  \E f : Charges(Busy(d)', Enqueuing(d)', f)
    <2> DEFINE f == [j \in Busy(d)' |-> CHOOSE c \in Clients : Moving(c)' /\ req'[c].job = j]
    <2>1. ASSUME NEW j \in Busy(d)'
          PROVE  f[j] \in Clients /\ req'[f[j]].op \in {"poll", "retry"} /\ req'[f[j]].job = j
      BY <1>3 DEF Busy, Moving
    <2>2. f \in [Busy(d)' -> Clients \ Enqueuing(d)']
      BY <2>1 DEF Enqueuing
    <2>3. \A j, k \in Busy(d)' : f[j] = f[k] => j = k
      BY <2>1
    <2>4. Charges(Busy(d)', Enqueuing(d)', f)
      BY <2>2, <2>3 DEF Charges
    <2>5. QED
      BY <2>4
  <1>4. CASE UNCHANGED vars
    <2>1. Busy(d)' = Busy(d) /\ Enqueuing(d)' = Enqueuing(d)
      BY <1>4 DEF vars, jobVars, Busy, ActiveOn, Moving, Enqueuing
    <2>2. QED
      BY <1>1, <2>1, FewerBusy
  <1>5. ASSUME NEW c \in Clients, NEW e \in Dates, NEW k \in Keys, LoadEnqueue(c, e, k)
        PROVE  \E f : Charges(Busy(d)', Enqueuing(d)', f)
    <2>1. /\ req' = [req EXCEPT ![c] = [op |-> "enqueue", date |-> e, key |-> k]]
          /\ req[c] = Idle /\ UNCHANGED jobVars /\ ActiveOn(e) = {}
      BY <1>5 DEF LoadEnqueue, Load
    <2>2. ActiveOn(d)' = ActiveOn(d)
      BY <2>1 DEF ActiveOn, jobVars
    <2>3. CASE d = e
      BY <1>3, <2>1, <2>2, <2>3
    <2>4. CASE d # e
      <3>1. Busy(d)' \subseteq Busy(d)
        BY <1>2, <2>1, <2>2 DEF Busy, Moving, jobVars
      <3>2. Enqueuing(d)' \subseteq Enqueuing(d)
        BY <1>2, <2>1, <2>4 DEF Enqueuing
      <3>3. QED
        BY <1>1, <3>1, <3>2, FewerBusy
    <2>5. QED
      BY <2>3, <2>4
  <1>6. ASSUME NEW c \in Clients, NEW j \in Jobs, NEW op \in {"poll", "cancel", "retry"},
               Load(c, Loaded(op, j)), op = "poll" => status[j] \in Active,
               op = "retry" => ActiveOn(date[j]) = {}
        PROVE  \E f : Charges(Busy(d)', Enqueuing(d)', f)
    <2>1. /\ req' = [req EXCEPT ![c] = Loaded(op, j)]
          /\ req[c] = Idle /\ UNCHANGED jobVars /\ Loaded(op, j).op = op /\ Loaded(op, j).job = j
      BY <1>6 DEF Load, Loaded
    <2>2. ActiveOn(d)' = ActiveOn(d)
      BY <2>1 DEF ActiveOn, jobVars
    <2>3. CASE op = "retry" /\ date[j] = d
      BY <1>3, <1>6, <2>2, <2>3
    <2>4. CASE ~(op = "retry" /\ date[j] = d)
      <3>1. Busy(d)' \subseteq Busy(d)
        <4> SUFFICES ASSUME NEW k \in Jobs, date[k] = d, NEW b \in Clients, Moving(b)', req'[b].job = k
                     PROVE  k \in Busy(d)
          BY <2>1, <2>2 DEF Busy, jobVars
        <4>1. CASE b = c
          BY <1>2, <1>6, <2>1, <2>4, <4>1 DEF Busy, ActiveOn, Moving
        <4>2. CASE b # c
          BY <1>2, <2>1, <4>2 DEF Busy, Moving
        <4>3. QED
          BY <4>1, <4>2
      <3>2. Enqueuing(d)' \subseteq Enqueuing(d)
        BY <1>2, <2>1 DEF Enqueuing
      <3>3. QED
        BY <1>1, <3>1, <3>2, FewerBusy
    <2>5. QED
      BY <2>3, <2>4
  <1>7. ASSUME NEW c \in Clients, CommitEnqueue(c)
        PROVE  \E f : Charges(Busy(d)', Enqueuing(d)', f)
    <2>1. PICK j \in Jobs : /\ ~Exists(j) /\ status' = [status EXCEPT ![j] = "queued"]
                            /\ date' = [date EXCEPT ![j] = req[c].date]
      BY <1>7 DEF CommitEnqueue
    <2>2. req[c].op = "enqueue" /\ req' = [req EXCEPT ![c] = Idle]
      BY <1>7 DEF CommitEnqueue
    <2>3. \A b \in Clients : Moving(b) => req[b].job # j
      BY <2>1 DEF IInv, CheckedWhenLoaded, Moving
    <2>4. Busy(d)' \subseteq Busy(d) \cup (IF req[c].date = d THEN {j} ELSE {})
      <3> SUFFICES ASSUME NEW k \in Busy(d)', k # j \/ req[c].date # d
                   PROVE  k \in Busy(d)
        OBVIOUS
      <3>1. k \in Jobs /\ date'[k] = d
        BY DEF Busy, ActiveOn
      <3>2. k # j
        BY <1>2, <2>1, <3>1
      <3>3. date[k] = d /\ status'[k] = status[k]
        BY <1>2, <2>1, <3>1, <3>2
      <3>4. CASE k \in ActiveOn(d)'
        BY <3>1, <3>3, <3>4 DEF Busy, ActiveOn
      <3>5. ASSUME NEW b \in Clients, Moving(b)', req'[b].job = k
            PROVE  k \in Busy(d)
        <4>1. b # c
          BY <1>2, <2>2, <3>5 DEF Moving, Idle
        <4>2. Moving(b) /\ req[b].job = k
          BY <1>2, <2>2, <3>5, <4>1 DEF Moving
        <4>3. QED
          BY <3>1, <3>3, <4>2 DEF Busy
      <3>6. QED
        BY <3>4, <3>5 DEF Busy
    <2>5. Enqueuing(d)' = Enqueuing(d) \ {c}
      BY <1>2, <2>2 DEF Enqueuing, Idle
    <2>6. CASE req[c].date # d
      BY <1>1, <2>4, <2>5, <2>6, FewerBusy
    <2>7. CASE req[c].date = d
      <3>1. PICK f : Charges(Busy(d), Enqueuing(d), f)
        BY <1>1
      <3>2. c \in Enqueuing(d)
        BY <2>2, <2>7 DEF Enqueuing
      <3> DEFINE g == [k \in Busy(d)' |-> IF k = j THEN c ELSE f[k]]
      <3>3. \A k \in Busy(d)' : k # j => f[k] \in Clients \ Enqueuing(d) /\ f[k] # c
        BY <2>4, <3>1, <3>2 DEF Charges
      <3>4. g \in [Busy(d)' -> Clients \ Enqueuing(d)']
        BY <2>5, <3>3
      <3>5. \A k, l \in Busy(d)' : g[k] = g[l] => k = l
        BY <2>4, <3>1, <3>3 DEF Charges
      <3>6. Charges(Busy(d)', Enqueuing(d)', g)
        BY <3>4, <3>5 DEF Charges
      <3>7. QED
        BY <3>6
    <2>8. QED
      BY <2>6, <2>7
  <1>8. ASSUME NEW c \in Clients, req' = [req EXCEPT ![c] = Idle], date' = date,
               \A j \in Jobs : status'[j] \in Active =>
                 status[j] \in Active \/ (Moving(c) /\ req[c].job = j)
        PROVE  \E f : Charges(Busy(d)', Enqueuing(d)', f)
    <2>1. ActiveOn(d)' \subseteq Busy(d)
      BY <1>8 DEF ActiveOn, Busy
    <2>2. \A b \in Clients : Moving(b)' => Moving(b) /\ req'[b] = req[b]
      BY <1>2, <1>8 DEF Moving, Idle
    <2>3. Busy(d)' \subseteq Busy(d)
      BY <1>8, <2>1, <2>2 DEF Busy
    <2>4. Enqueuing(d)' \subseteq Enqueuing(d)
      BY <1>2, <1>8 DEF Enqueuing, Idle
    <2>5. QED
      BY <1>1, <2>3, <2>4, FewerBusy
  <1>9. ASSUME NEW c \in Clients, CommitChange(c)
        PROVE  \E f : Charges(Busy(d)', Enqueuing(d)', f)
    <2>1. \A j \in Jobs : status'[j] \in Active =>
            status[j] \in Active \/ (Moving(c) /\ req[c].job = j)
      <3>1. req[c].op = "cancel" => NewStatus(req[c]) \notin Active
        BY DEF NewStatus, Active
      <3>2. QED
        BY <1>2, <1>9, <3>1 DEF CommitChange, Moving
    <2>2. QED
      BY <1>8, <1>9, <2>1 DEF CommitChange
  <1>10. ASSUME NEW c \in Clients, Rollback(c)
         PROVE  \E f : Charges(Busy(d)', Enqueuing(d)', f)
    BY <1>8, <1>10 DEF Rollback, jobVars
  <1>11. QED
    BY <1>4, <1>5, <1>6, <1>7, <1>9, <1>10 DEF Next, LoadPoll, LoadCancel, LoadRetry

(* Overlapping requests make at most as many jobs of a date active as      *)
(* there are clients; one at a time, they make one.                        *)
THEOREM ActiveBounded == Spec => []ActiveAtMostClients
  <1>1. Init => Charged
    <2> SUFFICES ASSUME Init, NEW d \in Dates PROVE \E f : Charges(Busy(d), Enqueuing(d), f)
      BY DEF Charged
    <2>1. ActiveOn(d) = {}
      BY DEF Init, ActiveOn, Active
    <2>2. QED
      BY <2>1, NoneActive
  <1>2. ASSUME Charged
        PROVE  ActiveAtMostClients
    <2> SUFFICES ASSUME NEW d \in Dates PROVE Cardinality(ActiveOn(d)) <= Cardinality(Clients)
      BY DEF ActiveAtMostClients
    <2>1. PICK f : Charges(Busy(d), Enqueuing(d), f)
      BY <1>2 DEF Charged
    <2> DEFINE g == [j \in ActiveOn(d) |-> f[j]]
    <2>2. g \in Injection(ActiveOn(d), Clients)
      BY <2>1 DEF Charges, Busy, Injection, IsInjective
    <2>3. QED
      BY <2>2, ClientsAssumption, FS_Injection DEF ClientsAssumption
  <1>3. (IInv /\ Charged) /\ [Next]_vars => (IInv /\ Charged)'
    BY StepIInv, StepCharged
  <1>4. QED
    BY <1>1, <1>2, <1>3, InitIInv, PTL DEF Spec

=============================================================================
