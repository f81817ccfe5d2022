------------------------------ MODULE BatchJobs ------------------------------
(***************************************************************************)
(* Allocation-run jobs (routes_batch.py): enqueue, poll, cancel and retry. *)
(*                                                                         *)
(* Each request loads what it needs and checks it, and commits later; in   *)
(* between, other requests load and commit.  No row is locked while it is  *)
(* only read.  Nothing but a poll moves a job forward.                     *)
(***************************************************************************)
EXTENDS Naturals, FiniteSets

CONSTANTS
    Jobs,           \* batch_jobs rows that may come to exist
    Dates,          \* business dates
    Keys,           \* idempotency keys
    Clients,        \* requests served at the same time
    FailedJobs,     \* rows that may be stored as failed to begin with
    NoDate, NoKey   \* the date and key of a row that does not exist

ASSUME NoDateAssumption == NoDate \notin Dates
ASSUME FailedJobsAssumption == FailedJobs \subseteq Jobs
ASSUME NoKeyAssumption == NoKey \notin Keys
ASSUME ClientsAssumption == IsFiniteSet(Clients)

VARIABLES
    status,     \* batch_jobs.status
    date,       \* batch_jobs.business_date
    key,        \* batch_jobs.idempotency_key
    retries,    \* batch_jobs.retry_count
    req         \* the request each client has in flight

jobVars == <<status, date, key, retries>>
vars == <<jobVars, req>>

Active == {"queued", "running"}
Finished == {"succeeded", "cancelled"}
Statuses == Active \cup Finished \cup {"failed"}

(* Every job row is stored with max_retries = 1. *)
MaxRetries == 1

(* A request in flight: an enqueue for a date and a key, or a change of    *)
(* one job, with the status and retry count it loaded.                     *)
Idle == [op |-> "idle"]
Enqueues == [op : {"enqueue"}, date : Dates, key : Keys]
Changes == [op : {"poll", "cancel", "retry"}, job : Jobs, status : Statuses, retries : Nat]

TypeOK ==
    /\ status \in [Jobs -> Statuses \cup {"absent"}]
    /\ date \in [Jobs -> Dates \cup {NoDate}]
    /\ key \in [Jobs -> Keys \cup {NoKey}]
    /\ retries \in [Jobs -> Nat]
    /\ req \in [Clients -> {Idle} \cup Enqueues \cup Changes]

Exists(j) == status[j] # "absent"
ActiveOn(d) == {j \in Jobs : status[j] \in Active /\ date[j] = d}

(* The table is empty but for rows stored as failed: no handler sets that  *)
(* status, and a retry needs such a row (the tests insert them).           *)
Init ==
    /\ status \in [Jobs -> {"absent", "failed"}]
    /\ \A j \in Jobs : Exists(j) => j \in FailedJobs
    /\ date \in [Jobs -> Dates \cup {NoDate}]
    /\ key \in [Jobs -> Keys \cup {NoKey}]
    /\ retries \in [Jobs -> 0 .. MaxRetries]
    /\ \A j \in Jobs :
         IF Exists(j) THEN date[j] \in Dates /\ key[j] \in Keys
         ELSE date[j] = NoDate /\ key[j] = NoKey /\ retries[j] = 0
    /\ \A j, k \in Jobs : Exists(j) /\ key[j] = key[k] => j = k
    /\ req = [c \in Clients |-> Idle]

-----------------------------------------------------------------------------
Load(c, r) ==
    /\ req[c] = Idle
    /\ req' = [req EXCEPT ![c] = r]
    /\ UNCHANGED jobVars

Loaded(op, j) == [op |-> op, job |-> j, status |-> status[j], retries |-> retries[j]]

(* Mutant: jobs that are already active do not matter. *)
LoadEnqueue_Unchecked(c, d, k) ==
    /\ \A j \in Jobs : key[j] # k
    /\ Load(c, [op |-> "enqueue", date |-> d, key |-> k])

(* An enqueue with a key that is known is answered with that job, and one  *)
(* for a date with an active job is refused; neither changes anything.     *)
LoadEnqueue(c, d, k) ==
    /\ \A j \in Jobs : key[j] # k
    /\ ActiveOn(d) = {}
    /\ Load(c, [op |-> "enqueue", date |-> d, key |-> k])

(* A poll of a job that is neither queued nor running changes nothing. *)
LoadPoll(c, j) ==
    /\ status[j] \in Active
    /\ Load(c, Loaded("poll", j))

(* Mutant: a job can be cancelled when it has finished. *)
LoadCancel_Finished(c, j) ==
    /\ Exists(j)
    /\ Load(c, Loaded("cancel", j))

LoadCancel(c, j) ==
    /\ status[j] \in Active
    /\ Load(c, Loaded("cancel", j))

LoadRetry(c, j) ==
    /\ status[j] = "failed"
    /\ retries[j] < MaxRetries
    /\ ActiveOn(date[j]) = {}
    /\ Load(c, Loaded("retry", j))

(* Mutant: the table has no unique key. *)
CommitEnqueue_NotUnique(c) ==
    /\ req[c].op = "enqueue"
    /\ \E j \in Jobs :
         /\ ~Exists(j)
         /\ status' = [status EXCEPT ![j] = "queued"]
         /\ date' = [date EXCEPT ![j] = req[c].date]
         /\ key' = [key EXCEPT ![j] = req[c].key]
         /\ UNCHANGED retries
    /\ req' = [req EXCEPT ![c] = Idle]

(* The row is inserted unless its key has come into use since the check. *)
CommitEnqueue(c) ==
    /\ req[c].op = "enqueue"
    /\ \A j \in Jobs : key[j] # req[c].key
    /\ \E j \in Jobs :
         /\ ~Exists(j)
         /\ status' = [status EXCEPT ![j] = "queued"]
         /\ date' = [date EXCEPT ![j] = req[c].date]
         /\ key' = [key EXCEPT ![j] = req[c].key]
         /\ UNCHANGED retries
    /\ req' = [req EXCEPT ![c] = Idle]

(* Mutant: the status of the API's summary is stored. *)
NewStatus_Completed(r) ==
    CASE r.op = "cancel"                         -> "cancelled"
      [] r.op = "retry"                          -> "queued"
      [] r.op = "poll" /\ r.status = "queued"    -> "running"
      [] r.op = "poll" /\ r.status = "running"   -> "completed"

(* The status a request writes, from the one it loaded. *)
NewStatus(r) ==
    CASE r.op = "cancel"                         -> "cancelled"
      [] r.op = "retry"                          -> "queued"
      [] r.op = "poll" /\ r.status = "queued"    -> "running"
      [] r.op = "poll" /\ r.status = "running"   -> "succeeded"

(* The UPDATE writes what was computed from the loaded row over whatever   *)
(* the row is by now.                                                      *)
CommitChange(c) ==
    /\ req[c].op \in {"poll", "cancel", "retry"}
    /\ status' = [status EXCEPT ![req[c].job] = NewStatus(req[c])]
    /\ retries' = [retries EXCEPT ![req[c].job] =
                     IF req[c].op = "retry" THEN req[c].retries + 1 ELSE @]
    /\ req' = [req EXCEPT ![c] = Idle]
    /\ UNCHANGED <<date, key>>

(* The request ends without a commit: an enqueue whose key is taken by now *)
(* violates the unique key, and any request can lose its worker.           *)
Rollback(c) ==
    /\ req[c] # Idle
    /\ req' = [req EXCEPT ![c] = Idle]
    /\ UNCHANGED jobVars

Next ==
    \E c \in Clients :
        \/ \E d \in Dates, k \in Keys : LoadEnqueue(c, d, k)
        \/ \E j \in Jobs : LoadPoll(c, j) \/ LoadCancel(c, j) \/ LoadRetry(c, j)
        \/ CommitEnqueue(c)
        \/ CommitChange(c)
        \/ Rollback(c)

Spec == Init /\ [][Next]_vars

-----------------------------------------------------------------------------
(* Properties *)

(* However enqueues with one key overlap, at most one job has that key:    *)
(* the request that checked too early loses at the unique constraint.      *)
KeyNamesOneJob ==
    \A j, k \in Jobs : Exists(j) /\ Exists(k) /\ key[j] = key[k] => j = k

(* The JOB_ALREADY_RUNNING check is not a lock: overlapping requests can   *)
(* make several jobs of one date active, where the catalogue of the API    *)
(* (docs/architecture/03-api-catalog.md:201-203) knows one, but never more *)
(* than overlapped; with one request at a time it is one.                  *)
ActiveAtMostClients ==
    \A d \in Dates : Cardinality(ActiveOn(d)) <= Cardinality(Clients)

(* A job that succeeded or was cancelled is changed only by a request that *)
(* had loaded it while it was active (or failed, before its retry).        *)
FinishedChangesOnlyByStaleRequest ==
    [][\A j \in Jobs :
         status[j] \in Finished /\ status'[j] # status[j] =>
           \E c \in Clients :
             /\ req[c].op \in {"poll", "cancel", "retry"}
             /\ req[c].job = j
             /\ req[c].status \notin Finished]_vars

=============================================================================
