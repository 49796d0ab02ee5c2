--------------------------- MODULE GenerationQueue ---------------------------
(***************************************************************************)
(* The durable generation queue of the decision API: the generation_runs   *)
(* table, and in every API process a coordinator with its worker threads,  *)
(* its heartbeat thread and its table of active leases                     *)
(* (app/generation/coordinator.py, worker.py, repositories.py).            *)
(*                                                                         *)
(* Every database operation runs in a transaction of its own and is one    *)
(* step.  The transaction of _persist_success has several statements and   *)
(* holds the row lock in between, so it is two steps.  An operation that   *)
(* is rolled back changes nothing and is not a step; one whose commit      *)
(* reaches the database but whose answer is lost is.  Time is not counted: *)
(* a lease loses a unit of its life at any moment (LeaseTick) and a        *)
(* backoff ends at any moment (BackoffElapses), so every order of the      *)
(* deadlines that the clock allows, and more, is explored.                 *)
(***************************************************************************)
EXTENDS Naturals, FiniteSets

CONSTANTS Job,          \* generation ids (one per project and idempotency key)
          Proc,         \* API processes
          Worker,       \* worker threads of all processes
          Candidate,    \* content candidates expected of a run
          ProcOf,       \* the process of a worker thread
          Leaders,      \* the threads with worker_index 0
          NoJob, NoProc,
          MaxRetries,   \* Settings.generation_max_retries
          LeaseTicks,   \* length of a lease, in units of LeaseTick
          MaxStops      \* bound: shutdowns and crashes of processes

ASSUME QueueAssumption == /\ ProcOf \in [Worker -> Proc]
                          /\ Leaders \subseteq Worker
                          /\ NoJob \notin Job
                          /\ NoProc \notin Proc
                          /\ MaxRetries \in Nat
                          /\ LeaseTicks \in Nat \ {0}
                          /\ MaxStops \in Nat

VARIABLES row,      \* generation_runs, one record per job
          claims,   \* number of claims of a job; the claim's number is its token
          author,   \* content_candidates: token of the last writer, 0 if no row
          proc,     \* state of each process
          active,   \* GenerationCoordinator._active_leases: job -> token, 0 if none
          beat,     \* heartbeat thread of each process
          worker,   \* worker threads
          stops     \* number of shutdowns and crashes so far

database == <<row, claims, author>>
vars == <<row, claims, author, proc, active, beat, worker, stops>>

NoToken == 0
NoLeases == [j \in Job |-> NoToken]
Tokens == 0 .. MaxRetries + 1

Statuses == {"absent", "requested", "running", "completed", "failed"}
Terminal == {"completed", "failed"}

Rows == [status : Statuses, retry_count : 0 .. MaxRetries, due : BOOLEAN,
         worker_id : Proc \cup {NoProc}, lease_token : Tokens,
         ttl : 0 .. LeaseTicks]

(* Where a worker thread stands in _worker_loop and process(). *)
Places == {"down", "starting", "idle", "claiming", "claimed", "loading",
           "building", "persisting", "failing", "finishing", "exited"}
Errors == {"none", "retryable", "permanent"}

Workers == [at : Places, job : Job \cup {NoJob}, token : Tokens,
            retry_count : 0 .. MaxRetries, built : SUBSET Candidate,
            error : Errors]

AbsentRow == [status |-> "absent", retry_count |-> 0, due |-> TRUE,
              worker_id |-> NoProc, lease_token |-> NoToken, ttl |-> 0]

Thread(place) == [at |-> place, job |-> NoJob, token |-> NoToken,
                  retry_count |-> 0, built |-> {}, error |-> "none"]

Sleeping == [at |-> "wait", leases |-> NoLeases]
Beats == [at : {"wait", "beat", "stopped"}, leases : [Job -> Tokens]]

TypeOK == /\ row \in [Job -> Rows]
          /\ claims \in [Job -> Tokens]
          /\ author \in [Job -> [Candidate -> Tokens]]
          /\ proc \in [Proc -> {"up", "draining", "quiesced", "down"}]
          /\ active \in [Proc -> [Job -> Tokens]]
          /\ beat \in [Proc -> Beats]
          /\ worker \in [Worker -> Workers]
          /\ stops \in 0 .. MaxStops

-----------------------------------------------------------------------------
(* Predicates of the SQL statements.                                        *)

(* The fence of every write of a worker: the row is still running under     *)
(* this worker and token, and the lease has not expired.                    *)
LeaseMatches(r, p, token) == /\ r.status = "running"
                             /\ r.worker_id = p
                             /\ r.lease_token = token
                             /\ r.ttl > 0

Fence(w) == LeaseMatches(row[worker[w].job], ProcOf[w], worker[w].token)

(* Mutant: the status is not looked at.                                     *)
MutantClaimable(r) == r.status \in {"requested", "running"} /\ r.due

Claimable(r) == r.status = "requested" /\ r.due

(* Mutant: every statement commits, so no lock is held between them.        *)
MutantLocked(j) == FALSE

(* The run's row lock is held by the transaction of _persist_success.       *)
Locked(j) == \E w \in Worker : worker[w].at = "persisting" /\ worker[w].job = j

-----------------------------------------------------------------------------
(* The new rows the statements write.                                       *)

ClaimedRow(r, p, token) ==
  [status |-> "running", retry_count |-> r.retry_count, due |-> TRUE,
   worker_id |-> p, lease_token |-> token, ttl |-> LeaseTicks]

ReleasedRow(r, status) ==
  [status |-> status, retry_count |-> r.retry_count, due |-> TRUE,
   worker_id |-> NoProc, lease_token |-> NoToken, ttl |-> 0]

(* Mutant: the retry is not counted.                                        *)
MutantRetriedRow(r) ==
  [status |-> "requested", retry_count |-> r.retry_count, due |-> FALSE,
   worker_id |-> NoProc, lease_token |-> NoToken, ttl |-> 0]

RetriedRow(r) ==
  [status |-> "requested", retry_count |-> r.retry_count + 1, due |-> FALSE,
   worker_id |-> NoProc, lease_token |-> NoToken, ttl |-> 0]

(* Mutant: recovery does not look at max_retries.                           *)
MutantRecoveredRow(r) == RetriedRow(r)

RecoveredRow(r) ==
  IF r.retry_count < MaxRetries THEN RetriedRow(r) ELSE ReleasedRow(r, "failed")

(* Mutant: recovery takes any running row.                                  *)
MutantExpired(j) == row[j].status = "running" /\ ~Locked(j)

(* The rows recover_expired selects: expired, and not locked (SKIP LOCKED). *)
Expired(j) == row[j].status = "running" /\ row[j].ttl = 0 /\ ~Locked(j)

RecoveredRows ==
  [j \in Job |-> IF Expired(j) THEN RecoveredRow(row[j]) ELSE row[j]]

Goto(w, place) == worker' = [worker EXCEPT ![w].at = place]

Fail(w, error) ==
  worker' = [worker EXCEPT ![w] = [@ EXCEPT !.at = "failing", !.error = error]]

Init == /\ row = [j \in Job |-> AbsentRow]
        /\ claims = [j \in Job |-> 0]
        /\ author = [j \in Job |-> [c \in Candidate |-> NoToken]]
        /\ proc = [p \in Proc |-> "up"]
        /\ active = [p \in Proc |-> NoLeases]
        /\ beat = [p \in Proc |-> Sleeping]
        /\ worker = [w \in Worker |-> Thread("starting")]
        /\ stops = 0

-----------------------------------------------------------------------------
(* Submission: create_or_get_idempotent on a coordinator that accepts work. *)
(* A second request with the same key finds the row and changes nothing.    *)
Submit(j) == /\ row[j].status = "absent"
             /\ \E p \in Proc : proc[p] = "up"
             /\ row' = [row EXCEPT ![j].status = "requested"]
             /\ UNCHANGED <<claims, author, proc, active, beat, worker, stops>>

-----------------------------------------------------------------------------
(* Worker thread: _worker_loop and GenerationJobProcessor.process.          *)

(* The thread starts; worker 0 first recovers expired leases.  An error of  *)
(* that operation is logged and the thread goes on.                         *)
WorkerStart(w) ==
  /\ worker[w].at = "starting"
  /\ row' \in IF w \in Leaders THEN {row, RecoveredRows} ELSE {row}
  /\ Goto(w, "idle")
  /\ UNCHANGED <<claims, author, proc, active, beat, stops>>

(* while not self._stop_claiming.is_set()                                   *)
TestStopClaiming(w) ==
  /\ worker[w].at = "idle"
  /\ Goto(w, IF proc[ProcOf[w]] = "up" THEN "claiming" ELSE "exited")
  /\ UNCHANGED <<database, proc, active, beat, stops>>

ClaimRow(w, j) ==
  /\ worker[w].at = "claiming"
  /\ Claimable(row[j])
  /\ claims' = [claims EXCEPT ![j] = @ + 1]
  /\ row' = [row EXCEPT ![j] = ClaimedRow(@, ProcOf[w], claims[j] + 1)]
  /\ UNCHANGED <<author, proc, active, beat, stops>>

(* CLAIM_NEXT_SQL.  Which due row comes first is left open: the order only  *)
(* matters to latency, and SKIP LOCKED may pass over any of them.           *)
ClaimNext(w, j) ==
  /\ ClaimRow(w, j)
  /\ worker' = [worker EXCEPT ![w] =
                  [at |-> "claimed", job |-> j, token |-> claims[j] + 1,
                   retry_count |-> row[j].retry_count, built |-> {},
                   error |-> "none"]]

(* The claim is committed and its answer lost: _claim_next logs the error   *)
(* and returns None, and nobody works on the row it has marked running.     *)
ClaimUnacknowledged(w, j) == ClaimRow(w, j) /\ Goto(w, "idle")

(* No row is due: _wait_for_work, until a wake-up or the poll interval.     *)
ClaimNothing(w) ==
  /\ worker[w].at = "claiming"
  /\ \A j \in Job : ~Claimable(row[j])
  /\ Goto(w, "idle")
  /\ UNCHANGED <<database, proc, active, beat, stops>>

(* _register_active_lease: overwrites whatever the job had there.           *)
Register(w) ==
  LET k == worker[w] IN
  /\ k.at = "claimed"
  /\ active' = [active EXCEPT ![ProcOf[w]][k.job] = k.token]
  /\ Goto(w, "loading")
  /\ UNCHANGED <<database, proc, beat, stops>>

(* _load_existing_candidates: what an earlier attempt has checkpointed is   *)
(* not built again.                                                         *)
LoadExistingCandidates(w) ==
  /\ worker[w].at = "loading"
  /\ worker' = [worker EXCEPT ![w] =
                  [@ EXCEPT !.at = "building",
                            !.built = {c \in Candidate :
                                         author[worker[w].job][c] # NoToken}]]
  /\ UNCHANGED <<database, proc, active, beat, stops>>

(* Mutant: the checkpoint is an upsert without the fence.                   *)
MutantCheckpointCandidate(w, c) ==
  LET k == worker[w] IN
  /\ k.at = "building"
  /\ c \notin k.built
  /\ author' = [author EXCEPT ![k.job][c] = k.token]
  /\ worker' = [worker EXCEPT ![w].built = @ \cup {c}]
  /\ UNCHANGED <<row, claims, proc, active, beat, stops>>

(* A candidate is built and _checkpoint_candidate writes it under the fence; *)
(* a rejection is a GenerationFenceRejected, a permanent error.             *)
CheckpointCandidate(w, c) ==
  LET k == worker[w] IN
  /\ k.at = "building"
  /\ c \notin k.built
  /\ ~Locked(k.job)
  /\ IF Fence(w)
     THEN /\ author' = [author EXCEPT ![k.job][c] = k.token]
          /\ worker' = [worker EXCEPT ![w].built = @ \cup {c}]
     ELSE /\ Fail(w, "permanent")
          /\ UNCHANGED author
  /\ UNCHANGED <<row, claims, proc, active, beat, stops>>

(* Loading or building raises: a provider, network, storage or input error. *)
WorkFails(w, error) ==
  /\ worker[w].at \in {"loading", "building"}
  /\ Fail(w, error)
  /\ UNCHANGED <<database, proc, active, beat, stops>>

(* _persist_success begins: now() is fixed, and the first upsert evaluates  *)
(* the fence and locks the run's row until the transaction ends.            *)
PersistBegin(w) ==
  /\ worker[w].at = "building"
  /\ worker[w].built = Candidate
  /\ ~Locked(worker[w].job)
  /\ IF Fence(w) THEN Goto(w, "persisting") ELSE Fail(w, "permanent")
  /\ UNCHANGED <<database, proc, active, beat, stops>>

(* Mutant: the run is completed without writing the candidates again.       *)
MutantPersistCommit(w) ==
  /\ worker[w].at = "persisting"
  /\ row' = [row EXCEPT ![worker[w].job] = ReleasedRow(@, "completed")]
  /\ Goto(w, "finishing")
  /\ UNCHANGED <<claims, author, proc, active, beat, stops>>

(* The remaining upserts, complete_if_ready_fenced and the commit.          *)
PersistCommit(w) ==
  LET k == worker[w] IN
  /\ k.at = "persisting"
  /\ author' = [author EXCEPT ![k.job] = [c \in Candidate |-> k.token]]
  /\ row' = [row EXCEPT ![k.job] = ReleasedRow(@, "completed")]
  /\ Goto(w, "finishing")
  /\ UNCHANGED <<claims, proc, active, beat, stops>>

(* The transaction is rolled back by a database error, which process()      *)
(* records like any other failure.                                          *)
PersistFails(w, error) ==
  /\ worker[w].at = "persisting"
  /\ Fail(w, error)
  /\ UNCHANGED <<database, proc, active, beat, stops>>

ShouldRetry(k) == k.error = "retryable" /\ k.retry_count < MaxRetries

(* _record_failure: the retry count it decides on is the claimed row's.     *)
RecordFailure(w) ==
  LET k == worker[w] IN
  /\ k.at = "failing"
  /\ ~Locked(k.job)
  /\ row' = IF ~Fence(w) THEN row
            ELSE [row EXCEPT ![k.job] = IF ShouldRetry(k)
                                        THEN RetriedRow(@)
                                        ELSE ReleasedRow(@, "failed")]
  /\ Goto(w, "finishing")
  /\ UNCHANGED <<claims, author, proc, active, beat, stops>>

(* _record_failure itself raises; the row stays running until its lease     *)
(* expires.                                                                 *)
RecordFailureRaises(w) ==
  /\ worker[w].at = "failing"
  /\ Goto(w, "finishing")
  /\ UNCHANGED <<database, proc, active, beat, stops>>

(* Mutant: whatever entry the job has is removed.                           *)
MutantUnregistered(p, j, token) == [active EXCEPT ![p][j] = NoToken]

(* The active lease is removed only if it is still this worker's.           *)
Unregistered(p, j, token) ==
  IF active[p][j] = token THEN [active EXCEPT ![p][j] = NoToken] ELSE active

(* Mutant: the lease is unregistered only after a success.                  *)
MutantUnregister(w) ==
  /\ worker[w].at = "finishing"
  /\ active' = IF worker[w].error = "none"
               THEN Unregistered(ProcOf[w], worker[w].job, worker[w].token)
               ELSE active
  /\ worker' = [worker EXCEPT ![w] = Thread("idle")]
  /\ UNCHANGED <<database, proc, beat, stops>>

(* finally: self._unregister_active_lease(lease)                            *)
Unregister(w) ==
  LET k == worker[w] IN
  /\ k.at = "finishing"
  /\ active' = Unregistered(ProcOf[w], k.job, k.token)
  /\ worker' = [worker EXCEPT ![w] = Thread("idle")]
  /\ UNCHANGED <<database, proc, beat, stops>>

WorkerStep(w) ==
  \/ WorkerStart(w) \/ TestStopClaiming(w) \/ ClaimNothing(w)
  \/ \E j \in Job : ClaimNext(w, j) \/ ClaimUnacknowledged(w, j)
  \/ Register(w) \/ LoadExistingCandidates(w)
  \/ \E c \in Candidate : CheckpointCandidate(w, c)
  \/ \E e \in {"retryable", "permanent"} : WorkFails(w, e) \/ PersistFails(w, e)
  \/ PersistBegin(w) \/ PersistCommit(w)
  \/ RecordFailure(w) \/ RecordFailureRaises(w) \/ Unregister(w)

-----------------------------------------------------------------------------
(* Heartbeat thread: _heartbeat_loop.                                       *)

Alive(p) == proc[p] # "down"

(* stop_heartbeat ends the loop at its wait; otherwise a beat starts with a *)
(* snapshot of the active leases.                                           *)
BeatStart(p) ==
  /\ Alive(p)
  /\ beat[p].at = "wait"
  /\ beat' = [beat EXCEPT ![p] =
                IF proc[p] = "quiesced"
                THEN [at |-> "stopped", leases |-> NoLeases]
                ELSE [at |-> "beat", leases |-> active[p]]]
  /\ UNCHANGED <<database, proc, active, worker, stops>>

Heartbeat(p, j) == /\ beat[p].at = "beat"
                   /\ beat[p].leases[j] # NoToken
                   /\ beat' = [beat EXCEPT ![p].leases[j] = NoToken]

(* HEARTBEAT_SQL renews the lease of the snapshot, or the lease is lost and *)
(* is no longer kept.                                                       *)
HeartbeatLease(p, j) ==
  LET token == beat[p].leases[j] IN
  /\ Heartbeat(p, j)
  /\ ~Locked(j)
  /\ IF LeaseMatches(row[j], p, token)
     THEN /\ row' = [row EXCEPT ![j].ttl = LeaseTicks]
          /\ UNCHANGED active
     ELSE /\ active' = Unregistered(p, j, token)
          /\ UNCHANGED row
  /\ UNCHANGED <<claims, author, proc, worker, stops>>

(* The operation raises: a database error, or the row lock times out.       *)
HeartbeatRaises(p, j) ==
  /\ Heartbeat(p, j)
  /\ UNCHANGED <<database, proc, active, worker, stops>>

(* Mutant: leases are recovered only when a process starts.                 *)
MutantRecoverExpired(p) ==
  /\ beat[p].at = "beat"
  /\ beat[p].leases = NoLeases
  /\ beat' = [beat EXCEPT ![p].at = "wait"]
  /\ UNCHANGED <<database, proc, active, worker, stops>>

(* After the leases of the snapshot: RECOVER_EXPIRED_SQL, or an error that  *)
(* is logged, and back to wait.                                             *)
RecoverExpired(p) ==
  /\ beat[p].at = "beat"
  /\ beat[p].leases = NoLeases
  /\ beat' = [beat EXCEPT ![p].at = "wait"]
  /\ row' \in {row, RecoveredRows}
  /\ UNCHANGED <<claims, author, proc, active, worker, stops>>

HeartbeatStep(p) ==
  \/ BeatStart(p) \/ RecoverExpired(p)
  \/ \E j \in Job : HeartbeatLease(p, j) \/ HeartbeatRaises(p, j)

-----------------------------------------------------------------------------
(* The life of a process.                                                   *)

(* shutdown(), phase one: no new claims, heartbeats go on.                  *)
Shutdown(p) == /\ proc[p] = "up"
               /\ stops < MaxStops
               /\ proc' = [proc EXCEPT ![p] = "draining"]
               /\ stops' = stops + 1
               /\ UNCHANGED <<database, active, beat, worker>>

(* Phase two: the workers have ended or the grace is over.                  *)
StopHeartbeat(p) == /\ proc[p] = "draining"
                    /\ proc' = [proc EXCEPT ![p] = "quiesced"]
                    /\ UNCHANGED <<database, active, beat, worker, stops>>

(* The threads of a process and the memory of its coordinator.              *)
Coordinator(p, place) ==
  /\ active' = [active EXCEPT ![p] = NoLeases]
  /\ beat' = [beat EXCEPT ![p] = Sleeping]
  /\ worker' = [w \in Worker |-> IF ProcOf[w] = p THEN Thread(place)
                                 ELSE worker[w]]
  /\ UNCHANGED database

(* Whatever its threads were doing; their open transactions are rolled back. *)
Crash(p) == /\ proc[p] \in {"up", "draining"}
            /\ stops < MaxStops
            /\ stops' = stops + 1
            /\ proc' = [proc EXCEPT ![p] = "down"]
            /\ Coordinator(p, "down")

Exit(p) == /\ proc[p] = "quiesced"
           /\ proc' = [proc EXCEPT ![p] = "down"]
           /\ Coordinator(p, "down")
           /\ UNCHANGED stops

(* A new process: a new coordinator, with a worker id of its own.  Tokens   *)
(* are never used twice, so the model keeps the name of the old one.        *)
Restart(p) == /\ proc[p] = "down"
              /\ proc' = [proc EXCEPT ![p] = "up"]
              /\ Coordinator(p, "starting")
              /\ UNCHANGED stops

ProcessStep(p) == Shutdown(p) \/ StopHeartbeat(p) \/ Crash(p) \/ Exit(p) \/ Restart(p)

-----------------------------------------------------------------------------
(* The clock of the database.                                               *)

LeaseTick(j) == /\ row[j].status = "running"
                /\ row[j].ttl > 0
                /\ row' = [row EXCEPT ![j].ttl = @ - 1]
                /\ UNCHANGED <<claims, author, proc, active, beat, worker, stops>>

BackoffElapses(j) == /\ row[j].status = "requested"
                     /\ ~row[j].due
                     /\ row' = [row EXCEPT ![j].due = TRUE]
                     /\ UNCHANGED <<claims, author, proc, active, beat, worker, stops>>

Next == \/ \E j \in Job : Submit(j) \/ LeaseTick(j) \/ BackoffElapses(j)
        \/ \E w \in Worker : WorkerStep(w)
        \/ \E p \in Proc : HeartbeatStep(p) \/ ProcessStep(p)

Safety == Init /\ [][Next]_vars

(* Threads keep running: the calls of providers and of the storage, and the *)
(* statements of the coordinator's connections, have timeouts; a worker's   *)
(* connections have none, and it is assumed that the database answers them  *)
(* or breaks the connection.  The database does not refuse every recovery,  *)
(* time passes, a stopping process ends and the platform starts it again.   *)
Fairness ==
  /\ \A w \in Worker : WF_vars(WorkerStep(w))
  /\ \A p \in Proc : /\ WF_vars(HeartbeatStep(p))
                     /\ SF_vars(RecoverExpired(p) /\ row' = RecoveredRows)
                     /\ WF_vars(StopHeartbeat(p) \/ Exit(p) \/ Restart(p))
  /\ \A j \in Job : WF_vars(LeaseTick(j)) /\ WF_vars(BackoffElapses(j))

Spec == Safety /\ Fairness

-----------------------------------------------------------------------------
(* Safety.                                                                  *)

Registered == {"loading", "building", "persisting", "failing", "finishing"}

(* Every claim is paid for: a run that is not being attempted has used one  *)
(* retry per claim so far, whether the attempt failed, was killed, lost its *)
(* answer or was recovered, and no attempt is counted twice when a late     *)
(* worker and the lease recovery both try to end it.                        *)
RetryAccounting ==
  \A j \in Job :
    claims[j] = row[j].retry_count
                + (IF row[j].status \in {"absent", "requested"} THEN 0 ELSE 1)

(* An active lease belongs to a worker of the process that is on that       *)
(* attempt: no entry outlives its worker, so no lease is renewed for ever.  *)
ActiveLeaseHasWorker ==
  \A p \in Proc, j \in Job :
    active[p][j] # NoToken =>
      \E w \in Worker : /\ ProcOf[w] = p
                        /\ worker[w].at \in Registered
                        /\ worker[w].job = j
                        /\ worker[w].token = active[p][j]

(* The lease table knows jobs only, and an attempt that has lost its lease   *)
(* may still run beside the next one of the same process.  The entry of a   *)
(* worker that has the lease is not lost to the end of the older attempt,   *)
(* nor to a heartbeat with an older snapshot: only the registration of an   *)
(* older attempt, claimed before and stopped until now, can overwrite it.   *)
LeaseOutlivesLateWorkers ==
  [][\A w \in Worker :
       LET k == worker[w] IN
       (/\ k.at \in Registered /\ worker'[w].at \in Registered
        /\ Fence(w)
        /\ active[ProcOf[w]][k.job] = k.token
        /\ active'[ProcOf[w]][k.job] # k.token)
       => \E v \in Worker : /\ ProcOf[v] = ProcOf[w]
                           /\ worker[v].at = "claimed" /\ worker'[v].at = "loading"
                           /\ worker[v].job = k.job
                           /\ worker[v].token < k.token]_vars

(* While the success transaction is open its run is still running under the *)
(* worker's token: lease recovery has skipped the locked row, even if the   *)
(* lease ran out meanwhile.                                                 *)
PersistingOwnsRun ==
  \A w \in Worker :
    worker[w].at = "persisting" =>
      /\ row[worker[w].job].status = "running"
      /\ row[worker[w].job].worker_id = ProcOf[w]
      /\ row[worker[w].job].lease_token = worker[w].token

(* A completed run's candidates were all written or confirmed by its last   *)
(* attempt, the one that completed it.                                      *)
CompletedByLastAttempt ==
  \A j \in Job : row[j].status = "completed" =>
                   \A c \in Candidate : author[j][c] = claims[j]

(* A late worker never overwrites the checkpoint of a later attempt, nor    *)
(* removes a checkpointed candidate.                                        *)
NoStaleCheckpoint ==
  [][\A j \in Job, c \in Candidate : author'[j][c] >= author[j][c]]_vars

(* Nothing that a late worker, a heartbeat or a recovery does changes a     *)
(* settled run or its candidates.                                           *)
SettledForGood ==
  [][\A j \in Job : row[j].status \in Terminal =>
                      row'[j] = row[j] /\ author'[j] = author[j]]_vars

(* An attempt is ended by its own worker, or by recovery once its lease has *)
(* run out: a live lease is never taken from a worker.                      *)
AttemptEndedByOwnerOrExpiry ==
  [][\A j \in Job :
       (row[j].status = "running" /\ row'[j].lease_token # row[j].lease_token)
       => \/ row[j].ttl = 0
          \/ \E w \in Worker : /\ worker[w].at \in {"persisting", "failing"}
                               /\ worker'[w].at = "finishing"
                               /\ worker[w].job = j
                               /\ worker[w].token = row[j].lease_token]_vars

(* Liveness: a requested run is settled, whatever fails and whoever dies.   *)
EveryRunSettles ==
  \A j \in Job : row[j].status = "requested" ~> row[j].status \in Terminal

-----------------------------------------------------------------------------
(* The queue implements the life cycle of a durable run.                    *)
Lifecycle == INSTANCE GenerationLifecycle
               WITH status <- [j \in Job |-> row[j].status], attempts <- claims

ImplementsLifecycle == Lifecycle!LifecycleSpec
ImplementsLifecycleSteps == Lifecycle!LifecycleSafety
=============================================================================
