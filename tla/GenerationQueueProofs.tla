------------------------ MODULE GenerationQueueProofs ------------------------
(***************************************************************************)
(* Theorems about GenerationQueue, for any sets of jobs, processes, worker *)
(* threads and candidates, any number of retries and any lease.  The       *)
(* inductive invariant IInv adds to the safety invariants what they rest   *)
(* on: which workers have a job, that the token of a running row is that   *)
(* of its last claim, that a worker's copy of the retry count is the row's *)
(* while the token is, and that no candidate has a writer yet to come.     *)
(***************************************************************************)
EXTENDS GenerationQueue, TLAPS

(* Where a worker is on an attempt. *)
HasJob == {"claimed", "loading", "building", "persisting", "failing", "finishing"}

(* A worker on an attempt has a job and a token that was issued for it. *)
WorkersWithJob ==
  \A w \in Worker :
    /\ worker[w].at \in HasJob =>
         /\ worker[w].job \in Job
         /\ 0 < worker[w].token /\ worker[w].token <= claims[worker[w].job]
    /\ worker[w].at \notin HasJob =>
         worker[w].job = NoJob /\ worker[w].token = NoToken

(* At most one worker of any process works under a token.                   *)
OneLeaseholder ==
  \A v, w \in Worker :
    /\ worker[v].job = worker[w].job
    /\ worker[v].token = worker[w].token
    /\ worker[v].job # NoJob
    => v = w

(* A running row carries the token of its last claim. *)
RowToken ==
  \A j \in Job :
    row[j].lease_token = (IF row[j].status = "running" THEN claims[j] ELSE NoToken)

(* _record_failure decides on the retry count of the claimed row, which is *)
(* still the row's while the row carries the worker's token. *)
ClaimedRetryCount ==
  \A w \in Worker :
    (/\ worker[w].job \in Job
     /\ row[worker[w].job].status = "running"
     /\ row[worker[w].job].lease_token = worker[w].token)
    => worker[w].retry_count = row[worker[w].job].retry_count

(* No candidate was written under a token not issued yet. *)
AuthorIssued ==
  \A j \in Job, c \in Candidate : author[j][c] <= claims[j]

(* The inductive invariant. *)
IInv == /\ TypeOK
        /\ RetryAccounting
        /\ WorkersWithJob
        /\ RowToken
        /\ OneLeaseholder
        /\ PersistingOwnsRun
        /\ ClaimedRetryCount
        /\ CompletedByLastAttempt
        /\ AuthorIssued
        /\ ActiveLeaseHasWorker

USE QueueAssumption

(* Two records of a worker on the same attempt; two records of a row with  *)
(* the same claim. *)
SameAttempt(k, l) == /\ l.job = k.job
                     /\ l.token = k.token
                     /\ l.retry_count = k.retry_count

SameClaim(r, s) == /\ s.status = r.status
                   /\ s.retry_count = r.retry_count
                   /\ s.worker_id = r.worker_id
                   /\ s.lease_token = r.lease_token

(* A worker record and its fields.                                          *)
LEMMA WorkerFields ==
  ASSUME NEW k \in Workers
  PROVE  /\ k.at \in Places
         /\ k.job \in Job \cup {NoJob}
         /\ k.token \in Tokens
         /\ k.retry_count \in 0 .. MaxRetries
         /\ k.built \in SUBSET Candidate
         /\ k.error \in Errors
         /\ k = [at |-> k.at, job |-> k.job, token |-> k.token,
                 retry_count |-> k.retry_count, built |-> k.built,
                 error |-> k.error]
BY DEF Workers

(* A generation_runs row and its fields.                                    *)
LEMMA RowFields ==
  ASSUME NEW r \in Rows
  PROVE  /\ r.status \in Statuses
         /\ r.retry_count \in 0 .. MaxRetries
         /\ r.due \in BOOLEAN
         /\ r.worker_id \in Proc \cup {NoProc}
         /\ r.lease_token \in Tokens
         /\ r.ttl \in 0 .. LeaseTicks
         /\ r = [status |-> r.status, retry_count |-> r.retry_count,
                 due |-> r.due, worker_id |-> r.worker_id,
                 lease_token |-> r.lease_token, ttl |-> r.ttl]
BY DEF Rows

(* What Goto leaves alone.                                                  *)
LEMMA GotoLemma ==
  ASSUME worker \in [Worker -> Workers], NEW w \in Worker,
         NEW place \in Places, Goto(w, place)
  PROVE  /\ worker' \in [Worker -> Workers]
         /\ \A v \in Worker : v # w => worker'[v] = worker[v]
         /\ worker'[w].at = place
         /\ SameAttempt(worker[w], worker'[w])
<1> DEFINE k == worker[w]
<1>0. k \in Workers  OBVIOUS
<1>1. worker'[w] = [at |-> place, job |-> k.job, token |-> k.token,
                    retry_count |-> k.retry_count, built |-> k.built,
                    error |-> k.error]
  BY <1>0, WorkerFields DEF Goto
<1>2. worker'[w] \in Workers
  BY <1>0, <1>1, WorkerFields DEF Workers
<1>3. /\ worker' = [worker EXCEPT ![w] = worker'[w]]
      /\ \A v \in Worker : v # w => worker'[v] = worker[v]
  BY DEF Goto
<1> QED  BY <1>1, <1>2, <1>3 DEF SameAttempt

(* What Fail leaves alone.                                                  *)
LEMMA FailLemma ==
  ASSUME worker \in [Worker -> Workers], NEW w \in Worker,
         NEW error \in Errors, Fail(w, error)
  PROVE  /\ worker' \in [Worker -> Workers]
         /\ \A v \in Worker : v # w => worker'[v] = worker[v]
         /\ worker'[w].at = "failing"
         /\ SameAttempt(worker[w], worker'[w])
<1> DEFINE k == worker[w]
<1>0. k \in Workers  OBVIOUS
<1>a. worker'[w] = [k EXCEPT !.at = "failing", !.error = error]
  BY DEF Fail
<1>1. worker'[w] = [at |-> "failing", job |-> k.job, token |-> k.token,
                    retry_count |-> k.retry_count, built |-> k.built,
                    error |-> error]
  BY <1>0, <1>a DEF Workers
<1>2. worker'[w] \in Workers
  BY <1>0, <1>1, WorkerFields DEF Workers, Places
<1>3. /\ worker' = [worker EXCEPT ![w] = worker'[w]]
      /\ \A v \in Worker : v # w => worker'[v] = worker[v]
  BY DEF Fail
<1> QED  BY <1>1, <1>2, <1>3 DEF SameAttempt


(* What the lemmas on steps assume of the threads of every process.        *)
Moves(w) == /\ SameAttempt(worker[w], worker'[w])
            /\ worker[w].at \in HasJob <=> worker'[w].at \in HasJob
            /\ worker[w].at \in Registered => worker'[w].at \in Registered

(* Workers move within their attempts; rows, claims, candidates and leases  *)
(* stay as they are.                                                        *)
LEMMA WorkersMove ==
  ASSUME IInv, UNCHANGED <<row, claims, author, active>>,
         beat' \in [Proc -> Beats], proc' = proc, stops' = stops,
         worker' \in [Worker -> Workers],
         \A w \in Worker : Moves(w),
         \A w \in Worker : worker'[w].at = "persisting" =>
                             worker[w].at = "persisting" \/ Fence(w)
  PROVE  IInv'
<1>1. TypeOK'
  BY DEF IInv, TypeOK
<1>2. RetryAccounting' /\ RowToken' /\ CompletedByLastAttempt' /\ AuthorIssued'
  BY DEF IInv, RetryAccounting, RowToken, CompletedByLastAttempt, AuthorIssued
<1>3. WorkersWithJob'
  BY DEF IInv, WorkersWithJob, Moves, SameAttempt
<1>4. OneLeaseholder'
  BY DEF IInv, OneLeaseholder, Moves, SameAttempt
<1>5. PersistingOwnsRun'
  BY DEF IInv, PersistingOwnsRun, Moves, SameAttempt, Fence, LeaseMatches
<1>6. ClaimedRetryCount'
  BY DEF IInv, ClaimedRetryCount, Moves, SameAttempt
<1>7. ActiveLeaseHasWorker'
  BY DEF IInv, ActiveLeaseHasWorker, Moves, SameAttempt
<1> QED  BY <1>1, <1>2, <1>3, <1>4, <1>5, <1>6, <1>7 DEF IInv

(* Rows change without a run being claimed, released or settled; active     *)
(* leases may go.                                                           *)
LEMMA RowsKeepClaims ==
  ASSUME IInv, UNCHANGED <<claims, author, proc, worker, stops, active>>,
         beat' \in [Proc -> Beats],
         row' \in [Job -> Rows],
         \A j \in Job : SameClaim(row[j], row'[j])
  PROVE  IInv'
<1>1. TypeOK'
  BY DEF IInv, TypeOK
<1>2. RetryAccounting'
  BY DEF IInv, RetryAccounting, SameClaim
<1>3. RowToken'
  BY DEF IInv, RowToken, SameClaim
<1>4. PersistingOwnsRun'
  BY DEF IInv, PersistingOwnsRun, WorkersWithJob, HasJob, SameClaim
<1>5. ClaimedRetryCount'
  BY DEF IInv, ClaimedRetryCount, SameClaim
<1>6. CompletedByLastAttempt'
  BY DEF IInv, CompletedByLastAttempt, SameClaim
<1>7. WorkersWithJob' /\ OneLeaseholder' /\ AuthorIssued' /\ ActiveLeaseHasWorker'
  BY DEF IInv, WorkersWithJob, OneLeaseholder, AuthorIssued, ActiveLeaseHasWorker
<1> QED  BY <1>1, <1>2, <1>3, <1>4, <1>5, <1>6, <1>7 DEF IInv

(* What becomes of a running run when its attempt ends.                     *)
Ends(j) ==
  /\ row[j].status = "running"
  /\ row'[j].lease_token = NoToken
  /\ \/ row'[j].status = "requested" /\ row'[j].retry_count = row[j].retry_count + 1
     \/ row'[j].status = "failed" /\ row'[j].retry_count = row[j].retry_count
     \/ /\ row'[j].status = "completed"
        /\ row'[j].retry_count = row[j].retry_count
        /\ \A c \in Candidate : author'[j][c] = claims[j]
  /\ \A w \in Worker : ~(worker'[w].at = "persisting" /\ worker'[w].job = j)

(* Attempts end, by their worker or by recovery.                            *)
LEMMA AttemptsEnd ==
  ASSUME IInv, UNCHANGED <<claims, active, proc, stops>>,
         beat' \in [Proc -> Beats],
         row' \in [Job -> Rows],
         author' \in [Job -> [Candidate -> Tokens]],
         worker' \in [Worker -> Workers],
         \A w \in Worker : Moves(w),
         \A w \in Worker : worker'[w].at = "persisting" => worker[w].at = "persisting",
         \A j \in Job : (row'[j] = row[j] /\ author'[j] = author[j]) \/ Ends(j),
         \A j \in Job, c \in Candidate : author'[j][c] <= claims[j]
  PROVE  IInv'
<1>1. TypeOK'
  BY DEF IInv, TypeOK
<1>2. RetryAccounting'
  <2> SUFFICES ASSUME NEW j \in Job
               PROVE  claims'[j] = row'[j].retry_count
                        + (IF row'[j].status \in {"absent", "requested"}
                           THEN 0 ELSE 1)
    BY DEF RetryAccounting
  <2>1. /\ row[j].retry_count \in Nat
        /\ claims[j] = row[j].retry_count
             + (IF row[j].status \in {"absent", "requested"} THEN 0 ELSE 1)
    BY RowFields DEF IInv, TypeOK, RetryAccounting
  <2> QED  BY <2>1 DEF Ends
<1>3. RowToken'
  BY DEF IInv, RowToken, Ends
<1>4. WorkersWithJob'
  BY DEF IInv, WorkersWithJob, Moves, SameAttempt
<1>5. OneLeaseholder'
  BY DEF IInv, OneLeaseholder, Moves, SameAttempt
<1>6. PersistingOwnsRun'
  BY DEF IInv, PersistingOwnsRun, WorkersWithJob, HasJob, Moves, SameAttempt, Ends
<1>7. ClaimedRetryCount'
  BY DEF IInv, ClaimedRetryCount, Moves, SameAttempt, Ends
<1>8. CompletedByLastAttempt'
  BY DEF IInv, CompletedByLastAttempt, Ends
<1>9. AuthorIssued'
  BY DEF IInv, AuthorIssued
<1>10. ActiveLeaseHasWorker'
  BY DEF IInv, ActiveLeaseHasWorker, Moves, SameAttempt
<1> QED  BY <1>1, <1>2, <1>3, <1>4, <1>5, <1>6, <1>7, <1>8, <1>9, <1>10 DEF IInv

(* A row is claimed; the worker may have got the answer or not.             *)
LEMMA RowIsClaimed ==
  ASSUME IInv, NEW w \in Worker, NEW j \in Job, ClaimRow(w, j)
  PROVE  /\ row' \in [Job -> Rows]
         /\ row' = [row EXCEPT ![j] = ClaimedRow(row[j], ProcOf[w], claims[j] + 1)]
         /\ claims' = [claims EXCEPT ![j] = claims[j] + 1]
         /\ claims' \in [Job -> Tokens]
         /\ claims[j] + 1 \in Tokens
         /\ RetryAccounting' /\ RowToken' /\ CompletedByLastAttempt' /\ AuthorIssued'
<1>1. /\ row[j] \in Rows /\ claims[j] \in Tokens /\ row[j].status = "requested"
      /\ claims \in [Job -> Tokens] /\ row \in [Job -> Rows]
  BY DEF IInv, TypeOK, ClaimRow, Claimable
<1>2. claims[j] = row[j].retry_count
  BY <1>1, RowFields DEF IInv, RetryAccounting
<1>3. claims[j] + 1 \in Tokens
  BY <1>1, <1>2, RowFields DEF Tokens
<1>4. ClaimedRow(row[j], ProcOf[w], claims[j] + 1) \in Rows
  BY <1>1, <1>3, RowFields DEF ClaimedRow, Rows, Statuses
<1>5. /\ row' = [row EXCEPT ![j] = ClaimedRow(row[j], ProcOf[w], claims[j] + 1)]
      /\ claims' = [claims EXCEPT ![j] = claims[j] + 1]
      /\ author' = author
  BY DEF ClaimRow
<1>6. row' \in [Job -> Rows] /\ claims' \in [Job -> Tokens]
  BY <1>1, <1>3, <1>4, <1>5
<1>7. RetryAccounting'
  BY <1>1, <1>2, <1>5 DEF IInv, RetryAccounting, ClaimedRow
<1>8. RowToken'
  BY <1>1, <1>5 DEF IInv, RowToken, ClaimedRow
<1>9. CompletedByLastAttempt'
  BY <1>1, <1>5 DEF IInv, CompletedByLastAttempt, ClaimedRow
<1>10. AuthorIssued'
  BY <1>1, <1>5 DEF IInv, TypeOK, AuthorIssued, Tokens
<1> QED  BY <1>3, <1>5, <1>6, <1>7, <1>8, <1>9, <1>10

(* RECOVER_EXPIRED_SQL touches only expired, unlocked rows, and charges a    *)
(* retry to each row that it queues again.                                  *)
LEMMA RecoveredRowsLemma ==
  ASSUME IInv
  PROVE  /\ RecoveredRows \in [Job -> Rows]
         /\ \A j \in Job :
              \/ RecoveredRows[j] = row[j]
              \/ /\ row[j].status = "running" /\ row[j].ttl = 0 /\ ~Locked(j)
                 /\ RecoveredRows[j].lease_token = NoToken
                 /\ \/ /\ RecoveredRows[j].status = "requested"
                       /\ RecoveredRows[j].retry_count = row[j].retry_count + 1
                    \/ /\ RecoveredRows[j].status = "failed"
                       /\ RecoveredRows[j].retry_count = row[j].retry_count
<1>1. ASSUME NEW r \in Rows
      PROVE  RecoveredRow(r) \in Rows
  BY RowFields DEF RecoveredRow, RetriedRow, ReleasedRow, Rows, Statuses, Tokens, NoToken
<1>2. RecoveredRows \in [Job -> Rows]
  BY <1>1 DEF RecoveredRows, IInv, TypeOK
<1>3. ASSUME NEW j \in Job, Expired(j)
      PROVE  /\ RecoveredRows[j].lease_token = NoToken
             /\ \/ /\ RecoveredRows[j].status = "requested"
                   /\ RecoveredRows[j].retry_count = row[j].retry_count + 1
                \/ /\ RecoveredRows[j].status = "failed"
                   /\ RecoveredRows[j].retry_count = row[j].retry_count
  BY <1>3 DEF RecoveredRows, RecoveredRow, RetriedRow, ReleasedRow
<1> QED  BY <1>2, <1>3 DEF RecoveredRows, Expired

(* A worker's token was issued by a claim of its job.                        *)
LEMMA IssuedTokens ==
  ASSUME IInv, NEW w \in Worker
  PROVE  /\ worker[w].token \in Nat
         /\ worker[w].job \in Job => /\ claims[worker[w].job] \in Nat
                                     /\ 0 < worker[w].token
                                     /\ worker[w].token <= claims[worker[w].job]
<1>1. worker[w] \in Workers /\ claims \in [Job -> Tokens]
  BY DEF IInv, TypeOK
<1>2. Tokens \subseteq Nat
  BY DEF Tokens
<1>3. worker[w].job \in Job => worker[w].at \in HasJob
  BY DEF IInv, WorkersWithJob
<1> QED  BY <1>1, <1>2, <1>3, WorkerFields DEF IInv, WorkersWithJob

(* The empty table and the starting threads satisfy the invariant.          *)
LEMMA InitInv == Init => IInv
<1> SUFFICES ASSUME Init PROVE IInv
  OBVIOUS
<1>1. /\ AbsentRow \in Rows
      /\ Thread("starting") \in Workers
      /\ Sleeping \in Beats
      /\ NoToken \in Tokens
  BY DEF AbsentRow, Thread, Sleeping, NoLeases, NoToken, Tokens, Rows,
         Statuses, Workers, Places, Errors, Beats
<1>2. TypeOK
  BY <1>1 DEF Init, TypeOK, NoLeases, NoToken, Tokens
<1> QED
  BY <1>2 DEF Init, IInv, RetryAccounting, WorkersWithJob, HasJob, RowToken,
     OneLeaseholder, PersistingOwnsRun, ClaimedRetryCount,
     CompletedByLastAttempt, AuthorIssued, ActiveLeaseHasWorker,
     AbsentRow, Thread, NoLeases, NoToken

(* Every step keeps the invariant.                                          *)
LEMMA StepInv == IInv /\ [Next]_vars => IInv'
<1> SUFFICES ASSUME IInv, [Next]_vars
             PROVE  IInv'
  OBVIOUS
<1>t. /\ row \in [Job -> Rows] /\ worker \in [Worker -> Workers]
      /\ active \in [Proc -> [Job -> Tokens]] /\ beat \in [Proc -> Beats]
      /\ claims \in [Job -> Tokens] /\ author \in [Job -> [Candidate -> Tokens]]
  BY DEF IInv, TypeOK
<1>0. CASE UNCHANGED vars
  BY <1>0 DEF vars, IInv, TypeOK, RetryAccounting, WorkersWithJob, RowToken,
     OneLeaseholder, PersistingOwnsRun, ClaimedRetryCount,
     CompletedByLastAttempt, AuthorIssued, ActiveLeaseHasWorker
<1>1. ASSUME NEW j \in Job, Submit(j)
      PROVE  IInv'
  <2>1. /\ row' \in [Job -> Rows]
        /\ \A i \in Job : i # j => row'[i] = row[i]
        /\ row'[j].status = "requested"
        /\ row'[j].lease_token = row[j].lease_token
        /\ row'[j].retry_count = row[j].retry_count
        /\ row'[j].worker_id = row[j].worker_id
    <3>1. row'[j] = [row[j] EXCEPT !.status = "requested"]
      BY <1>1, <1>t DEF Submit
    <3>2. row'[j] \in Rows
      BY <3>1, <1>t DEF Rows, Statuses
    <3> QED  BY <1>1, <1>t, <3>1, <3>2 DEF Submit, Rows
  <2>2. UNCHANGED <<claims, author, proc, active, beat, worker, stops>>
        /\ row[j].status = "absent"
    BY <1>1 DEF Submit
  <2>3. TypeOK'
    BY <2>1, <2>2 DEF IInv, TypeOK
  <2>4. RetryAccounting' /\ RowToken'
    BY <2>1, <2>2 DEF IInv, RetryAccounting, RowToken
  <2>5. PersistingOwnsRun'
    BY <2>1, <2>2 DEF IInv, PersistingOwnsRun, WorkersWithJob, HasJob
  <2>6. ClaimedRetryCount' /\ CompletedByLastAttempt'
    BY <2>1, <2>2 DEF IInv, ClaimedRetryCount, CompletedByLastAttempt
  <2>7. WorkersWithJob' /\ OneLeaseholder' /\ AuthorIssued' /\ ActiveLeaseHasWorker'
    BY <2>2 DEF IInv, WorkersWithJob, OneLeaseholder, AuthorIssued, ActiveLeaseHasWorker
  <2> QED  BY <2>3, <2>4, <2>5, <2>6, <2>7 DEF IInv
<1>2. ASSUME NEW j \in Job, LeaseTick(j) \/ BackoffElapses(j)
      PROVE  IInv'
  <2>1. /\ \/ row'[j] = [row[j] EXCEPT !.ttl = row[j].ttl - 1] /\ row[j].ttl > 0
           \/ row'[j] = [row[j] EXCEPT !.due = TRUE]
        /\ row' = [row EXCEPT ![j] = row'[j]]
    BY <1>2, <1>t DEF LeaseTick, BackoffElapses
  <2>2. /\ row'[j] \in Rows
        /\ SameClaim(row[j], row'[j])
    <3>1. row[j] \in Rows /\ row[j].ttl \in 0 .. LeaseTicks
      BY <1>t, RowFields
    <3>2. CASE row'[j] = [row[j] EXCEPT !.ttl = row[j].ttl - 1] /\ row[j].ttl > 0
      <4>1. row[j].ttl - 1 \in 0 .. LeaseTicks
        BY <3>1, <3>2
      <4> QED  BY <3>1, <3>2, <4>1 DEF SameClaim, Rows
    <3>3. CASE row'[j] = [row[j] EXCEPT !.due = TRUE]
      BY <3>1, <3>3 DEF SameClaim, Rows
    <3> QED  BY <2>1, <3>2, <3>3
  <2>3. row' \in [Job -> Rows] /\ \A i \in Job : SameClaim(row[i], row'[i])
    BY <2>1, <2>2, <1>t DEF SameClaim
  <2> QED  BY <1>2, <1>t, <2>3, RowsKeepClaims DEF LeaseTick, BackoffElapses
<1>3. ASSUME NEW w \in Worker, WorkerStart(w)
      PROVE  IInv'
  <2>1. Goto(w, "idle") /\ "idle" \in Places /\ worker[w].at = "starting"
    BY <1>3 DEF WorkerStart, Places
  <2>2. /\ worker' \in [Worker -> Workers]
        /\ \A v \in Worker : Moves(v)
        /\ \A v \in Worker : worker'[v].at = "persisting" => worker[v].at = "persisting"
        /\ \A v \in Worker : worker'[v].job = worker[v].job
    BY <2>1, <1>t, GotoLemma DEF Moves, SameAttempt, HasJob, Registered
  <2>3. /\ row' \in [Job -> Rows]
        /\ \A j \in Job : row'[j] = row[j] \/ Ends(j)
    <3>1. row' = RecoveredRows \/ row' = row
      BY <1>3 DEF WorkerStart
    <3>2. ASSUME NEW j \in Job, ~Locked(j), NEW v \in Worker,
                 worker'[v].at = "persisting"
          PROVE  worker'[v].job # j
      BY <2>2, <3>2 DEF Locked
    <3> QED  BY <3>1, <3>2, <1>t, RecoveredRowsLemma DEF Ends
  <2> QED  BY <1>3, <1>t, <2>2, <2>3, AttemptsEnd DEF WorkerStart, IInv, AuthorIssued
<1>4. ASSUME NEW w \in Worker,
             TestStopClaiming(w) \/ ClaimNothing(w) \/ RecordFailureRaises(w)
      PROVE  IInv'
  <2>1. \E place \in Places :
           /\ Goto(w, place)
           /\ place # "persisting"
           /\ place \in HasJob <=> worker[w].at \in HasJob
           /\ worker[w].at \in Registered => place \in Registered
    BY <1>4 DEF TestStopClaiming, ClaimNothing, RecordFailureRaises, Places, HasJob, Registered
  <2>2. /\ worker' \in [Worker -> Workers]
        /\ \A v \in Worker : Moves(v)
        /\ \A v \in Worker : worker'[v].at = "persisting" => worker[v].at = "persisting"
    <3>1. PICK place \in Places :
             /\ Goto(w, place)
             /\ place # "persisting"
             /\ place \in HasJob <=> worker[w].at \in HasJob
             /\ worker[w].at \in Registered => place \in Registered
      BY <2>1
    <3>2. /\ worker' \in [Worker -> Workers]
          /\ \A v \in Worker : v # w => worker'[v] = worker[v]
          /\ worker'[w].at = place
          /\ SameAttempt(worker[w], worker'[w])
      BY <3>1, <1>t, GotoLemma
    <3> QED  BY <3>1, <3>2 DEF Moves, SameAttempt
  <2> QED
    BY <1>4, <1>t, <2>2, WorkersMove
    DEF TestStopClaiming, ClaimNothing, RecordFailureRaises, database
<1>5. ASSUME NEW w \in Worker, NEW j \in Job, ClaimNext(w, j)
      PROVE  IInv'
  <2>1. ClaimRow(w, j) /\ worker[w].at = "claiming"
    BY <1>5 DEF ClaimNext, ClaimRow
  <2>2. /\ UNCHANGED <<author, proc, active, beat, stops>>
        /\ row[j].status = "requested"
    BY <2>1 DEF ClaimRow, Claimable
  <2> DEFINE k == [at |-> "claimed", job |-> j, token |-> claims[j] + 1,
                   retry_count |-> row[j].retry_count, built |-> {},
                   error |-> "none"]
  <2>3. k \in Workers
    BY <2>1, <1>t, RowIsClaimed, RowFields DEF Workers, Places, Errors
  <2>4. /\ worker' \in [Worker -> Workers]
        /\ worker'[w] = k
        /\ \A v \in Worker : v # w => worker'[v] = worker[v]
    BY <1>5, <1>t, <2>3 DEF ClaimNext
  <2>5. /\ row'[j] = ClaimedRow(row[j], ProcOf[w], claims[j] + 1)
        /\ claims'[j] = claims[j] + 1
        /\ \A i \in Job : i # j => row'[i] = row[i] /\ claims'[i] = claims[i]
    BY <2>1, <1>t, RowIsClaimed
  <2>6. \A v \in Worker : worker[v].job = j => worker[v].token # claims[j] + 1
    BY <1>t, IssuedTokens
  <2>7. TypeOK'
    BY <2>1, <2>2, <2>4, RowIsClaimed DEF IInv, TypeOK
  <2>8. WorkersWithJob'
    <3>1. claims[j] \in Nat
      BY <1>t DEF Tokens
    <3> QED  BY <2>4, <2>5, <3>1, IssuedTokens DEF IInv, WorkersWithJob, HasJob
  <2>9. OneLeaseholder'
    BY <2>4, <2>6 DEF IInv, OneLeaseholder
  <2>10. PersistingOwnsRun'
    BY <2>2, <2>4, <2>5 DEF IInv, PersistingOwnsRun, WorkersWithJob, HasJob
  <2>11. ClaimedRetryCount'
    BY <2>4, <2>5, <2>6 DEF IInv, ClaimedRetryCount, ClaimedRow
  <2>12. ActiveLeaseHasWorker'
    BY <2>1, <2>2, <2>4 DEF IInv, ActiveLeaseHasWorker, Registered
  <2> QED
    BY <2>1, <2>7, <2>8, <2>9, <2>10, <2>11, <2>12, RowIsClaimed DEF IInv
<1>6. ASSUME NEW w \in Worker, NEW j \in Job, ClaimUnacknowledged(w, j)
      PROVE  IInv'
  <2>1. ClaimRow(w, j) /\ Goto(w, "idle") /\ "idle" \in Places
        /\ worker[w].at = "claiming"
    BY <1>6 DEF ClaimUnacknowledged, ClaimRow, Places
  <2>2. /\ UNCHANGED <<author, proc, active, beat, stops>>
        /\ row[j].status = "requested"
    BY <2>1 DEF ClaimRow, Claimable
  <2>3. /\ worker' \in [Worker -> Workers]
        /\ \A v \in Worker : Moves(v)
        /\ \A v \in Worker : worker'[v].at = "persisting" => worker[v].at = "persisting"
    BY <2>1, <1>t, GotoLemma DEF Moves, SameAttempt, HasJob, Registered
  <2>4. /\ row'[j] = ClaimedRow(row[j], ProcOf[w], claims[j] + 1)
        /\ claims'[j] = claims[j] + 1
        /\ \A i \in Job : i # j => row'[i] = row[i] /\ claims'[i] = claims[i]
    BY <2>1, <1>t, RowIsClaimed
  <2>5. \A v \in Worker : worker[v].job = j => worker[v].token # claims[j] + 1
    BY <1>t, IssuedTokens
  <2>6. TypeOK'
    BY <2>1, <2>2, <2>3, RowIsClaimed DEF IInv, TypeOK
  <2>7. WorkersWithJob'
    <3>1. claims[j] \in Nat
      BY <1>t DEF Tokens
    <3> QED  BY <2>3, <2>4, <3>1, IssuedTokens DEF IInv, WorkersWithJob, Moves, SameAttempt
  <2>8. OneLeaseholder'
    BY <2>3 DEF IInv, OneLeaseholder, Moves, SameAttempt
  <2>9. PersistingOwnsRun'
    BY <2>2, <2>3, <2>4 DEF IInv, PersistingOwnsRun, WorkersWithJob, HasJob, Moves, SameAttempt
  <2>10. ClaimedRetryCount'
    BY <2>3, <2>4, <2>5 DEF IInv, ClaimedRetryCount, ClaimedRow, Moves, SameAttempt
  <2>11. ActiveLeaseHasWorker'
    BY <2>2, <2>3 DEF IInv, ActiveLeaseHasWorker, Moves, SameAttempt
  <2> QED
    BY <2>1, <2>6, <2>7, <2>8, <2>9, <2>10, <2>11, RowIsClaimed DEF IInv
<1>7. ASSUME NEW w \in Worker, Register(w)
      PROVE  IInv'
  <2> DEFINE k == worker[w]
  <2>1. Goto(w, "loading") /\ "loading" \in Places /\ k.at = "claimed"
    BY <1>7 DEF Register, Places
  <2>2. /\ worker' \in [Worker -> Workers]
        /\ worker'[w].at = "loading"
        /\ \A v \in Worker : v # w => worker'[v] = worker[v]
        /\ \A v \in Worker : SameAttempt(worker[v], worker'[v])
    BY <2>1, <1>t, GotoLemma DEF SameAttempt
  <2>3. /\ k.job \in Job /\ k.token \in Tokens /\ k.token # NoToken
        /\ ProcOf[w] \in Proc
    <3>1. k.job \in Job /\ 0 < k.token
      BY <2>1 DEF IInv, WorkersWithJob, HasJob
    <3>2. k \in Workers
      BY <1>t
    <3> QED  BY <3>1, <3>2, WorkerFields DEF NoToken
  <2>4. /\ active' = [active EXCEPT ![ProcOf[w]] = [@ EXCEPT ![k.job] = k.token]]
        /\ UNCHANGED <<row, claims, author, proc, beat, stops>>
    BY <1>7 DEF Register, database
  <2>5. /\ active' \in [Proc -> [Job -> Tokens]]
        /\ \A p \in Proc, j \in Job :
             active'[p][j] = IF p = ProcOf[w] /\ j = k.job THEN k.token
                             ELSE active[p][j]
    BY <2>3, <2>4, <1>t
  <2>6. TypeOK'
    BY <2>2, <2>4, <2>5 DEF IInv, TypeOK
  <2>7. RetryAccounting' /\ RowToken' /\ CompletedByLastAttempt' /\ AuthorIssued'
    BY <2>4 DEF IInv, RetryAccounting, RowToken, CompletedByLastAttempt, AuthorIssued
  <2>8. WorkersWithJob'
    BY <2>1, <2>2, <2>4 DEF IInv, WorkersWithJob, HasJob, SameAttempt
  <2>9. OneLeaseholder' /\ ClaimedRetryCount'
    BY <2>2, <2>4 DEF IInv, OneLeaseholder, ClaimedRetryCount, SameAttempt
  <2>10. PersistingOwnsRun'
    BY <2>2, <2>4 DEF IInv, PersistingOwnsRun, SameAttempt
  <2>11. ActiveLeaseHasWorker'
    <3> SUFFICES ASSUME NEW p \in Proc, NEW j \in Job, active'[p][j] # NoToken
                 PROVE  \E v \in Worker : /\ ProcOf[v] = p
                                          /\ worker'[v].at \in Registered
                                          /\ worker'[v].job = j
                                          /\ worker'[v].token = active'[p][j]
      BY DEF ActiveLeaseHasWorker
    <3>1. CASE p = ProcOf[w] /\ j = k.job
      BY <3>1, <2>2, <2>5 DEF SameAttempt, Registered
    <3>2. CASE ~(p = ProcOf[w] /\ j = k.job)
      <4>1. PICK v \in Worker : /\ ProcOf[v] = p
                                /\ worker[v].at \in Registered
                                /\ worker[v].job = j
                                /\ worker[v].token = active[p][j]
        BY <3>2, <2>5 DEF IInv, ActiveLeaseHasWorker
      <4>2. v # w
        BY <2>1, <4>1 DEF Registered
      <4> QED  BY <2>2, <2>5, <3>2, <4>1, <4>2
    <3> QED  BY <3>1, <3>2
  <2> QED  BY <2>6, <2>7, <2>8, <2>9, <2>10, <2>11 DEF IInv
<1>8. ASSUME NEW w \in Worker, LoadExistingCandidates(w)
      PROVE  IInv'
  <2> DEFINE B == {c \in Candidate : author[worker[w].job][c] # NoToken}
  <2>1. /\ worker' = [worker EXCEPT ![w] = worker'[w]]
        /\ worker'[w] = [worker[w] EXCEPT !.at = "building", !.built = B]
        /\ worker[w].at = "loading"
    BY <1>8, <1>t DEF LoadExistingCandidates
  <2>2. /\ worker'[w] \in Workers
        /\ worker'[w].at = "building"
        /\ SameAttempt(worker[w], worker'[w])
    <3>1. worker[w] \in Workers /\ B \in SUBSET Candidate
      BY <1>t
    <3> HIDE DEF B
    <3> QED  BY <2>1, <3>1 DEF Workers, Places, SameAttempt
  <2>3. /\ worker' \in [Worker -> Workers]
        /\ \A v \in Worker : v # w => worker'[v] = worker[v]
    BY <2>1, <2>2, <1>t
  <2>4. /\ \A v \in Worker : Moves(v)
        /\ \A v \in Worker : worker'[v].at = "persisting" => worker[v].at = "persisting"
    BY <2>1, <2>2, <2>3 DEF Moves, SameAttempt, HasJob, Registered
  <2> QED
    BY <1>8, <1>t, <2>3, <2>4, WorkersMove DEF LoadExistingCandidates, database
<1>9. ASSUME NEW w \in Worker, NEW c \in Candidate, CheckpointCandidate(w, c)
      PROVE  IInv'
  <2> DEFINE k == worker[w]
  <2>1. /\ k.at = "building" /\ k.job \in Job
        /\ UNCHANGED <<row, claims, proc, active, beat, stops>>
    BY <1>9, <1>t DEF CheckpointCandidate, IInv, WorkersWithJob, HasJob
  <2>2. CASE Fence(w)
    <3>1. /\ author' = [author EXCEPT ![k.job][c] = k.token]
          /\ worker' = [worker EXCEPT ![w].built = @ \cup {c}]
      BY <1>9, <2>2 DEF CheckpointCandidate
    <3>2. /\ row[k.job].status = "running"
          /\ k.token = claims[k.job] /\ k.token \in Tokens
      BY <2>1, <2>2, <1>t DEF Fence, LeaseMatches, IInv, RowToken
    <3>3. /\ worker'[w] = [k EXCEPT !.built = k.built \cup {c}]
          /\ \A v \in Worker : v # w => worker'[v] = worker[v]
      BY <3>1, <1>t
    <3>4. /\ worker'[w] \in Workers
          /\ worker'[w].at = "building"
          /\ SameAttempt(k, worker'[w])
      <4>1. k \in Workers /\ k.built \cup {c} \in SUBSET Candidate
        BY <1>t, WorkerFields
      <4> QED  BY <2>1, <3>3, <4>1 DEF Workers, SameAttempt
    <3>5. /\ worker' \in [Worker -> Workers]
          /\ \A v \in Worker : SameAttempt(worker[v], worker'[v])
          /\ \A v \in Worker : worker'[v].at = worker[v].at
      BY <2>1, <3>1, <3>3, <3>4, <1>t DEF SameAttempt
    <3>6. /\ author' \in [Job -> [Candidate -> Tokens]]
          /\ \A j \in Job, d \in Candidate :
               author'[j][d] = IF j = k.job /\ d = c THEN claims[j] ELSE author[j][d]
      BY <2>1, <3>1, <3>2, <1>t
    <3>7. TypeOK'
      BY <2>1, <3>5, <3>6 DEF IInv, TypeOK
    <3>8. RetryAccounting' /\ RowToken'
      BY <2>1 DEF IInv, RetryAccounting, RowToken
    <3>9. WorkersWithJob' /\ OneLeaseholder' /\ ClaimedRetryCount'
      BY <2>1, <3>5 DEF IInv, WorkersWithJob, OneLeaseholder, ClaimedRetryCount, SameAttempt
    <3>10. PersistingOwnsRun'
      BY <2>1, <3>5 DEF IInv, PersistingOwnsRun, SameAttempt
    <3>11. CompletedByLastAttempt'
      BY <2>1, <3>6 DEF IInv, CompletedByLastAttempt
    <3>12. AuthorIssued'
      <4>1. \A j \in Job : claims[j] <= claims[j]
        BY <1>t DEF Tokens
      <4> QED  BY <2>1, <3>6, <4>1 DEF IInv, AuthorIssued
    <3>13. ActiveLeaseHasWorker'
      BY <2>1, <3>5 DEF IInv, ActiveLeaseHasWorker, SameAttempt
    <3> QED  BY <3>7, <3>8, <3>9, <3>10, <3>11, <3>12, <3>13 DEF IInv
  <2>3. CASE ~Fence(w)
    <3>1. Fail(w, "permanent") /\ "permanent" \in Errors /\ author' = author
      BY <1>9, <2>3 DEF CheckpointCandidate, Errors
    <3>2. /\ worker' \in [Worker -> Workers]
          /\ \A v \in Worker : Moves(v)
          /\ \A v \in Worker : worker'[v].at = "persisting" => worker[v].at = "persisting"
      BY <2>1, <3>1, <1>t, FailLemma DEF Moves, SameAttempt, HasJob, Registered
    <3> QED  BY <2>1, <3>1, <3>2, <1>t, WorkersMove
  <2> QED  BY <2>2, <2>3
<1>10. ASSUME NEW w \in Worker, NEW e \in {"retryable", "permanent"},
              WorkFails(w, e) \/ PersistFails(w, e)
       PROVE  IInv'
  <2>1. /\ Fail(w, e) /\ e \in Errors
        /\ worker[w].at \in {"loading", "building", "persisting"}
        /\ UNCHANGED <<row, claims, author, proc, active, beat, stops>>
    BY <1>10 DEF WorkFails, PersistFails, Errors, database
  <2>2. /\ worker' \in [Worker -> Workers]
        /\ \A v \in Worker : Moves(v)
        /\ \A v \in Worker : worker'[v].at = "persisting" => worker[v].at = "persisting"
    BY <2>1, <1>t, FailLemma DEF Moves, SameAttempt, HasJob, Registered
  <2> QED  BY <2>1, <2>2, <1>t, WorkersMove
<1>11. ASSUME NEW w \in Worker, PersistBegin(w)
       PROVE  IInv'
  <2>1. /\ worker[w].at = "building" /\ "persisting" \in Places /\ "permanent" \in Errors
        /\ \/ Fence(w) /\ Goto(w, "persisting")
           \/ Fail(w, "permanent")
        /\ UNCHANGED <<row, claims, author, proc, active, beat, stops>>
    BY <1>11 DEF PersistBegin, Places, Errors, database
  <2>2. /\ worker' \in [Worker -> Workers]
        /\ \A v \in Worker : Moves(v)
        /\ \A v \in Worker : worker'[v].at = "persisting" =>
                               worker[v].at = "persisting" \/ Fence(v)
    BY <2>1, <1>t, FailLemma, GotoLemma DEF Moves, SameAttempt, HasJob, Registered
  <2> QED  BY <2>1, <2>2, <1>t, WorkersMove
<1>12. ASSUME NEW w \in Worker, PersistCommit(w)
       PROVE  IInv'
  <2> DEFINE k == worker[w]
  <2>1. /\ k.at = "persisting" /\ Goto(w, "finishing") /\ "finishing" \in Places
        /\ UNCHANGED <<claims, proc, active, beat, stops>>
        /\ author' = [author EXCEPT ![k.job] = [c \in Candidate |-> k.token]]
        /\ row' = [row EXCEPT ![k.job] = ReleasedRow(row[k.job], "completed")]
    BY <1>12 DEF PersistCommit, Places
  <2>2. /\ k.job \in Job /\ k.token = claims[k.job]
        /\ row[k.job].status = "running"
        /\ k.token \in Tokens
    BY <2>1, <1>t DEF IInv, WorkersWithJob, HasJob, PersistingOwnsRun, RowToken
  <2>3. ReleasedRow(row[k.job], "completed") \in Rows
    BY <2>2, <1>t, RowFields DEF ReleasedRow, Rows, Statuses, Tokens, NoToken
  <2>4. /\ row' \in [Job -> Rows]
        /\ author' \in [Job -> [Candidate -> Tokens]]
        /\ \A j \in Job : j # k.job => row'[j] = row[j] /\ author'[j] = author[j]
        /\ row'[k.job] = ReleasedRow(row[k.job], "completed")
        /\ \A c \in Candidate : author'[k.job][c] = claims[k.job]
    BY <2>1, <2>2, <2>3, <1>t
  <2>5. /\ worker' \in [Worker -> Workers]
        /\ worker'[w].at = "finishing"
        /\ \A v \in Worker : Moves(v)
        /\ \A v \in Worker : worker'[v].at = "persisting" =>
                               worker[v].at = "persisting" /\ v # w
    BY <2>1, <1>t, GotoLemma DEF Moves, SameAttempt, HasJob, Registered
  <2>6. ASSUME NEW v \in Worker, worker'[v].at = "persisting", worker'[v].job = k.job
        PROVE  FALSE
    <3>1. /\ worker[v].at = "persisting" /\ v # w /\ worker[v].job = k.job
      BY <2>5, <2>6 DEF Moves, SameAttempt
    <3>2. worker[v].token = k.token
      BY <2>1, <3>1 DEF IInv, PersistingOwnsRun
    <3> QED  BY <2>2, <3>1, <3>2 DEF IInv, OneLeaseholder
  <2>7. Ends(k.job)
    BY <2>2, <2>4, <2>6 DEF Ends, ReleasedRow
  <2>8. \A j \in Job, c \in Candidate : author'[j][c] <= claims[j]
    BY <2>4, <1>t DEF IInv, AuthorIssued, Tokens
  <2> QED  BY <2>1, <2>4, <2>5, <2>7, <2>8, <1>t, AttemptsEnd
<1>13. ASSUME NEW w \in Worker, RecordFailure(w)
       PROVE  IInv'
  <2> DEFINE k == worker[w]
  <2>1. /\ k.at = "failing" /\ Goto(w, "finishing") /\ "finishing" \in Places
        /\ ~Locked(k.job)
        /\ UNCHANGED <<claims, author, proc, active, beat, stops>>
    BY <1>13 DEF RecordFailure, Places
  <2>2. /\ worker' \in [Worker -> Workers]
        /\ \A v \in Worker : Moves(v)
        /\ \A v \in Worker : worker'[v].at = "persisting" => worker[v].at = "persisting"
    BY <2>1, <1>t, GotoLemma DEF Moves, SameAttempt, HasJob, Registered
  <2>3. CASE ~Fence(w)
    <3>1. row' = row
      BY <1>13, <2>3 DEF RecordFailure
    <3> QED  BY <2>1, <2>2, <3>1, <1>t, WorkersMove
  <2>4. CASE Fence(w)
    <3>1. /\ k.job \in Job /\ row[k.job].status = "running"
          /\ k.retry_count = row[k.job].retry_count
      BY <2>1, <2>4, <1>t DEF IInv, WorkersWithJob, HasJob, ClaimedRetryCount, Fence, LeaseMatches
    <3> DEFINE r == row[k.job]
               s == IF ShouldRetry(k) THEN RetriedRow(r) ELSE ReleasedRow(r, "failed")
    <3>2. row' = [row EXCEPT ![k.job] = s]
      BY <1>13, <2>4 DEF RecordFailure
    <3>3. /\ s \in Rows
          /\ s.lease_token = NoToken
          /\ \/ s.status = "requested" /\ s.retry_count = r.retry_count + 1
             \/ s.status = "failed" /\ s.retry_count = r.retry_count
      BY <3>1, <1>t, RowFields
      DEF ShouldRetry, RetriedRow, ReleasedRow, Rows, Statuses, Tokens, NoToken
    <3>4. \A v \in Worker : ~(worker'[v].at = "persisting" /\ worker'[v].job = k.job)
      BY <2>1, <2>2 DEF Locked, Moves, SameAttempt
    <3>5. row' \in [Job -> Rows] /\ \A j \in Job : row'[j] = row[j] \/ Ends(j)
      BY <3>1, <3>2, <3>3, <3>4, <1>t DEF Ends
    <3> QED  BY <2>1, <2>2, <3>5, <1>t, AttemptsEnd DEF IInv, AuthorIssued
  <2> QED  BY <2>3, <2>4
<1>14. ASSUME NEW w \in Worker, Unregister(w)
       PROVE  IInv'
  <2> DEFINE k == worker[w]
  <2>1. /\ k.at = "finishing" /\ k.job \in Job /\ k.token \in Tokens
        /\ ProcOf[w] \in Proc /\ Thread("idle") \in Workers
        /\ UNCHANGED <<row, claims, author, proc, beat, stops>>
    BY <1>14, <1>t DEF Unregister, database, IInv, WorkersWithJob, HasJob, Tokens,
       Thread, Workers, Places, Errors, NoToken
  <2>2. /\ worker' \in [Worker -> Workers]
        /\ worker'[w] = Thread("idle")
        /\ \A v \in Worker : v # w => worker'[v] = worker[v]
    BY <1>14, <2>1, <1>t DEF Unregister
  <2>3. /\ active' \in [Proc -> [Job -> Tokens]]
        /\ \A p \in Proc, j \in Job :
             active'[p][j] = IF p = ProcOf[w] /\ j = k.job /\ active[p][j] = k.token
                             THEN NoToken ELSE active[p][j]
    <3>1. CASE active[ProcOf[w]][k.job] = k.token
      <4>1. active' = [active EXCEPT ![ProcOf[w]] = [@ EXCEPT ![k.job] = NoToken]]
        BY <1>14, <3>1 DEF Unregister, Unregistered
      <4> QED  BY <2>1, <3>1, <4>1, <1>t DEF Tokens, NoToken
    <3>2. CASE active[ProcOf[w]][k.job] # k.token
      BY <1>14, <3>2, <1>t DEF Unregister, Unregistered
    <3> QED  BY <3>1, <3>2
  <2>4. TypeOK'
    BY <2>1, <2>2, <2>3 DEF IInv, TypeOK
  <2>5. RetryAccounting' /\ RowToken' /\ CompletedByLastAttempt' /\ AuthorIssued'
    BY <2>1 DEF IInv, RetryAccounting, RowToken, CompletedByLastAttempt, AuthorIssued
  <2>6. WorkersWithJob'
    BY <2>1, <2>2 DEF IInv, WorkersWithJob, HasJob, Thread
  <2>7. OneLeaseholder' /\ ClaimedRetryCount' /\ PersistingOwnsRun'
    BY <2>1, <2>2 DEF IInv, OneLeaseholder, ClaimedRetryCount, PersistingOwnsRun, Thread
  <2>8. ActiveLeaseHasWorker'
    <3> SUFFICES ASSUME NEW p \in Proc, NEW j \in Job, active'[p][j] # NoToken
                 PROVE  \E v \in Worker : /\ ProcOf[v] = p
                                          /\ worker'[v].at \in Registered
                                          /\ worker'[v].job = j
                                          /\ worker'[v].token = active'[p][j]
      BY DEF ActiveLeaseHasWorker
    <3>1. PICK v \in Worker : /\ ProcOf[v] = p
                              /\ worker[v].at \in Registered
                              /\ worker[v].job = j
                              /\ worker[v].token = active[p][j]
      BY <2>3 DEF IInv, ActiveLeaseHasWorker
    <3>2. v # w
      BY <2>3, <3>1
    <3> QED  BY <2>2, <2>3, <3>1, <3>2
  <2> QED  BY <2>4, <2>5, <2>6, <2>7, <2>8 DEF IInv
<1>15. ASSUME NEW p \in Proc, BeatStart(p)
       PROVE  IInv'
  <2> DEFINE b == IF proc[p] = "quiesced"
                  THEN [at |-> "stopped", leases |-> NoLeases]
                  ELSE [at |-> "beat", leases |-> active[p]]
  <2>1. b \in Beats
    BY <1>t DEF Beats, NoLeases, NoToken, Tokens
  <2>2. beat' \in [Proc -> Beats]
    BY <1>15, <1>t, <2>1 DEF BeatStart
  <2> QED
    BY <1>15, <2>2, <1>t, RowsKeepClaims DEF BeatStart, database, SameClaim
<1>16. ASSUME NEW p \in Proc, RecoverExpired(p)
       PROVE  IInv'
  <2>1. beat' \in [Proc -> Beats]
    <3>1. beat'[p] = [beat[p] EXCEPT !.at = "wait"]
      BY <1>16, <1>t DEF RecoverExpired
    <3>2. beat'[p] \in Beats
      BY <3>1, <1>t DEF Beats
    <3> QED  BY <1>16, <3>2, <1>t DEF RecoverExpired
  <2>2. /\ row' = RecoveredRows \/ row' = row
        /\ UNCHANGED <<claims, author, proc, active, worker, stops>>
    BY <1>16 DEF RecoverExpired
  <2>3. \A v \in Worker : Moves(v)
    BY <2>2 DEF Moves, SameAttempt
  <2>4. row' \in [Job -> Rows] /\ \A j \in Job : row'[j] = row[j] \/ Ends(j)
    BY <2>2, <1>t, RecoveredRowsLemma DEF Ends, Locked
  <2> QED  BY <2>1, <2>2, <2>3, <2>4, <1>t, AttemptsEnd DEF IInv, AuthorIssued
<1>17. ASSUME NEW p \in Proc, NEW j \in Job, Heartbeat(p, j)
       PROVE  beat' \in [Proc -> Beats]
  <2>1. beat[p] \in Beats /\ beat' = [beat EXCEPT ![p].leases[j] = NoToken]
    BY <1>17, <1>t DEF Heartbeat
  <2>2. beat'[p] = [beat[p] EXCEPT !.leases = [beat[p].leases EXCEPT ![j] = NoToken]]
    BY <2>1, <1>t
  <2>3. [beat[p].leases EXCEPT ![j] = NoToken] \in [Job -> Tokens]
    BY <2>1 DEF Beats, Tokens, NoToken
  <2>4. beat'[p] \in Beats
    BY <2>1, <2>2, <2>3 DEF Beats
  <2> QED  BY <2>1, <2>4, <1>t
<1>18. ASSUME NEW p \in Proc, NEW j \in Job, HeartbeatLease(p, j)
       PROVE  IInv'
  <2> DEFINE token == beat[p].leases[j]
  <2>1. /\ beat' \in [Proc -> Beats]
        /\ UNCHANGED <<claims, author, proc, worker, stops>>
    BY <1>17, <1>18 DEF HeartbeatLease
  <2>2. CASE LeaseMatches(row[j], p, token)
    <3>1. row' = [row EXCEPT ![j].ttl = LeaseTicks] /\ active' = active
      BY <1>18, <2>2 DEF HeartbeatLease
    <3>2. row'[j] = [row[j] EXCEPT !.ttl = LeaseTicks]
      BY <3>1, <1>t
    <3>3. row'[j] \in Rows /\ SameClaim(row[j], row'[j])
      <4>1. row[j] \in Rows /\ LeaseTicks \in 0 .. LeaseTicks
        BY <1>t
      <4> QED  BY <3>2, <4>1 DEF Rows, SameClaim
    <3>4. row' \in [Job -> Rows] /\ \A i \in Job : SameClaim(row[i], row'[i])
      BY <3>1, <3>3, <1>t DEF SameClaim
    <3> QED  BY <2>1, <3>1, <3>4, RowsKeepClaims
  <2>3. CASE ~LeaseMatches(row[j], p, token)
    <3>1. active' = Unregistered(p, j, token) /\ row' = row
      BY <1>18, <2>3 DEF HeartbeatLease
    <3>2. /\ active' \in [Proc -> [Job -> Tokens]]
          /\ \A q \in Proc, i \in Job : active'[q][i] \in {NoToken, active[q][i]}
      BY <3>1, <1>t DEF Unregistered, Tokens, NoToken
    <3>3. TypeOK'
      BY <2>1, <3>1, <3>2 DEF IInv, TypeOK
    <3>4. RetryAccounting' /\ RowToken' /\ CompletedByLastAttempt' /\ AuthorIssued'
      BY <2>1, <3>1 DEF IInv, RetryAccounting, RowToken, CompletedByLastAttempt, AuthorIssued
    <3>5. WorkersWithJob' /\ OneLeaseholder' /\ PersistingOwnsRun' /\ ClaimedRetryCount'
      BY <2>1, <3>1 DEF IInv, WorkersWithJob, OneLeaseholder, PersistingOwnsRun, ClaimedRetryCount
    <3>6. ActiveLeaseHasWorker'
      BY <2>1, <3>2 DEF IInv, ActiveLeaseHasWorker
    <3> QED  BY <3>3, <3>4, <3>5, <3>6 DEF IInv
  <2> QED  BY <2>2, <2>3
<1>19. ASSUME NEW p \in Proc, NEW j \in Job, HeartbeatRaises(p, j)
       PROVE  IInv'
  BY <1>17, <1>19, <1>t, RowsKeepClaims DEF HeartbeatRaises, database, SameClaim
<1>20. ASSUME NEW p \in Proc, Shutdown(p) \/ StopHeartbeat(p)
       PROVE  IInv'
  <2>1. UNCHANGED <<row, claims, author, active, beat, worker>>
    BY <1>20 DEF Shutdown, StopHeartbeat, database
  <2>2. /\ proc' \in [Proc -> {"up", "draining", "quiesced", "down"}]
        /\ stops' \in 0 .. MaxStops
    BY <1>20 DEF Shutdown, StopHeartbeat, IInv, TypeOK
  <2>3. TypeOK'
    BY <2>1, <2>2 DEF IInv, TypeOK
  <2> QED
    BY <2>1, <2>3 DEF IInv, RetryAccounting, WorkersWithJob, RowToken,
       OneLeaseholder, PersistingOwnsRun, ClaimedRetryCount,
       CompletedByLastAttempt, AuthorIssued, ActiveLeaseHasWorker
<1>21. ASSUME NEW p \in Proc, NEW place \in {"down", "starting"},
              Coordinator(p, place),
              proc' \in [Proc -> {"up", "draining", "quiesced", "down"}],
              stops' \in 0 .. MaxStops
       PROVE  IInv'
  <2>1. Thread(place) \in Workers
    BY DEF Thread, Workers, Places, Tokens, NoToken, Errors
  <2>2. /\ worker' \in [Worker -> Workers]
        /\ \A w \in Worker : worker'[w] = IF ProcOf[w] = p THEN Thread(place)
                                          ELSE worker[w]
    BY <1>21, <2>1, <1>t DEF Coordinator
  <2>3. /\ active' \in [Proc -> [Job -> Tokens]]
        /\ \A q \in Proc, j \in Job :
             active'[q][j] # NoToken => q # p /\ active'[q][j] = active[q][j]
    BY <1>21, <1>t DEF Coordinator, NoLeases, NoToken, Tokens
  <2>4. Sleeping \in Beats
    BY DEF Sleeping, Beats, NoLeases, NoToken, Tokens
  <2>5. beat' \in [Proc -> Beats] /\ UNCHANGED <<row, claims, author>>
    BY <1>21, <2>4, <1>t DEF Coordinator, database
  <2>6. TypeOK'
    BY <1>21, <2>2, <2>3, <2>5 DEF IInv, TypeOK
  <2>7. RetryAccounting' /\ RowToken' /\ CompletedByLastAttempt' /\ AuthorIssued'
    BY <2>5 DEF IInv, RetryAccounting, RowToken, CompletedByLastAttempt, AuthorIssued
  <2>8. WorkersWithJob'
    BY <1>21, <2>2, <2>5 DEF IInv, WorkersWithJob, Thread, HasJob
  <2>9. OneLeaseholder'
    BY <2>2 DEF IInv, OneLeaseholder, Thread
  <2>10. PersistingOwnsRun' /\ ClaimedRetryCount'
    BY <1>21, <2>2, <2>5 DEF IInv, PersistingOwnsRun, ClaimedRetryCount, Thread
  <2>11. ActiveLeaseHasWorker'
    BY <2>2, <2>3 DEF IInv, ActiveLeaseHasWorker
  <2> QED  BY <2>6, <2>7, <2>8, <2>9, <2>10, <2>11 DEF IInv
<1>22. ASSUME NEW p \in Proc, Crash(p) \/ Exit(p) \/ Restart(p)
       PROVE  IInv'
  <2>1. /\ Coordinator(p, "down") \/ Coordinator(p, "starting")
        /\ proc' \in [Proc -> {"up", "draining", "quiesced", "down"}]
        /\ stops' \in 0 .. MaxStops
    <3>1. Coordinator(p, "down") \/ Coordinator(p, "starting")
      BY <1>22 DEF Crash, Exit, Restart
    <3>2. proc' = [proc EXCEPT ![p] = "down"] \/ proc' = [proc EXCEPT ![p] = "up"]
      BY <1>22 DEF Crash, Exit, Restart
    <3>3. stops' = stops \/ (stops < MaxStops /\ stops' = stops + 1)
      BY <1>22 DEF Crash, Exit, Restart
    <3> QED  BY <3>1, <3>2, <3>3 DEF IInv, TypeOK
  <2> QED  BY <1>21, <2>1
<1> QED
  BY <1>0, <1>1, <1>2, <1>3, <1>4, <1>5, <1>6, <1>7, <1>8, <1>9, <1>10, <1>11,
     <1>12, <1>13, <1>14, <1>15, <1>16, <1>18, <1>19, <1>20, <1>22
  DEF Next, WorkerStep, HeartbeatStep, ProcessStep

(* The invariant holds in every reachable state.                            *)
THEOREM InductiveInvariant == Safety => []IInv
<1> QED  BY InitInv, StepInv, PTL DEF Safety

(* Types; among others, no run ever has more than MaxRetries + 1 claims.     *)
THEOREM TypeCorrect == Safety => []TypeOK
BY InductiveInvariant, PTL DEF IInv

(* However attempts end -- recorded failure, crash, lost answer, expired     *)
(* lease, or several of these racing -- each claim costs exactly one retry.  *)
THEOREM AttemptsAreCounted == Safety => []RetryAccounting
BY InductiveInvariant, PTL DEF IInv

(* An entry of _active_leases never outlives the worker thread that made it, *)
(* so that the heartbeat thread renews no lease that nobody works under.     *)
THEOREM ActiveLeasesHaveWorkers == Safety => []ActiveLeaseHasWorker
BY InductiveInvariant, PTL DEF IInv

(* The multi-statement transaction of _persist_success owns its run from the *)
(* first fenced upsert to the commit, even if its lease expires meanwhile.   *)
THEOREM SuccessTransactionIsSafe == Safety => []PersistingOwnsRun
BY InductiveInvariant, PTL DEF IInv

(* All candidates of a completed run were written or confirmed by the        *)
(* attempt that completed it.                                               *)
THEOREM CompletionIsWhole == Safety => []CompletedByLastAttempt
BY InductiveInvariant, PTL DEF IInv

(* What any step may do to a run. *)
JobStep(j) ==
  \/ row'[j] = row[j] /\ claims'[j] = claims[j] /\ author'[j] = author[j]
  \/ /\ row[j].status = "absent" /\ row'[j].lease_token = row[j].lease_token
     /\ author'[j] = author[j]
  \/ /\ row[j].status \in {"requested", "running"} /\ SameClaim(row[j], row'[j])
     /\ author'[j] = author[j]
  \/ row[j].status = "requested" /\ author'[j] = author[j]
  \/ /\ row[j].status = "running" /\ row'[j] = row[j]
     /\ \E c \in Candidate : author'[j] = [author[j] EXCEPT ![c] = claims[j]]
  \/ /\ row[j].status = "running" /\ row[j].ttl = 0 /\ author'[j] = author[j]
  \/ /\ row[j].status = "running"
     /\ author'[j] = author[j] \/ author'[j] = [c \in Candidate |-> claims[j]]
     /\ \E w \in Worker : /\ worker[w].at \in {"persisting", "failing"}
                          /\ worker'[w].at = "finishing"
                          /\ worker[w].job = j
                          /\ worker[w].token = row[j].lease_token

(* Every step of the system treats every run in one of these ways.          *)
LEMMA JobSteps ==
  ASSUME IInv, [Next]_vars, NEW j \in Job
  PROVE  JobStep(j)
<1>t. /\ row \in [Job -> Rows] /\ worker \in [Worker -> Workers]
      /\ claims \in [Job -> Tokens] /\ author \in [Job -> [Candidate -> Tokens]]
  BY DEF IInv, TypeOK
<1>0. CASE UNCHANGED database
  BY <1>0 DEF database, JobStep
<1>1. ASSUME NEW i \in Job, Submit(i) \/ LeaseTick(i) \/ BackoffElapses(i)
      PROVE  JobStep(j)
  <2>1. CASE i # j
    BY <1>1, <1>t, <2>1 DEF Submit, LeaseTick, BackoffElapses, JobStep
  <2>2. CASE i = j
    <3>1. row[j] \in Rows
      BY <1>t
    <3>2. CASE Submit(j)
      BY <3>1, <3>2, <1>t DEF Submit, Rows, JobStep
    <3>3. CASE LeaseTick(j)
      BY <3>1, <3>3, <1>t DEF LeaseTick, Rows, JobStep, SameClaim
    <3>4. CASE BackoffElapses(j)
      BY <3>1, <3>4, <1>t DEF BackoffElapses, Rows, JobStep, SameClaim
    <3> QED  BY <1>1, <2>2, <3>2, <3>3, <3>4
  <2> QED  BY <2>1, <2>2
<1>2. ASSUME row' = RecoveredRows, UNCHANGED <<claims, author>>
      PROVE  JobStep(j)
  BY <1>2, RecoveredRowsLemma DEF JobStep
<1>3. ASSUME NEW w \in Worker, NEW i \in Job, ClaimRow(w, i)
      PROVE  JobStep(j)
  BY <1>3, <1>t DEF ClaimRow, Claimable, JobStep
<1>4. ASSUME NEW w \in Worker, NEW c \in Candidate, CheckpointCandidate(w, c)
      PROVE  JobStep(j)
  <2>1. CASE Fence(w) /\ worker[w].job = j
    <3>1. row[j].status = "running" /\ worker[w].token = claims[j]
      BY <2>1 DEF Fence, LeaseMatches, IInv, RowToken
    <3>2. row' = row /\ author' = [author EXCEPT ![j][c] = worker[w].token]
      BY <1>4, <2>1 DEF CheckpointCandidate
    <3>3. author'[j] = [author[j] EXCEPT ![c] = claims[j]]
      BY <3>1, <3>2, <1>t
    <3> QED  BY <3>1, <3>2, <3>3 DEF JobStep
  <2>2. CASE ~(Fence(w) /\ worker[w].job = j)
    <3>1. row' = row /\ claims' = claims /\ author'[j] = author[j]
      BY <1>4, <2>2, <1>t DEF CheckpointCandidate
    <3> QED  BY <3>1 DEF JobStep
  <2> QED  BY <2>1, <2>2
<1>5. ASSUME NEW w \in Worker, PersistCommit(w)
      PROVE  JobStep(j)
  <2>1. CASE worker[w].job = j
    <3>1. /\ row[j].status = "running" /\ worker[w].token = row[j].lease_token
          /\ worker[w].at = "persisting" /\ worker[w].token = claims[j]
      BY <1>5, <2>1 DEF PersistCommit, IInv, PersistingOwnsRun, RowToken
    <3>2. worker'[w].at = "finishing"
      BY <1>5, <1>t, GotoLemma DEF PersistCommit, Places
    <3>3. author'[j] = [c \in Candidate |-> claims[j]]
      BY <1>5, <2>1, <3>1, <1>t DEF PersistCommit
    <3> QED  BY <2>1, <3>1, <3>2, <3>3 DEF JobStep
  <2>2. CASE worker[w].job # j
    BY <1>5, <2>2, <1>t DEF PersistCommit, JobStep
  <2> QED  BY <2>1, <2>2
<1>6. ASSUME NEW w \in Worker, RecordFailure(w)
      PROVE  JobStep(j)
  <2>1. UNCHANGED <<claims, author>>
    BY <1>6 DEF RecordFailure
  <2>2. CASE Fence(w) /\ worker[w].job = j
    <3>1. /\ row[j].status = "running" /\ worker[w].token = row[j].lease_token
          /\ worker[w].at = "failing"
      BY <1>6, <2>2 DEF RecordFailure, Fence, LeaseMatches
    <3>2. worker'[w].at = "finishing"
      BY <1>6, <1>t, GotoLemma DEF RecordFailure, Places
    <3> QED  BY <2>1, <2>2, <3>1, <3>2 DEF JobStep
  <2>3. CASE ~(Fence(w) /\ worker[w].job = j)
    BY <1>6, <2>1, <2>3, <1>t DEF RecordFailure, JobStep
  <2> QED  BY <2>2, <2>3
<1>7. ASSUME NEW p \in Proc, NEW i \in Job, HeartbeatLease(p, i)
      PROVE  JobStep(j)
  <2>1. CASE LeaseMatches(row[i], p, beat[p].leases[i]) /\ i = j
    <3>1. /\ row'[j] = [row[j] EXCEPT !.ttl = LeaseTicks]
          /\ row[j].status = "running" /\ author' = author
      BY <1>7, <2>1, <1>t DEF HeartbeatLease, LeaseMatches
    <3> QED  BY <3>1, <1>t DEF JobStep, SameClaim, Rows
  <2>2. CASE ~(LeaseMatches(row[i], p, beat[p].leases[i]) /\ i = j)
    <3>1. row'[j] = row[j] /\ claims' = claims /\ author' = author
      BY <1>7, <2>2, <1>t DEF HeartbeatLease
    <3> QED  BY <3>1 DEF JobStep
  <2> QED  BY <2>1, <2>2
<1>8. ASSUME NEW w \in Worker, WorkerStep(w)
      PROVE  JobStep(j)
  <2>1. CASE WorkerStart(w)
    BY <2>1, <1>0, <1>2 DEF WorkerStart, database
  <2>2. CASE \E i \in Job : ClaimNext(w, i) \/ ClaimUnacknowledged(w, i)
    BY <2>2, <1>3 DEF ClaimNext, ClaimUnacknowledged
  <2>3. CASE \/ TestStopClaiming(w) \/ ClaimNothing(w) \/ Register(w)
             \/ LoadExistingCandidates(w) \/ PersistBegin(w)
             \/ RecordFailureRaises(w) \/ Unregister(w)
             \/ \E e \in {"retryable", "permanent"} :
                  WorkFails(w, e) \/ PersistFails(w, e)
    BY <2>3, <1>0 DEF TestStopClaiming, ClaimNothing, Register,
       LoadExistingCandidates, PersistBegin, RecordFailureRaises, Unregister,
       WorkFails, PersistFails
  <2> QED  BY <1>4, <1>5, <1>6, <1>8, <2>1, <2>2, <2>3 DEF WorkerStep
<1>9. ASSUME NEW p \in Proc, HeartbeatStep(p) \/ ProcessStep(p)
      PROVE  JobStep(j)
  <2>1. CASE RecoverExpired(p)
    <3>1. /\ row' = RecoveredRows \/ row' = row
          /\ UNCHANGED <<claims, author>>
      BY <2>1 DEF RecoverExpired
    <3> QED  BY <3>1, <1>0, <1>2 DEF database
  <2>2. CASE \E i \in Job : HeartbeatLease(p, i)
    BY <2>2, <1>7
  <2>3. CASE BeatStart(p) \/ (\E i \in Job : HeartbeatRaises(p, i)) \/ ProcessStep(p)
    BY <2>3, <1>0 DEF BeatStart, HeartbeatRaises, ProcessStep, Shutdown,
       StopHeartbeat, Crash, Exit, Restart, Coordinator
  <2> QED  BY <1>9, <2>1, <2>2, <2>3 DEF HeartbeatStep
<1> QED  BY <1>0, <1>1, <1>8, <1>9 DEF Next, vars, database

(* The fence of UPSERT_FENCED_SQL: the checkpoints of an attempt are never   *)
(* overwritten by an earlier one.                                           *)
THEOREM LateWorkersAreFenced == Safety => NoStaleCheckpoint
<1>1. ASSUME IInv, [Next]_vars
      PROVE  \A j \in Job, c \in Candidate : author'[j][c] >= author[j][c]
  <2> SUFFICES ASSUME NEW j \in Job, NEW c \in Candidate
               PROVE  author'[j][c] >= author[j][c]
    OBVIOUS
  <2>1. /\ author[j] \in [Candidate -> Tokens] /\ author[j][c] \in Nat
        /\ claims[j] \in Nat /\ author[j][c] <= claims[j]
    BY <1>1 DEF IInv, TypeOK, AuthorIssued, Tokens
  <2>2. \/ author'[j] = author[j]
        \/ \E d \in Candidate : author'[j] = [author[j] EXCEPT ![d] = claims[j]]
        \/ author'[j] = [d \in Candidate |-> claims[j]]
    BY <1>1, JobSteps DEF JobStep
  <2>3. author'[j][c] \in {author[j][c], claims[j]}
    BY <2>1, <2>2
  <2> QED  BY <2>1, <2>3
<1> QED  BY <1>1, InductiveInvariant, PTL DEF Safety, NoStaleCheckpoint

(* Nothing changes a completed or failed run, or its candidates.            *)
THEOREM SettledRunsStay == Safety => SettledForGood
<1>1. ASSUME IInv, [Next]_vars
      PROVE  \A j \in Job : row[j].status \in Terminal =>
                              row'[j] = row[j] /\ author'[j] = author[j]
  BY <1>1, JobSteps DEF JobStep, Terminal
<1> QED  BY <1>1, InductiveInvariant, PTL DEF Safety, SettledForGood

(* Only its own worker ends an attempt whose lease is live.                 *)
THEOREM LiveLeasesAreRespected == Safety => AttemptEndedByOwnerOrExpiry
<1>1. ASSUME IInv, [Next]_vars
      PROVE  \A j \in Job :
               (row[j].status = "running" /\ row'[j].lease_token # row[j].lease_token)
               => \/ row[j].ttl = 0
                  \/ \E w \in Worker : /\ worker[w].at \in {"persisting", "failing"}
                                       /\ worker'[w].at = "finishing"
                                       /\ worker[w].job = j
                                       /\ worker[w].token = row[j].lease_token
  BY <1>1, JobSteps DEF JobStep, SameClaim
<1> QED  BY <1>1, InductiveInvariant, PTL DEF Safety, AttemptEndedByOwnerOrExpiry

(* The entry of a worker that has the lease: who may change it.              *)
LEMMA EntryChanges ==
  ASSUME IInv, [Next]_vars, NEW w \in Worker,
         worker[w].at \in Registered, worker'[w].at \in Registered, Fence(w),
         active[ProcOf[w]][worker[w].job] = worker[w].token,
         active'[ProcOf[w]][worker[w].job] # worker[w].token
  PROVE  \E v \in Worker : /\ ProcOf[v] = ProcOf[w]
                           /\ worker[v].at = "claimed" /\ worker'[v].at = "loading"
                           /\ worker[v].job = worker[w].job
                           /\ worker[v].token < worker[w].token
<1> DEFINE p == ProcOf[w]
           j == worker[w].job
           token == worker[w].token
<1>t. /\ p \in Proc /\ j \in Job /\ j # NoJob /\ token \in Tokens /\ token # NoToken
      /\ row[j].status = "running" /\ row[j].lease_token = token /\ claims[j] = token
      /\ active \in [Proc -> [Job -> Tokens]]
  BY DEF IInv, TypeOK, Workers, WorkersWithJob, HasJob, Registered, Fence, LeaseMatches,
         RowToken, Tokens, NoToken
<1>1. ASSUME NEW v \in Worker, Register(v)
      PROVE  /\ ProcOf[v] = p /\ worker[v].at = "claimed" /\ worker'[v].at = "loading"
             /\ worker[v].job = j /\ worker[v].token < token
  <2>1. /\ worker[v].at = "claimed"
        /\ active' = [active EXCEPT ![ProcOf[v]][worker[v].job] = worker[v].token]
        /\ Goto(v, "loading")
    BY <1>1 DEF Register
  <2>2. ProcOf[v] = p /\ worker[v].job = j /\ worker[v].token # token
    BY <1>t, <2>1
  <2>3. worker[v].token \in Tokens /\ worker[v].token <= claims[j]
    BY <2>1, <2>2 DEF IInv, TypeOK, Workers, WorkersWithJob, HasJob
  <2>4. worker'[v].at = "loading"
    BY <2>1, GotoLemma DEF IInv, TypeOK, Places
  <2>5. worker[v].token \in Nat /\ token \in Nat /\ worker[v].token <= token
    BY <1>t, <2>3 DEF Tokens
  <2>6. worker[v].token < token
    BY <2>2, <2>5
  <2> QED  BY <2>1, <2>2, <2>4, <2>6
<1>2. ASSUME NEW v \in Worker, Unregister(v)
      PROVE  FALSE
  <2>1. /\ worker[v].at = "finishing"
        /\ active' = Unregistered(ProcOf[v], worker[v].job, worker[v].token)
        /\ worker' = [worker EXCEPT ![v] = Thread("idle")]
    BY <1>2 DEF Unregister
  <2>2. ProcOf[v] = p /\ worker[v].job = j /\ worker[v].token = token
    BY <1>t, <2>1 DEF Unregistered
  <2>3. v = w
    BY <1>t, <2>2 DEF IInv, OneLeaseholder
  <2>4. worker'[w].at = "idle"
    BY <2>1, <2>3 DEF IInv, TypeOK, Thread
  <2> QED  BY <2>4 DEF Registered
<1>3. ASSUME NEW q \in Proc, NEW i \in Job, HeartbeatLease(q, i)
      PROVE  FALSE
  <2> DEFINE old == beat[q].leases[i]
  <2>1. IF LeaseMatches(row[i], q, old) THEN UNCHANGED active
        ELSE active' = Unregistered(q, i, old)
    BY <1>3 DEF HeartbeatLease
  <2>2. q = p /\ i = j /\ old = token
    BY <1>t, <2>1 DEF Unregistered
  <2>3. LeaseMatches(row[i], q, old)
    BY <2>2 DEF Fence
  <2> QED  BY <2>1, <2>3
<1>4. ASSUME NEW q \in Proc, NEW place \in {"down", "starting"}, Coordinator(q, place)
      PROVE  FALSE
  <2>1. CASE q = p
    <3>1. worker'[w] = Thread(place)
      BY <1>4, <2>1 DEF Coordinator
    <3> QED  BY <3>1 DEF Thread, Registered
  <2>2. CASE q # p
    BY <1>t, <1>4, <2>2 DEF Coordinator
  <2> QED  BY <2>1, <2>2
<1>5. active' # active
  OBVIOUS
<1>6. ~(\E i \in Job : Submit(i) \/ LeaseTick(i) \/ BackoffElapses(i))
  BY <1>5 DEF Submit, LeaseTick, BackoffElapses
<1>7. ASSUME NEW v \in Worker, WorkerStep(v)
      PROVE  Register(v) \/ Unregister(v)
  <2>1. ~(WorkerStart(v) \/ TestStopClaiming(v) \/ ClaimNothing(v))
    BY <1>5 DEF WorkerStart, TestStopClaiming, ClaimNothing
  <2>2. ~(\E i \in Job : ClaimNext(v, i) \/ ClaimUnacknowledged(v, i))
    BY <1>5 DEF ClaimNext, ClaimUnacknowledged, ClaimRow
  <2>3. ~(LoadExistingCandidates(v) \/ \E c \in Candidate : CheckpointCandidate(v, c))
    BY <1>5 DEF LoadExistingCandidates, CheckpointCandidate
  <2>4. ~(\E e \in {"retryable", "permanent"} : WorkFails(v, e) \/ PersistFails(v, e))
    BY <1>5 DEF WorkFails, PersistFails
  <2>5. ~(PersistBegin(v) \/ PersistCommit(v) \/ RecordFailure(v) \/ RecordFailureRaises(v))
    BY <1>5 DEF PersistBegin, PersistCommit, RecordFailure, RecordFailureRaises
  <2> QED  BY <1>7, <2>1, <2>2, <2>3, <2>4, <2>5 DEF WorkerStep
<1>8. ASSUME NEW q \in Proc, HeartbeatStep(q)
      PROVE  \E i \in Job : HeartbeatLease(q, i)
  BY <1>5, <1>8 DEF HeartbeatStep, BeatStart, RecoverExpired, HeartbeatRaises
<1>9. ASSUME NEW q \in Proc, ProcessStep(q)
      PROVE  Coordinator(q, "down") \/ Coordinator(q, "starting")
  BY <1>5, <1>9 DEF ProcessStep, Shutdown, StopHeartbeat, Crash, Exit, Restart
<1> QED  BY <1>1, <1>2, <1>3, <1>4, <1>5, <1>6, <1>7, <1>8, <1>9 DEF Next, vars

(* A late attempt of the same process takes the lease entry of the next one  *)
(* away only by registering after it.                                        *)
THEOREM LeasesOutliveLateWorkers == Safety => LeaseOutlivesLateWorkers
<1>1. ASSUME IInv, [Next]_vars
      PROVE  \A w \in Worker :
               LET k == worker[w] IN
               (/\ k.at \in Registered /\ worker'[w].at \in Registered
                /\ Fence(w)
                /\ active[ProcOf[w]][k.job] = k.token
                /\ active'[ProcOf[w]][k.job] # k.token)
               => \E v \in Worker : /\ ProcOf[v] = ProcOf[w]
                                   /\ worker[v].at = "claimed" /\ worker'[v].at = "loading"
                                   /\ worker[v].job = k.job
                                   /\ worker[v].token < k.token
  BY <1>1, EntryChanges
<1> QED  BY <1>1, InductiveInvariant, PTL DEF Safety, LeaseOutlivesLateWorkers

(* The claims a run can still have.                                         *)
LEMMA RunStates ==
  ASSUME IInv, NEW j \in Job
  PROVE  /\ row[j] \in Rows
         /\ claims[j] \in Nat
         /\ row[j].status = "requested" => claims[j] <= MaxRetries
         /\ row[j].status = "running" =>
              (row[j].retry_count < MaxRetries => claims[j] <= MaxRetries)
<1>1. row[j] \in Rows /\ claims[j] \in Nat /\ row[j].retry_count \in 0 .. MaxRetries
  BY RowFields DEF IInv, TypeOK, Tokens
<1> QED  BY <1>1 DEF IInv, RetryAccounting

(* The attempts of a set of runs end: the abstract step GiveUp. *)
LEMMA GiveUpStep ==
  ASSUME IInv, claims' = claims, NEW S \in SUBSET Job,
         \A j \in Job \ S : row'[j].status = row[j].status,
         \A j \in S : /\ row[j].status = "running"
                      /\ \/ row'[j].status = "requested" /\ row[j].retry_count < MaxRetries
                         \/ row'[j].status = "failed"
  PROVE  [Lifecycle!LifecycleNext]_(Lifecycle!lifecycleVars)
<1> DEFINE again == {j \in S : row'[j].status = "requested"}
           status == [j \in Job |-> row[j].status]
<1>1. again \in SUBSET {j \in S : claims[j] <= MaxRetries}
  BY RunStates
<1>2. [j \in Job |-> row'[j].status] =
        [j \in Job |-> IF j \in again THEN "requested"
                       ELSE IF j \in S THEN "failed" ELSE status[j]]
  OBVIOUS
<1>3. CASE S = {}
  <2>1. [j \in Job |-> row'[j].status] = [j \in Job |-> row[j].status]
    BY <1>3
  <2> QED  BY <2>1 DEF Lifecycle!lifecycleVars
<1>4. CASE S # {}
  <2>1. Lifecycle!GiveUp(S)
    BY <1>1, <1>2, <1>4 DEF Lifecycle!GiveUp
  <2> QED  BY <2>1 DEF Lifecycle!LifecycleNext
<1> QED  BY <1>3, <1>4

(* Every step of the queue is a step of the life cycle or leaves it alone.  *)
LEMMA RefinementStep ==
  ASSUME IInv, [Next]_vars
  PROVE  [Lifecycle!LifecycleNext]_(Lifecycle!lifecycleVars)
<1>t. /\ row \in [Job -> Rows] /\ worker \in [Worker -> Workers]
      /\ claims \in [Job -> Tokens]
  BY DEF IInv, TypeOK
<1>0. ASSUME claims' = claims, \A j \in Job : row'[j].status = row[j].status
      PROVE  [Lifecycle!LifecycleNext]_(Lifecycle!lifecycleVars)
  <2>1. [j \in Job |-> row'[j].status] = [j \in Job |-> row[j].status]
    BY <1>0
  <2> QED  BY <1>0, <2>1 DEF Lifecycle!lifecycleVars
<1>1. ASSUME NEW j \in Job, Submit(j)
      PROVE  [Lifecycle!LifecycleNext]_(Lifecycle!lifecycleVars)
  <2>1. row[j] \in Rows /\ row[j].status = "absent" /\ claims' = claims
        /\ row' = [row EXCEPT ![j].status = "requested"]
    BY <1>1, <1>t DEF Submit
  <2>2. row'[j].status = "requested" /\ \A i \in Job : i # j => row'[i] = row[i]
    BY <2>1, <1>t DEF Rows
  <2>3. [i \in Job |-> row'[i].status] =
          [[i \in Job |-> row[i].status] EXCEPT ![j] = "requested"]
    BY <2>2
  <2>4. Lifecycle!Request(j)
    BY <2>1, <2>3 DEF Lifecycle!Request
  <2> QED  BY <2>4 DEF Lifecycle!LifecycleNext
<1>2. ASSUME NEW j \in Job, LeaseTick(j) \/ BackoffElapses(j)
      PROVE  [Lifecycle!LifecycleNext]_(Lifecycle!lifecycleVars)
  <2>1. /\ claims' = claims
        /\ \A i \in Job : i # j => row'[i] = row[i]
        /\ \/ row'[j] = [row[j] EXCEPT !.ttl = row[j].ttl - 1]
           \/ row'[j] = [row[j] EXCEPT !.due = TRUE]
    BY <1>2, <1>t DEF LeaseTick, BackoffElapses
  <2>2. row[j] \in Rows
    BY <1>t
  <2>3. row'[j].status = row[j].status
    BY <2>1, <2>2 DEF Rows
  <2> QED  BY <1>0, <2>1, <2>3
<1>3. ASSUME row' = RecoveredRows, claims' = claims
      PROVE  [Lifecycle!LifecycleNext]_(Lifecycle!lifecycleVars)
  <2> DEFINE S == {j \in Job : Expired(j)}
  <2>1. \A j \in Job \ S : row'[j].status = row[j].status
    BY <1>3 DEF RecoveredRows
  <2>2. \A j \in S : /\ row[j].status = "running"
                     /\ \/ row'[j].status = "requested" /\ row[j].retry_count < MaxRetries
                        \/ row'[j].status = "failed"
    BY <1>3 DEF RecoveredRows, Expired, RecoveredRow, RetriedRow, ReleasedRow
  <2> QED  BY <1>3, <2>1, <2>2, GiveUpStep
<1>4. ASSUME NEW w \in Worker, NEW j \in Job, ClaimRow(w, j)
      PROVE  [Lifecycle!LifecycleNext]_(Lifecycle!lifecycleVars)
  <2>1. /\ row[j].status = "requested" /\ claims[j] <= MaxRetries
        /\ claims' = [claims EXCEPT ![j] = @ + 1]
        /\ row'[j].status = "running"
        /\ \A i \in Job : i # j => row'[i] = row[i]
    BY <1>4, <1>t, RunStates DEF ClaimRow, Claimable, ClaimedRow
  <2>2. [i \in Job |-> row'[i].status] =
          [[i \in Job |-> row[i].status] EXCEPT ![j] = "running"]
    BY <2>1
  <2>3. Lifecycle!Begin(j)
    BY <2>1, <2>2 DEF Lifecycle!Begin
  <2> QED  BY <2>3 DEF Lifecycle!LifecycleNext
<1>5. ASSUME NEW w \in Worker, PersistCommit(w)
      PROVE  [Lifecycle!LifecycleNext]_(Lifecycle!lifecycleVars)
  <2>1. PICK j \in Job : j = worker[w].job
    BY <1>5 DEF PersistCommit, IInv, WorkersWithJob, HasJob
  <2>2. row[j].status = "running" /\ claims' = claims
    BY <1>5, <2>1 DEF PersistCommit, IInv, PersistingOwnsRun
  <2>3. row'[j].status = "completed" /\ \A i \in Job : i # j => row'[i] = row[i]
    BY <1>5, <2>1, <1>t DEF PersistCommit, ReleasedRow
  <2>4. [i \in Job |-> row'[i].status] =
          [[i \in Job |-> row[i].status] EXCEPT ![j] = "completed"]
    BY <2>1, <2>3
  <2>5. Lifecycle!Complete(j)
    BY <2>2, <2>4 DEF Lifecycle!Complete
  <2> QED  BY <2>5 DEF Lifecycle!LifecycleNext
<1>6. ASSUME NEW w \in Worker, RecordFailure(w)
      PROVE  [Lifecycle!LifecycleNext]_(Lifecycle!lifecycleVars)
  <2> DEFINE k == worker[w]
  <2>1. k.job \in Job /\ claims' = claims
    BY <1>6 DEF RecordFailure, IInv, WorkersWithJob, HasJob
  <2>2. CASE ~Fence(w)
    BY <1>0, <1>6, <2>1, <2>2 DEF RecordFailure
  <2>3. CASE Fence(w)
    <3>1. row[k.job].status = "running" /\ k.retry_count = row[k.job].retry_count
      BY <2>1, <2>3 DEF IInv, ClaimedRetryCount, Fence, LeaseMatches
    <3>2. /\ \A i \in Job \ {k.job} : row'[i].status = row[i].status
          /\ \/ row'[k.job].status = "requested" /\ row[k.job].retry_count < MaxRetries
             \/ row'[k.job].status = "failed"
      BY <1>6, <2>1, <2>3, <3>1, <1>t
      DEF RecordFailure, ShouldRetry, RetriedRow, ReleasedRow
    <3>3. {k.job} \in SUBSET Job
      BY <2>1
    <3> QED  BY <2>1, <3>1, <3>2, <3>3, GiveUpStep
  <2> QED  BY <2>2, <2>3
<1>7. ASSUME NEW p \in Proc, NEW j \in Job, HeartbeatLease(p, j)
      PROVE  [Lifecycle!LifecycleNext]_(Lifecycle!lifecycleVars)
  <2>1. /\ claims' = claims
        /\ row' = row \/ row' = [row EXCEPT ![j].ttl = LeaseTicks]
    BY <1>7 DEF HeartbeatLease
  <2>2. \A i \in Job : row[i] \in Rows
    BY <1>t
  <2>3. \A i \in Job : row'[i].status = row[i].status
    BY <2>1, <2>2, <1>t DEF Rows
  <2> QED  BY <1>0, <2>1, <2>3
<1>8. ASSUME NEW w \in Worker, WorkerStep(w)
      PROVE  [Lifecycle!LifecycleNext]_(Lifecycle!lifecycleVars)
  <2>1. CASE WorkerStart(w)
    BY <2>1, <1>0, <1>3 DEF WorkerStart
  <2>2. CASE \E i \in Job : ClaimNext(w, i) \/ ClaimUnacknowledged(w, i)
    BY <2>2, <1>4 DEF ClaimNext, ClaimUnacknowledged
  <2>3. CASE \/ TestStopClaiming(w) \/ ClaimNothing(w) \/ Register(w)
             \/ LoadExistingCandidates(w) \/ PersistBegin(w)
             \/ RecordFailureRaises(w) \/ Unregister(w)
             \/ \E c \in Candidate : CheckpointCandidate(w, c)
             \/ \E e \in {"retryable", "permanent"} :
                  WorkFails(w, e) \/ PersistFails(w, e)
    BY <2>3, <1>0 DEF TestStopClaiming, ClaimNothing, Register,
       LoadExistingCandidates, PersistBegin, RecordFailureRaises, Unregister,
       CheckpointCandidate, WorkFails, PersistFails, database
  <2> QED  BY <1>5, <1>6, <1>8, <2>1, <2>2, <2>3 DEF WorkerStep
<1>9. ASSUME NEW p \in Proc, HeartbeatStep(p) \/ ProcessStep(p)
      PROVE  [Lifecycle!LifecycleNext]_(Lifecycle!lifecycleVars)
  <2>1. CASE RecoverExpired(p)
    BY <2>1, <1>0, <1>3 DEF RecoverExpired
  <2>2. CASE \E i \in Job : HeartbeatLease(p, i)
    BY <2>2, <1>7
  <2>3. CASE BeatStart(p) \/ (\E i \in Job : HeartbeatRaises(p, i)) \/ ProcessStep(p)
    BY <2>3, <1>0 DEF BeatStart, HeartbeatRaises, ProcessStep, Shutdown,
       StopHeartbeat, Crash, Exit, Restart, Coordinator, database
  <2> QED  BY <1>9, <2>1, <2>2, <2>3 DEF HeartbeatStep
<1> QED  BY <1>0, <1>1, <1>2, <1>8, <1>9 DEF Next, vars

(* The queue implements the life cycle of a durable generation run.         *)
THEOREM QueueImplementsLifecycle == Safety => ImplementsLifecycleSteps
<1>1. Init => Lifecycle!LifecycleInit
  BY DEF Init, AbsentRow, Lifecycle!LifecycleInit
<1> QED
  BY <1>1, RefinementStep, InductiveInvariant, PTL
  DEF Safety, ImplementsLifecycleSteps, Lifecycle!LifecycleSafety
==============================================================================
