# The decision API of Loop-Ad in TLA+

A verification development of the `app` package: what its concurrent and
crash-prone parts do, which properties make them correct, TLC runs that check
those properties on small instances, and TLAPS proofs of the safety properties
for every value of the constants.

## 1. The system

The decision API is a FastAPI program. `app/server.py` starts one uvicorn
process per container; several containers share one PostgreSQL database, one
ClickHouse database and one object store. A promotion goes through analysis,
content generation, a promotion run with one ad experiment per segment,
assignment of customers, evaluation, and a next loop for the segments that
failed.

| component | state it keeps | operations | meets |
|---|---|---|---|
| generation submission (`generation/submission.py`) | `generation_runs` rows, idempotency key and fingerprint | `submit` | analysis rows, `coordinator.wake` |
| generation queue (`generation/coordinator.py`, `worker.py`, `repositories.py`) | `generation_runs` status, worker, token, lease, retries; table of active leases in each process | claim, heartbeat, recover, checkpoint, complete, retry, fail, shutdown | database, pipeline |
| candidate pipeline (`generation/service.py`, `adapters.py`, `source_manifest.py`, `artifacts.py`) | `content_candidates`; manifests, images and pages in S3 | generate, store, publish, checkpoint | text and image providers, object store |
| promotion run creation (`decision/service.py`, `audience_snapshots.py`) | `promotion_runs`, `ad_experiments`, bindings, reservations, plan status | `create_run`, `bind_run_targets` | allocation, next-loop activation |
| next-loop activation and planning (`decision/service.py`, `next_loop_service.py`) | `next_loop_preparations`, outputs of analysis and generation | prepare, attempt, review, activate | evaluation, generation, runs |
| evaluation (`decision/evaluation_service.py`) | `promotion_evaluations`, run status | evaluate an experiment, evaluate a run | ClickHouse metrics |
| segment assignment (`decision/assignment_service.py`) | assignments, executions, units | build | run, bindings, vectors |
| audience allocation and exclusions (`audience_allocation.py`, `audience_exclusions.py`) | plans, final snapshots, reservations, exclusion revision, ClickHouse projection | confirm a selection, refresh previews, release | analysis, run creation |
| vector search sync (`internal/user_behavior_vector_search_sync.py`) | generations, cursor, search rows | register, sync, activate | ClickHouse |
| uplift models (`uplift/registry.py`, ...) | model versions and their status | register, validate, activate, retire | files |
| analysis, promotion offers, brand context, prompts and rendering | rows and documents written in one request | | providers, databases |

Behaviours that are hard here:

- a worker that has lost its lease does not know it: it goes on until a fenced
  write is refused, and the object store has no fence;
- processes die with claimed runs, commits succeed whose answers are lost,
  recoveries of several processes race;
- every HTTP request is one READ COMMITTED transaction: statements see different
  snapshots, row locks are waited for, and overlapping requests may deadlock;
- the handlers are `async` functions that call a blocking driver: while one
  waits for a lock, nothing else runs on its process's event loop, and the
  dependency that commits a transaction needs that loop;
- under READ COMMITTED a statement that waits for a lock goes on with the snapshot
  from before the wait, and only the rows it locks are as they are now;
- the exclusions live in two databases, and nothing is atomic across them;
- a worker thread learns of new work from a sequence number that is raised while
  it is between its claim and its wait.

What makes a component correct: a generation run is attempted a bounded number
of times, each attempt is ended once, late workers change nothing, and every
requested run is settled; a published page is the page its row describes; a run
takes its audiences whole or not at all, and a client told of success finds it
stored; a request is answered. An idempotency key stands for one run and one
set of inputs; a source run leaves one next loop to choose from and approved
content is not thrown away; a customer is in one audience at a time; the search
does not offer a customer who is taken.

## 2. Modules

| module | models | code |
|---|---|---|
| `GenerationLifecycle` | what a durable run promises: requested, attempted at most `MaxRetries + 1` times, settled | abstract |
| `GenerationQueue` | rows, worker threads, heartbeat threads, lease tables and the life of processes | `coordinator.py`, `worker.py`, `repositories.py`, `main.py` |
| `GenerationQueueProofs` | theorems about it | |
| `CandidatePipeline` | all attempts of one run: source, image, page, checkpoints, over write-once storage | `service.py`, `adapters.py`, `source_manifest.py`, `artifacts.py` |
| `CandidatePipelineProofs` | theorems about it | |
| `RunRegistry` | what run creation promises: an audience goes to one run, with all of its scope | abstract |
| `PromotionRuns` | concurrent `create_run` requests: transactions, locks, event loops | `decision/service.py`, `audience_snapshots.py`, `repositories.py`, `router.py` |
| `PromotionRunsProofs` | theorems about it | |
| `Submission` | concurrent submissions, their answers, and the wake-up of the worker threads | `submission.py`, `coordinator.py`, `repositories.py` |
| `SubmissionProofs` | theorems about it | |
| `NextLoop` | automatic and manual next loops, activation, direct runs and evaluations of one source run | `next_loop_service.py`, `service.py`, `evaluation_service.py`, `repositories.py` |
| `NextLoopProofs` | theorems about it | |
| `ExclusionLedger` | what the writers of the exclusions promise to those who read them | abstract |
| `AudienceAllocation` | confirmation, release and binding of audiences | `audience_allocation.py`, `audience_snapshots.py` |
| `AudienceAllocationProofs` | theorems about it, among them that it implements `ExclusionLedger` | |
| `ExclusionProjection` | the copy of the exclusions in ClickHouse, against any writers that keep to `ExclusionLedger` | `audience_exclusions.py` |
| `ExclusionProjectionProofs` | theorems about it | |
| `ExclusionSystem` | the two together, and theorems about what neither promises alone | both |
| `MCGenerationQueue` and the other `MC` modules | functions and names for TLC's instances | |

### GenerationQueue

One database operation is one step, since each runs in a transaction of its own
(`_repository_operation`, `_checkpoint_candidate`, `_record_failure`). The
success transaction has several statements and holds the row's lock in between,
so it is two steps, and recovery skips the row meanwhile (`SKIP LOCKED`). A
rolled-back operation is no step; a commit whose answer is lost is one
(`ClaimUnacknowledged`). A worker thread is a record that says where it stands
in `_worker_loop` and `process` and what it copied from the claimed row: the
token and the retry count it will decide on. The active-lease table is keyed by
generation only, as in the code. Time is not counted: `LeaseTick` and
`BackoffElapses` happen at any moment, so every order of deadlines is explored,
and more than the clock allows.

Processes stop in two phases (`shutdown`), crash (`Crash`, open transactions are
rolled back) and are started again; `MaxStops` bounds how often.

### CandidatePipeline

The attempts of one run overlap because a late one goes on. What a provider
returns is named by the attempt that asked, so two attempts never get equal
answers by luck; a page is determined by its text and its image's URL. A manifest
or an image that is stored while its answer is lost is the request followed by the
failure of the next call; a page (`PublishFails`) and a checkpoint
(`CheckpointFails`) have actions for that. Rows are
written under the lease fence, the object store without one. A thread pool of
`MaxParallel` builds the candidates; the first failure that the main thread
observes cancels the waiting ones and decides whether the run is retried.
`find_image` asks for one media type after the other, a request each (`Find`). When
the publication fails, the failure is checkpointed too (place `reject`). The
success transaction writes what the attempt has built under the fence and then
asks the readiness gate of `COMPLETE_IF_READY_FENCED_SQL`: `PersistSuccess` completes
the run only if every candidate written is published (`Ready`; the keys and hashes
that the gate asks for as well are those of any published row), and otherwise rolls back and gives the attempt up. A permanent error of the
database in a checkpoint is left out: the attempt gives up earlier, as it does when
the fence refuses one.

### PromotionRuns

Requests name scopes (sets of segments) of one analysis and one completed
generation; the analysis's segments share one allocation plan. A request's
uncommitted writes are `own[r]`, which becomes visible in one step, `Commit`.
`LoadTarget` fixes the snapshot of `_load_binding_target`, `LockTarget` and
`LockPlan` take its row locks one after the other, and validation compares the
members of the snapshot with the target as it was locked, as PostgreSQL does when
it re-evaluates a row that changed while its lock was waited for. `InsertRun` waits
for the transaction that has inserted the same scope. A set of transactions
that wait for each other loses a member (`DeadlockVictim`): the server aborts it
and frees its locks at once, as after any statement that fails (`BodyRaises`).

A handler keeps its process's event loop from its first statement to its return
(`loop`). It needs the loop again to have its dependency closed and to send the
answer; the closing itself runs in a thread.

Left out: the UNIQUE constraint of the bindings (row locks come first), the
exclusion revision (advanced under the plan's lock), legacy targets, and the
validation of inputs that no concurrent request changes.

### Submission

`submit` awaits nothing, so a process has one submission at a time (`handler`),
and no `shutdown` comes in between; threads and other processes do. The inputs
are read by two groups of statements, `ReadPromotion` and `ReadTargets`, between
which the promotion may be edited; the fingerprint is what was sent and the two
versions that were read. `CreateOrGet` is the one statement that inserts or finds
the row, and waits for an open transaction that has inserted the key. Commit,
lost commit and wake-up follow.

A worker thread has copied the wake sequence (`seen`) before it claims, and waits
only if nothing has changed (`MayWait`). `woken` is a history variable: the
processes that were woken while a row waited. A claim that fails leaves its row
to the polls (`missed`), as does a retry, which wakes nobody; retries and what
becomes of a claimed run are `GenerationQueue`'s. A failing `processor_factory`
ends its thread (`Start`).

### NextLoop

A request is a transaction of several statements. `now` numbers the beginnings of
transactions, which is what `created_at` of an evaluation is. `seen` is the
snapshot of the statement that reads the attempts: `ReadAttempts` fixes it and
`LockAttempts` gets the advisory lock, since the code asks for the lock within
the same statement. Generation identifiers are `<<mode, number>>`, because the
first automatic generation has no number in its hash and a manual one always has;
the key of the generation is what stops two requests of one mode. A manual
request first takes the lock of the preparation and locks the row it may replace;
an activation locks its row, compares the lineage and inserts or adopts the run;
a direct `create_run` inserts a run without lineage. `Review` is what the
dashboard does with the candidates. Requests are on servers of their own, and
each waits for locks and for keys inserted by open transactions. The binding of
audiences at an activation is `PromotionRuns`'.

### AudienceAllocation and ExclusionLedger

A session is one transaction. `ConfirmBegin` to `ConfirmReserve` are the
statements of `confirm_selection`: the advisory lock on the promotion, the replay
of an equal confirmation, the sources, the revision as read, the winners in the
temporary table, and the update of the revision row, which is refused when the
revision has moved on. A release locks the row that the snapshot found free, and
a binding locks the rows of plan and targets without the advisory lock. From the
update of the revision row to the commit no other writer can come, so that this
is one step.

A target is active (`TargetActive`, of `promotion_target_is_active_sql`) while it
is not stopped and is either not bound or bound to a run that is not over. Two
steps change that without a word in the other tables: the end of a run (`EndRun`)
and the stop of a target (`StopTarget`). Nothing in `app` writes the status
`stopped`; the dashboard does, so that this step is external. It frees the users
of the target at once, reserved ones and consumed ones, while the plan is live
and the run goes on: a confirmation may take them, whereas release and binding,
which do not look at the status, may still come. A request that confirms ends
with `save_target_segments`, which sets the status of its targets to `approved`
again (`Approve`), in a new confirmation and in a repeated one (`Replay`).
`status` is "reopened" in a target that was stopped and approved again. The
properties about who holds a user are about targets that were never stopped,
since the code makes no such promise for the others (section 5).

`ExclusionLedger` is what all of them promise together: users are reserved only
while free, consumed or released only while reserved, each change with a revision
of its own; users that a run's end or a target's stop frees, and those who come
back when a stopped target is approved, do so without one (`Lapse`, `Return`),
and a row tells (`hold`). `Ledger` is the refinement mapping, and what readers see
of a member is only what its target still names.

### ExclusionProjection

The module extends `ExclusionLedger`: its writers are any that keep that promise.
A load is `Load` (revision and count), `Compare`, `Members` (the second
statement, which must find as many), `Insert`, `Checkpoint`, and may be cut off
after each (`Leave`). Loads are not serialised. A member whose target is stopped,
or whose run is over, is written as released at the revision of the load
(`Projected`), as `test_projection_treats_stopped_targets_as_released` asks. The
relation in ClickHouse is external: of a user it shows a row of the highest
revision, either one of two that are equal.

### ExclusionSystem

The composition of `AudienceAllocation` and `ExclusionProjection`: one set of rows
in PostgreSQL, which the sessions write and the loads read through the join of
members and targets. A step is one of the allocation or one of a load
(`Writers`, `Loading`). There is no run of it, only theorems.

## 3. Runs

| run | instance | checks |
|---|---|---|
| `queue_one_process` | one process, two workers, two runs, one retry | `TypeOK`, `ActiveLeaseHasWorker`, `LeaseOutlivesLateWorkers`, `PersistingOwnsRun`, `ImplementsLifecycleSteps` |
| `queue_two_processes` | two processes with a worker each, one run of two candidates, a lease of two ticks, one stop | `RetryAccounting`, `CompletedByLastAttempt`, `NoStaleCheckpoint`, `SettledForGood`, `AttemptEndedByOwnerOrExpiry` |
| `queue_liveness` | two processes, one run, one stop, with fairness | `EveryRunSettles`, `ImplementsLifecycle` |
| `pipeline` | two candidates, two attempts, two media types | `StoredInOrder`, `RowsMatchStorage`, `PageFollowsRow`, `NoHashConflict`, `BuiltIsReady`, `ProgressIsKept` |
| `submission` | one key in two processes sent twice, one edit of the promotion, three worker threads, one stop | `AnswersStand`, `NoSleepOverWork` |
| `runs_safety` | three requests `{1,2}`, `{1,2}`, `{2,3}`, a process each, sent up to twice, with exceptions, failed commits and crashes, with fairness | `RunIsWhole`, `NothingWithoutRun`, `SuccessIsStored`, `ImplementsRegistry`, `EveryRequestIsAnswered` |
| `runs_overlap` | scopes `{1,2}` and `{2}` in two processes | violated: `OverlapIsAnswered` |
| `runs_one_process` | two requests of one scope in one process | violated: `SameScopeSucceeds` |
| `next_loop` | two automatic and two manual next loops, an activation, a direct run and an evaluation, a server each, two attempts | `OneOutputPerMode`, `RejectedIsExhausted`, `ActivationIsCanonical`, `NoDeadlock` |
| `next_loop_race` | an automatic and a manual next loop | violated: `OneOutput` |
| `allocation` | three sessions, two overlapping selections of one batch and one of another, three users, five revisions, two targets that may be stopped | `PlanKeepsUsers`, `ReleaseSparesRuns`, `SourceConfirmedOnce`, `ImplementsLedger` |
| `projection` | two loads, two users, two revisions | `CheckpointCovers`, `EqualCountsSuffice` |

The runs of `pipeline`, `runs_safety`, `next_loop`, `allocation` and `projection`
check `TypeOK` too; that of `Submission` is proved.

Bounds and why they are enough:

- `MaxRetries = 1`: a run has a first attempt, a retry and its failure; more
  retries repeat the middle one. The proofs hold for any number.
- two workers and two processes give a late worker and its successor, in one
  lease table or in two; two runs let one recovery take several rows.
- `LeaseTicks = 2` tells a lease that was just renewed from one about to end;
  where only the end matters it is 1.
- `MaxStops` is 1 where crashes and restarts matter; in `queue_one_process` it
  is 0 because `queue_two_processes` and `queue_liveness` have them.
- two candidates are needed for a run that is half built; two attempts for a
  late writer; two media types for an image found under another key;
  `MaxParallel = 1` makes one candidate wait, and with a late attempt there are
  still two concurrent builders.
- three segments and three requests give equal, overlapping and (after a crash)
  repeated scopes; with two sends a client repeats a request that was answered,
  refused or lost. `MaxSends` bounds the sends.
- one key is enough for `Submission`, as keys do not meet but in `Claimable`; one
  edit makes a fingerprint differ, of a repeated request or within its reads. Two
  threads in a process and one in another give a row that is claimed by a thread
  of the same process, of another, and a claim that fails.
- two next loops of each mode overlap each with itself and with the other; with
  `MaxAttempts = 2` an attempt fails, or is rejected, and is replaced. A new
  evaluation gives the failed segment another lineage; what it says does not
  matter, so `Feedbacks` has one member.
- two selections of one batch that share a segment, and one of another batch with
  the same users, give a repeated, a conflicting and a competing confirmation;
  three sessions let a binding, a release and a confirmation overlap. Five
  revisions are two confirmations, each bound or released, and a third one.
  `Stoppable` names the targets that may be stopped: one whose segment another
  selection shares and one of the other batch, so that users of a stopped target
  are taken by another plan, bound while stopped, and approved again.
- two loads, one of which is late, and two revisions: a user is taken and, by a
  change, an end or a stop without a revision, freed while an old batch is on its
  way, and another is taken. Two users can have equal counts without being the
  same. `MaxRevision` bounds the histories in both; the proofs hold for any.

Deadlock is checked by TLC in the queue runs, in `allocation` and in
`projection`. It is not in the others: a pipeline run that is settled and
requests that are all answered have nothing left to do. `NextLoop` may have all
of its requests answered, so there `NoDeadlock` says who may not wait for whom.

### Fairness

Queue: worker and heartbeat threads keep running. Provider calls have timeouts,
and so have the coordinator's own connections, for claims, heartbeats and
recovery (`create_generation_coordinator_connection`). The connections of the
processor, for checkpoints, success and failure, have none
(`create_postgres_connection`, given to the workers in `main.py`): that their
statements end rests on the database, which answers or closes the connection, and
on the transactions that lock those rows being short. Leases and backoffs run out; a stopping process
ends and the platform restarts it (weak fairness); a recovery that is tried again
and again is not refused by the database for ever (strong fairness for the
successful outcome of `RecoverExpired`). Nothing is assumed of providers or of
single attempts, which may always fail.

The safety runs of the other modules assume none. Run creation: the event loop runs a handler that can run, threads close
dependencies, PostgreSQL grants a free lock and finds deadlocks. Weak fairness
is enough, as a client sends a bounded number of times.

## 4. Proofs

A theorem holds for every value of the constants that satisfies the named
assumption; where it needs more, it says so in an `ASSUME` of its own.

`GenerationQueueProofs`, for any jobs, processes, workers, candidates, retries
and leases, from `QueueAssumption`: type correctness, `RetryAccounting`,
`ActiveLeaseHasWorker`, `LeaseOutlivesLateWorkers`, `PersistingOwnsRun`,
`CompletedByLastAttempt`, `NoStaleCheckpoint`, `SettledForGood`, `AttemptEndedByOwnerOrExpiry`, and
`ImplementsLifecycleSteps`. The inductive invariant adds what these rest on:
`WorkersWithJob` (which workers have a job, under an issued token), `RowToken` (a
running row's token is that of its last claim), `ClaimedRetryCount` (while the
row has the worker's token, the worker's copy of the retry count is the row's)
and `AuthorIssued` (no candidate is written under a token still to come). The last
two are what makes a late failure count nothing and a late checkpoint change
nothing.

`CandidatePipelineProofs`, for any candidates, attempts, media types and
parallelism: type correctness, `StoredInOrder`, `RowsMatchStorage`,
`PageFollowsRow`, `NoHashConflict`, `BuiltIsReady`, `ProgressIsKept`, and
`GateIsPassed`: the readiness gate never refuses an attempt that has built all of
its candidates and still has the lease, and the success transaction changes no
row. The argument: once a row has its image it is frozen but for its stage, because the
lease holder never goes back; a task past the image checkpoint, be it of a late
attempt, agrees with the row, so whatever page it stores is the row's.
`PipelineFollowsLifecycle`: seen from outside, claims, lost leases, failures and
success are steps of `GenerationLifecycle`, which the queue implements too, so
that the two modules agree about the run they share.

`PromotionRunsProofs`, for any segments, requests, scopes, processes, faults and
numbers of sends, from `RunsAssumption`: type correctness, `RunIsWhole`,
`NothingWithoutRun`, `SuccessIsStored`, and `ImplementsRegistry` in full (the
abstract specification has no fairness). The inductive invariant adds, for each
request (`Orderly`): `WritesFollow`, what its transaction has written so far and
what its answer rests on; `OnlyInserter`, a scope has one open transaction that
has inserted it and none once its run is stored; and `ChecksHold`, the segments
the binding loop has passed are still locked by it, free and reserved. So a
commit takes free audiences only, and cannot undo what another transaction has
checked. `Confined` steps (all but the commit and the crash) only need their own
request to stay orderly. From `RunIsWhole` follows `StoredRunsAreApart`: no two
stored runs share a segment.

Three more theorems say what the first two findings of section 5 need. They rest
on `InOrder`: the event loop is its handler's, a request locks the targets of its
scope in their order, and it has the plan once its binding loop has passed one.

- `NoVictimIfCommonFirst`: if overlapping scopes begin with the same segment
  (`CommonFirst`, as in the cases of RCG-12), no set of transactions waits in a
  circle. In a circle some request holds one target, waits for another and
  so has the plan; who holds the other has locked the first segment of its scope,
  which by `CommonFirst` the request has itself.
- `OverlapAnsweredIfCommonFirst`: then, and if nothing else fails (`Faults = {}`),
  no request is answered with an error.
- `NeverAtStandstill`: while no two open requests share a process, one can go on
  or is ended as a deadlock victim.

`SubmissionProofs`, for any keys, bodies, processes, threads and bounds, from
`SubmissionAssumption`: type correctness, `AnswersStand`, `NoSleepOverWork`. The
invariant has two halves. For the answers: an inserted key has one open
transaction and no row (`Inserted`), what was found or committed is the request's
own (`Found`). For the wake-ups: a thread that is about to wait below a row its
process was woken for has an old sequence (`WaitIsRefused`), which rests on
`LockedRows`, `WokenRows`, `SeenIsPast` and `FailureIsKnown`.

`NextLoopProofs`, for any requests of the five kinds, sends, attempts and
feedbacks, from `NextLoopAssumption`: type correctness, `OneOutputPerMode`,
`RejectedIsExhausted`, `ActivationIsCanonical` and `NoDeadlock`. The invariant
adds where a request can be and what it holds there (`Shape`, `Locks`), that
attempts of one mode are numbered without gaps and the next one is what a
request is about to write (`Attempts`), that one preparation at most is alive and
is still as a request has read it (`Preparations`), and that a run with a lineage
is that of an activated preparation (`CanonicalRuns`). `NoDeadlock` follows from
`Locks`: the locks are taken in one order, and who waits for a key waits for a
request that has nothing left to wait for. `OnePreparationAlive` adds that at most
one preparation is awaiting or activated, and the action property
`DecisionsStand` that attempts, runs and evaluations stay and that a preparation
is decided once.

Two theorems are about `OneOutput`, which the third finding shows violated.
`OneOutputIfFresh`: it would hold if the attempts were read after their lock is
granted (`FreshRead`, required of every step), so the early snapshot is the only
cause. `OneModeLeavesOneOutput`: it holds as the code is when the requests are all
automatic or all manual. Both show that all attempts are of one mode (`OneMode`)
and use `OneOutputPerMode`.

`AudienceAllocationProofs`, for any users, segments, selections and sessions,
from `AllocationAssumption`: type correctness, `PlanKeepsUsers`,
`ReleaseSparesRuns`, `SourceConfirmedOnce`, `NoUserIsAllottedTwice` (of
`PlanKeepsUsers`: two plans that hold a user would both name the user's row), and
`ImplementsLedger` in full, over confirmations, releases, bindings, ends of runs
and stops of targets at any moment (`Stoppable` is any set). The invariant relates the rows of targets, plans,
bindings and members (`RowsOK`), and says for each place of a session what it may
rely on until it writes (`SessionOK`): the lock on the promotion keeps other
confirmations and releases away, the lock on the rows of the plan keeps bindings
away, and the revision, compared when its row is locked, tells a confirmation
that neither has come. A stop keeps all of this: it only takes targets out of
those that hold their users, and none becomes "open" again (`Restopped`). `WritesStand` is the action property: no step changes the
final snapshot of a plan, the status of a released or locked plan, a binding, or a
consumed user whose run goes on and whose target is not stopped; and the revision
rises with every write of members, which each row that is written carries.

`ExclusionProjectionProofs`, for any finite set of users, any loads and any
number of revisions, from `ProjectionAssumption`: type correctness,
`CheckpointCovers`, `EqualCountsSuffice`. The invariant: a batch on its way, and
the view, say nothing false about a user at or above the user's revision
(`Current`), and cover what their revision stands for (`Covers`); nothing is newer
than the revision (`Bounded`). As the copy then has every excluded user, equal
counts mean equal sets. Both properties are about users whose target was never
stopped: `CheckpointCovers` for each user, `EqualCountsSuffice` while all who are
excluded are such, though others were freed by a stop.

`ExclusionSystem`, from both assumptions: `SystemImplementsProjection`, every step
of the composition is one of the projection over writers of whom only the ledger
is known; `ProjectionIsRight`, what was proved of the projection therefore holds
over the real writers, for any finite set of users; and `StatusHidesTaken`: once a
status has the revision of a confirmation, or a later one, the users of its plan
are hidden from the search, while the plan is reserved and while it is bound,
until it is released, the run of the segment is over or the target is stopped. `CheckpointCovers` alone
does not say so: it is about rows that still are as the revision found them, and a
binding writes them again. The invariant `HInv` says that no row on its way, and
none in the view, frees a user at or above the revision of the plan that has the
user (`Respects`), and that a load which has read a revision brings rows as new as
its plans (`Knows`). "Taken" asks that the target still names the plan, which a
repeated confirmation may break (section 5).

TLC checks each inductive invariant's consequences on the instances above. Only
model-checked: the liveness properties `EveryRunSettles` and
`EveryRequestIsAnswered` and the fair refinement `ImplementsLifecycle`, as TLAPS
does not do liveness under fairness. `SameScopeSucceeds`, which is violated, is a
liveness property too.

## 5. Findings

1. Overlapping scopes can be answered with HTTP 500 (`runs_overlap`).
   `_load_binding_target` locks the target and then the plan it shares with the
   other targets. A request for segments 1 and 2 holds target 1 and the plan when
   it asks for target 2; a request for segment 2 holds target 2 and waits for the
   plan. PostgreSQL ends one with `DeadlockDetected`, which `create_promotion_run`
   does not map; RCG-12 of `docs/run-contract-gate/verification-spec.md` asks for
   the defined conflict response and rules out a 500. Its two overlap cases share
   the first segment of the wider scope and do not meet this order; for such scopes
   `OverlapAnsweredIfCommonFirst` proves that only faults lead to an error. Stored
   rows stay right: `runs_safety` includes these deadlocks.
2. Two requests of one scope can stop a process for good (`runs_one_process`).
   The second may start between the first's return and the closing of its
   dependency; its `INSERT ... ON CONFLICT` then waits for the first's
   transaction on the event loop that is needed to commit it, and
   `create_postgres_connection` sets no lock or statement timeout. RCG-10 expects
   both to succeed; its test gives each request a loop and a lock timeout of its
   own. `EveryRequestIsAnswered` in `runs_safety` shows that requests are answered
   when no two share a process, and `NeverAtStandstill` proves the safety half of
   it for any requests. Equal scopes are not needed: two requests of one process
   for disjoint scopes share the plan, and the second waits for its row lock.
3. A source run can be left with two outputs (`next_loop_race`).
   `list_next_loop_generation_attempts` takes its advisory lock in the statement
   that reads the attempts, so a request that had to wait decides on attempts
   from before the other's commit. Two requests of one mode are then stopped by
   the key of the generation; an automatic and a manual one have different
   identifiers, and both commit a completed generation with number 1. A test
   (`test_automatic_next_loop_does_not_duplicate_non_failed_attempt`) and the
   check "next-loop output already exists" expect one. `OneOutputPerMode` shows
   what does hold; `OneOutputIfFresh` proves that reading after the lock would be
   enough. The manual next loop is offered in the environments `dev` and `local`
   only (`MANUAL_NEXT_LOOP_ENABLED_ENVS` in `main.py`).

Observed on the way, against no statement of the repository:

- a selection that is confirmed, released and confirmed again keeps the released
  plan in its targets, because `_bind_target_audience` updates targets without a
  plan only. The new plan can never be bound and its users stay reserved in rows
  that no reader joins (`Lose` in `ExclusionLedger`). No router calls
  `release_reserved_target` yet;
- a confirmation that is sent again, or made again after a release, sets the
  status of its targets to `approved`, also where the dashboard has stopped them
  (`save_target_segments`, `status = EXCLUDED.status`). Their users may by then be
  another plan's, and active in both; and ClickHouse may have them as released at a
  revision above that of their rows, so that a later load does not bring them
  back. The invariants say what holds of all other targets, and fail without that
  restriction;
- the lease table of a process is keyed by the generation, so that a worker thread
  which registers late, when its lease has run out and another thread has claimed
  the run, replaces the newer entry, whose lease is then not renewed
  (`LeaseOutlivesLateWorkers` names it as the only way). The attempt is retried;
- the fingerprint of a submission covers what the server reads: a request that is
  repeated after an edit of the promotion is answered as a different one (409);
- a claim that fails may leave a row to the polls although its process was woken
  for it (`ClaimFails`).

## 6. Not modelled

- Segment assignment. A build of an uplift-ready run is serialised by the lock on
  the run's row and stored by one commit; the other builds insert rows with
  `ON CONFLICT DO NOTHING` and may be repeated. Its matching, randomisation and
  diagnostics, most of its code, are numeric.
- The vector search sync is one transaction under an advisory lock: a sync that
  is cut off leaves nothing. The uplift registry changes the status of a model by
  single guarded updates and a function of the database.
- Analysis, audience contracts, offers, brand context, prompts and rendering work
  within one request on data nobody else changes, or are numeric; offline
  evaluation, scripts, tools and tests, which are most of the repository's lines,
  are not part of the service.
- The metrics and the aggregation of an evaluation, and the run status it writes;
  `NextLoop` has its row, its time and its result.
- The heartbeat budget of the settings against the lease: time is not counted,
  and a lease may end at any moment.
- In the pipeline the SMS path, catalogue images and legacy image tasks; in
  submissions and next loops the validation of what a request names; in the
  allocation previews and counts.

Database constraints are not in the repository and are modelled from how the code
relies on them. `PROJECT.json` lists every component with its status, and every
hazard with the properties that cover it or the reason why none does yet.

## 7. Plan

1. Done: the queue and its submissions, the pipeline, run creation, next loops,
   audience allocation and the exclusion projection, with their proofs, and the
   composition of the last two.
2. `SegmentAssignment`: the two kinds of builds against each other and against
   evaluations, and the answer that is sent before its commit; experiment design
   as operators checked against reference definitions.
3. `HeartbeatTiming`: lease against heartbeat budget, with a clock.
4. The composition of `AudienceAllocation` with `PromotionRuns`, whose bindings
   it has in short.
