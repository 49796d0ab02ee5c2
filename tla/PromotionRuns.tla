--------------------------- MODULE PromotionRuns ---------------------------
(***************************************************************************)
(* POST /decision/v1/promotions/{promotion_id}/runs without a next-loop    *)
(* preparation (create_run in app/decision/service.py): requests that name *)
(* sets of target segments (scopes) of one confirmed analysis and one      *)
(* completed generation, V2 audience contract, one loop count.             *)
(*                                                                         *)
(* A request is one PostgreSQL transaction at READ COMMITTED, so that each *)
(* statement sees what was committed when it began, and what it locked as  *)
(* it was when the lock was granted.  The transaction is opened and closed *)
(* by a dependency that FastAPI runs in a thread, whereas the handler is   *)
(* an async function that calls the blocking driver: from its first        *)
(* statement to its return it keeps the event loop of its process.  It     *)
(* takes the loop again before its dependency is closed and before its     *)
(* answer is sent.                                                         *)
(*                                                                         *)
(* The rows of one analysis share one allocation plan.  The UNIQUE         *)
(* constraint on the bindings, which the row locks make redundant, is left *)
(* out; so is the promotion's exclusion revision, which is advanced under  *)
(* the lock on the plan.                                                   *)
(***************************************************************************)
EXTENDS Naturals, FiniteSets

CONSTANTS Segments,   \* target segments, named by their rank in sorted order
          Requests,   \* clients' requests
          Processes,  \* API server processes
          ScopeOf,    \* segment_ids of each request
          ServedBy,   \* the process that serves each request
          MaxSends,   \* bound: how often a client sends its request
          Faults,     \* what may fail: "raise", "commit", "crash"
          Nobody

ASSUME RunsAssumption ==
         /\ Segments \subseteq Nat
         /\ ScopeOf \in [Requests -> (SUBSET Segments) \ {{}}]
         /\ ServedBy \in [Requests -> Processes]
         /\ MaxSends \in Nat
         /\ Nobody \notin Requests /\ \A S \in SUBSET Segments : Nobody # S

VARIABLES runs,         \* scopes of the rows of promotion_runs
          experiments,  \* ad_experiments: scope of the run, segment
          bound,        \* promotion_run_target_bindings: scope of the run
          target,       \* promotion_target_segments.audience_reservation_state
          members,      \* state of the segment's rows of
                        \*   promotion_audience_exclusion_members
          plan,         \* segment_audience_allocation_plans.status
          pc,           \* where a request is
          outcome,      \* how its handler ended
          own,          \* uncommitted writes of its transaction
          todo,         \* segments its binding loop has yet to read
          snap,         \* members as the running statement sees them
          targetLock,   \* row locks on promotion_target_segments
          planLock,     \* row lock on the allocation plan
          loop,         \* the request that runs on a process's event loop
          sends

rows == <<runs, experiments, bound, target, members, plan>>
locks == <<targetLock, planLock>>
request == <<pc, outcome, own, todo, snap>>
vars == <<rows, locks, request, loop, sends>>

Scopes == (SUBSET Segments) \ {{}}
Reservations == {"reserved", "consumed"}
Reserved == [s \in Segments |-> "reserved"]

InBody == {"insert", "load", "target", "plan", "consume"}
Places == {"idle", "ready", "exit", "closing", "reply", "done"} \cup InBody

(* Uncommitted writes: none, the run and its experiments, or these and the  *)
(* consumed reservations.                                                   *)
Writes == {"nothing", "run", "bindings"}

TypeOK == /\ runs \subseteq Scopes
          /\ experiments \subseteq Scopes \X Segments
          /\ bound \in [Segments -> Scopes \cup {Nobody}]
          /\ target \in [Segments -> Reservations]
          /\ members \in [Segments -> Reservations]
          /\ plan \in {"finalized", "locked"}
          /\ pc \in [Requests -> Places]
          /\ outcome \in [Requests -> {"none", "ok", "conflict", "error", "lost"}]
          /\ own \in [Requests -> Writes]
          /\ todo \in [Requests -> SUBSET Segments]
          /\ snap \in [Requests -> [Segments -> Reservations]]
          /\ targetLock \in [Segments -> Requests \cup {Nobody}]
          /\ planLock \in Requests \cup {Nobody}
          /\ loop \in [Processes -> Requests \cup {Nobody}]
          /\ sends \in [Requests -> 0 .. MaxSends]

Init == /\ runs = {}
        /\ experiments = {}
        /\ bound = [s \in Segments |-> Nobody]
        /\ target = Reserved
        /\ members = Reserved
        /\ plan = "finalized"
        /\ pc = [r \in Requests |-> "idle"]
        /\ outcome = [r \in Requests |-> "none"]
        /\ own = [r \in Requests |-> "nothing"]
        /\ todo = [r \in Requests |-> {}]
        /\ snap = [r \in Requests |-> Reserved]
        /\ targetLock = [s \in Segments |-> Nobody]
        /\ planLock = Nobody
        /\ loop = [p \in Processes |-> Nobody]
        /\ sends = [r \in Requests |-> 0]

-----------------------------------------------------------------------------
LoopIsFree(r) == loop[ServedBy[r]] = Nobody

(* The handler returns or raises: the event loop goes on with other tasks   *)
(* before the dependency of this one is closed.                             *)
Leaves(r, result) == /\ pc' = [pc EXCEPT ![r] = "exit"]
                     /\ outcome' = [outcome EXCEPT ![r] = result]
                     /\ loop' = [loop EXCEPT ![ServedBy[r]] = Nobody]

(* What resolve_run_contract and require_run_binding_set ask of a stored    *)
(* run, and _validate_existing_run_integrity of its experiments.            *)
Intact(scope) == /\ \A s \in scope : /\ <<scope, s>> \in experiments
                                     /\ bound[s] = scope
                                     /\ target[s] = "consumed"
                                     /\ members[s] = "consumed"
                 /\ plan = "locked"

Reuse(r) == Leaves(r, IF Intact(ScopeOf[r]) THEN "ok" ELSE "conflict")

(* A client sends its request, or sends it again whatever became of it: the *)
(* dependency opens a connection and the body is parsed.                    *)
Send(r) == /\ pc[r] \in {"idle", "done"}
           /\ sends[r] < MaxSends
           /\ sends' = [sends EXCEPT ![r] = @ + 1]
           /\ pc' = [pc EXCEPT ![r] = "ready"]
           /\ outcome' = [outcome EXCEPT ![r] = "none"]
           /\ UNCHANGED <<rows, locks, own, todo, snap, loop>>

(* create_run up to get_by_scope: a run already there is reused.            *)
LookUp(r) == /\ pc[r] = "ready"
             /\ LoopIsFree(r)
             /\ \/ /\ ScopeOf[r] \in runs
                   /\ Reuse(r)
                \/ /\ ScopeOf[r] \notin runs
                   /\ pc' = [pc EXCEPT ![r] = "insert"]
                   /\ loop' = [loop EXCEPT ![ServedBy[r]] = r]
                   /\ UNCHANGED outcome
             /\ UNCHANGED <<rows, locks, own, todo, snap, sends>>

(* Another transaction that has inserted a run with r's scope and is open.  *)
Inserters(r) == {q \in Requests : /\ q # r
                                  /\ own[q] # "nothing"
                                  /\ ScopeOf[q] = ScopeOf[r]}

(* INSERT ... ON CONFLICT DO NOTHING waits for the transaction that has     *)
(* inserted the same scope.  If that commits, its run is read again and     *)
(* reused; otherwise the run and then its experiments are written.          *)
InsertRun(r) == /\ pc[r] = "insert"
                /\ Inserters(r) = {}
                /\ \/ /\ ScopeOf[r] \in runs
                      /\ Reuse(r)
                      /\ UNCHANGED <<own, todo>>
                   \/ /\ ScopeOf[r] \notin runs
                      /\ pc' = [pc EXCEPT ![r] = "load"]
                      /\ own' = [own EXCEPT ![r] = "run"]
                      /\ todo' = [todo EXCEPT ![r] = ScopeOf[r]]
                      /\ UNCHANGED <<outcome, loop>>
                /\ UNCHANGED <<rows, locks, snap, sends>>

(* The binding loop visits segments in order.                               *)
IsFirst(s, S) == s \in S /\ \A t \in S : s <= t

(* _load_binding_target is one statement, FOR UPDATE OF target, plan.  Its  *)
(* sub-selects count members in the snapshot it begins with.                *)
LoadTarget(r) == /\ pc[r] = "load"
                 /\ pc' = [pc EXCEPT ![r] = "target"]
                 /\ snap' = [snap EXCEPT ![r] = members]
                 /\ UNCHANGED <<rows, locks, outcome, own, todo, loop, sends>>

LockTarget(r) == /\ pc[r] = "target"
                 /\ \E s \in Segments :
                      /\ IsFirst(s, todo[r])
                      /\ targetLock[s] = Nobody
                      /\ targetLock' = [targetLock EXCEPT ![s] = r]
                 /\ pc' = [pc EXCEPT ![r] = "plan"]
                 /\ UNCHANGED <<rows, planLock, outcome, own, todo, snap,
                                loop, sends>>

(* Mutant: one look at the snapshot in place of the row as it was locked.   *)
MutantBindable(r, s) == snap[r][s] = "reserved"

(* The target is as it was locked, its members as they were when the        *)
(* statement began (_validate_binding_target); no run is bound to it, and   *)
(* its audience is still reserved.                                          *)
Bindable(r, s) == /\ snap[r][s] = target[s]
                  /\ bound[s] = Nobody
                  /\ target[s] = "reserved"

LockPlan(r) == /\ pc[r] = "plan"
               /\ planLock \in {Nobody, r}
               /\ planLock' = r
               /\ \E s \in Segments :
                    /\ IsFirst(s, todo[r])
                    /\ \/ /\ Bindable(r, s)
                          /\ todo' = [todo EXCEPT ![r] = @ \ {s}]
                          /\ pc' = [pc EXCEPT ![r] =
                               IF todo[r] = {s} THEN "consume" ELSE "load"]
                          /\ UNCHANGED <<outcome, loop>>
                       \/ /\ ~ Bindable(r, s)
                          /\ Leaves(r, "conflict")
                          /\ UNCHANGED todo
               /\ UNCHANGED <<rows, targetLock, own, snap, sends>>

(* Mutant: consuming outside the transaction.                               *)
MutantConsume(r) ==
  /\ pc[r] = "consume"
  /\ own' = [own EXCEPT ![r] = "bindings"]
  /\ Leaves(r, "ok")
  /\ members' = [s \in Segments |->
                   IF s \in ScopeOf[r] THEN "consumed" ELSE members[s]]
  /\ UNCHANGED <<runs, experiments, bound, target, plan, locks, todo, snap, sends>>

(* _consume_binding_reservation for every segment of the scope, and the     *)
(* check of require_run_binding_set, which sees the transaction's writes.   *)
ConsumeReservations(r) == /\ pc[r] = "consume"
                          /\ own' = [own EXCEPT ![r] = "bindings"]
                          /\ Leaves(r, "ok")
                          /\ UNCHANGED <<rows, locks, todo, snap, sends>>

(* Mutant: a connection that goes back to a pool with its transaction open. *)
MutantEndTransaction(r) == /\ own' = [own EXCEPT ![r] = "nothing"]
                           /\ todo' = [todo EXCEPT ![r] = {}]
                           /\ UNCHANGED locks

(* End of the transaction, with or without its writes: what it has locked   *)
(* is free for others.                                                      *)
EndTransaction(r) ==
  /\ own' = [own EXCEPT ![r] = "nothing"]
  /\ todo' = [todo EXCEPT ![r] = {}]
  /\ targetLock' = [s \in Segments |->
                      IF targetLock[s] = r THEN Nobody ELSE targetLock[s]]
  /\ planLock' = IF planLock = r THEN Nobody ELSE planLock

(* An exception that no handler turns into an answer of its own, of Python  *)
(* or of a statement that fails: the server then aborts the transaction.    *)
BodyRaises(r) == /\ "raise" \in Faults
                 /\ pc[r] \in InBody
                 /\ Leaves(r, "error")
                 /\ EndTransaction(r) \/ UNCHANGED <<own, todo, locks>>
                 /\ UNCHANGED <<rows, snap, sends>>

-----------------------------------------------------------------------------
(* PostgreSQL.                                                              *)

(* The transaction that r's statement waits for.                            *)
WaitsFor(r) ==
  CASE pc[r] = "insert" -> Inserters(r)
    [] pc[r] = "target" -> {q \in Requests \ {r} :
                              \E s \in Segments : /\ IsFirst(s, todo[r])
                                                  /\ targetLock[s] = q}
    [] pc[r] = "plan"   -> {planLock} \ {r, Nobody}
    [] OTHER            -> {}

(* Transactions that wait for one another, and for no other.                *)
Deadlocked(S) == /\ \A r \in S : WaitsFor(r) \cap S # {}
                 /\ \A r \in S : \E q \in S : r \in WaitsFor(q)

(* The server aborts one of them: DeadlockDetected, which is not an         *)
(* IntegrityError, leaves the handler as it is.                             *)
DeadlockVictim(r) == /\ \E S \in SUBSET Requests : r \in S /\ Deadlocked(S)
                     /\ Leaves(r, "error")
                     /\ EndTransaction(r)
                     /\ UNCHANGED <<rows, snap, sends>>

-----------------------------------------------------------------------------
(* The rest of get_promotion_run_service, once the handler has left.        *)

(* The closing of the dependency is submitted to a thread.                  *)
CloseDependency(r) == /\ pc[r] = "exit"
                      /\ LoopIsFree(r)
                      /\ pc' = [pc EXCEPT ![r] = "closing"]
                      /\ UNCHANGED <<rows, locks, outcome, own, todo, snap,
                                     loop, sends>>

(* Mutant: the plan is given the state of its audiences.                    *)
MutantWriteRows(r) ==
  /\ IF own[r] = "nothing" THEN UNCHANGED <<runs, experiments>>
     ELSE /\ runs' = runs \cup {ScopeOf[r]}
          /\ experiments' = experiments \cup ({ScopeOf[r]} \X ScopeOf[r])
  /\ IF own[r] # "bindings" THEN UNCHANGED <<bound, target, members, plan>>
     ELSE /\ bound' = [s \in Segments |->
                         IF s \in ScopeOf[r] THEN ScopeOf[r] ELSE bound[s]]
          /\ target' = [s \in Segments |->
                          IF s \in ScopeOf[r] THEN "consumed" ELSE target[s]]
          /\ members' = [s \in Segments |->
                           IF s \in ScopeOf[r] THEN "consumed" ELSE members[s]]
          /\ plan' = "consumed"

(* The writes of r become visible to other transactions, all at once.       *)
WriteRows(r) ==
  /\ IF own[r] = "nothing" THEN UNCHANGED <<runs, experiments>>
     ELSE /\ runs' = runs \cup {ScopeOf[r]}
          /\ experiments' = experiments \cup ({ScopeOf[r]} \X ScopeOf[r])
  /\ IF own[r] # "bindings" THEN UNCHANGED <<bound, target, members, plan>>
     ELSE /\ bound' = [s \in Segments |->
                         IF s \in ScopeOf[r] THEN ScopeOf[r] ELSE bound[s]]
          /\ target' = [s \in Segments |->
                          IF s \in ScopeOf[r] THEN "consumed" ELSE target[s]]
          /\ members' = [s \in Segments |->
                           IF s \in ScopeOf[r] THEN "consumed" ELSE members[s]]
          /\ plan' = "locked"

(* The thread that closes the dependency: the handler has returned.         *)
Commit(r) == /\ pc[r] = "closing" /\ outcome[r] = "ok"
             /\ WriteRows(r)
             /\ EndTransaction(r)
             /\ pc' = [pc EXCEPT ![r] = "reply"]
             /\ UNCHANGED <<outcome, snap, loop, sends>>

(* Mutant: a failed commit that is logged and forgotten.                    *)
MutantCommitFails(r) == /\ "commit" \in Faults
                        /\ pc[r] = "closing" /\ outcome[r] = "ok"
                        /\ EndTransaction(r)
                        /\ pc' = [pc EXCEPT ![r] = "reply"]
                        /\ UNCHANGED <<rows, outcome, snap, loop, sends>>

(* commit() raises, on a deferred constraint for instance.                  *)
CommitFails(r) == /\ "commit" \in Faults
                  /\ pc[r] = "closing" /\ outcome[r] = "ok"
                  /\ EndTransaction(r)
                  /\ pc' = [pc EXCEPT ![r] = "reply"]
                  /\ outcome' = [outcome EXCEPT ![r] = "error"]
                  /\ UNCHANGED <<rows, snap, loop, sends>>

(* Mutant: an answer for a handler that has raised, with the dependency committed.*)
MutantRollback(r) == /\ pc[r] = "closing" /\ outcome[r] # "ok"
                     /\ WriteRows(r)
                     /\ EndTransaction(r)
                     /\ pc' = [pc EXCEPT ![r] = "reply"]
                     /\ UNCHANGED <<outcome, snap, loop, sends>>

(* The same when the handler has raised.                                    *)
Rollback(r) == /\ pc[r] = "closing" /\ outcome[r] # "ok"
               /\ EndTransaction(r)
               /\ pc' = [pc EXCEPT ![r] = "reply"]
               /\ UNCHANGED <<rows, outcome, snap, loop, sends>>

Reply(r) == /\ pc[r] = "reply"
            /\ LoopIsFree(r)
            /\ pc' = [pc EXCEPT ![r] = "done"]
            /\ UNCHANGED <<rows, locks, outcome, own, todo, snap, loop, sends>>

(* A process dies: the server rolls its open transactions back, and its     *)
(* clients learn nothing.                                                   *)
Crash(p) ==
  LET gone == {r \in Requests : /\ ServedBy[r] = p
                                /\ pc[r] \notin {"idle", "done"}}
  IN  /\ "crash" \in Faults
      /\ gone # {}
      /\ pc' = [r \in Requests |-> IF r \in gone THEN "done" ELSE pc[r]]
      /\ outcome' = [r \in Requests |->
                       IF r \in gone THEN "lost" ELSE outcome[r]]
      /\ own' = [r \in Requests |-> IF r \in gone THEN "nothing" ELSE own[r]]
      /\ todo' = [r \in Requests |-> IF r \in gone THEN {} ELSE todo[r]]
      /\ targetLock' = [s \in Segments |-> IF targetLock[s] \in gone
                                           THEN Nobody ELSE targetLock[s]]
      /\ planLock' = IF planLock \in gone THEN Nobody ELSE planLock
      /\ loop' = [loop EXCEPT ![p] = Nobody]
      /\ UNCHANGED <<rows, snap, sends>>

Handler(r) == \/ LookUp(r) \/ InsertRun(r) \/ LoadTarget(r) \/ LockTarget(r)
              \/ LockPlan(r) \/ ConsumeReservations(r)

Closing(r) == CloseDependency(r) \/ Commit(r) \/ Rollback(r) \/ Reply(r)

Next == \/ \E r \in Requests : \/ Send(r) \/ Handler(r) \/ BodyRaises(r)
                               \/ DeadlockVictim(r) \/ Closing(r)
                               \/ CommitFails(r)
        \/ \E p \in Processes : Crash(p)

Spec == Init /\ [][Next]_vars

(* Threads run, PostgreSQL answers, grants locks and finds deadlocks.       *)
Fairness == \A r \in Requests : /\ WF_vars(Handler(r))
                                /\ WF_vars(DeadlockVictim(r))
                                /\ WF_vars(Closing(r))

FairSpec == Spec /\ Fairness

-----------------------------------------------------------------------------
(* A stored run is whole: each segment of its scope has its experiment, and *)
(* its audience is bound to this run and consumed (RCG-01 and RCG-12 of     *)
(* docs/run-contract-gate/verification-spec.md).                            *)
RunIsWhole == \A S \in runs : Intact(S)

(* Nothing is left of the requests that fail: experiments, bindings and     *)
(* consumed reservations are those of stored runs (RCG-06, RCG-11).         *)
NothingWithoutRun ==
  /\ \A e \in experiments : e[1] \in runs
  /\ \A s \in Segments : /\ bound[s] # Nobody => bound[s] \in runs
                         /\ target[s] = "consumed" <=> bound[s] # Nobody
                         /\ members[s] = target[s]

(* A client told 200 has its run stored: the dependency is closed before    *)
(* the answer is sent (get_promotion_run_service with scope="function").    *)
SuccessIsStored == \A r \in Requests :
                     pc[r] = "done" /\ outcome[r] = "ok" => ScopeOf[r] \in runs

(* However requests overlap, wait and fail, an audience goes to one run,    *)
(* with all the audiences of its scope, and stays there.                    *)
Registry == INSTANCE RunRegistry WITH owner <- bound, Free <- Nobody
ImplementsRegistry == Registry!Spec

(* A request that is sent is answered.                                      *)
EveryRequestIsAnswered ==
  \A r \in Requests : pc[r] \notin {"idle", "done"} ~> pc[r] = "done"

(* RCG-12: of two requests with overlapping scopes one succeeds, and the    *)
(* other is answered with the conflict that the API defines.                *)
OverlapIsAnswered == \A r \in Requests : outcome[r] # "error"

(* RCG-10: two concurrent requests with one scope both succeed.             *)
SameScopeSucceeds ==
  \A q, r \in Requests :
    (ScopeOf[q] = ScopeOf[r] /\ pc[q] = "ready") ~> (outcome[q] = "ok" /\ pc[q] = "done")
=============================================================================
