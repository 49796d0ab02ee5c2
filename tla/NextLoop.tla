------------------------------ MODULE NextLoop ------------------------------
(***************************************************************************)
(* The next loop of one source run: POST /promotion-runs/{id}/next-loop    *)
(* (app/decision/next_loop_service.py), automatic, which creates the next  *)
(* run at once, or manual, which prepares content that the dashboard       *)
(* reviews; the activation of a preparation and a run created directly     *)
(* with the same scope (create_run in app/decision/service.py); and the    *)
(* evaluations of the source run that all of these go by.                  *)
(*                                                                         *)
(* A request is one transaction at READ COMMITTED: a statement sees what   *)
(* was committed when it began, and rows it locks as they are when the     *)
(* lock is granted.  Servers are many: nothing but locks and keys orders   *)
(* requests.  All name the one segment that failed.  A preparation and its *)
(* generation have the number of the attempt.  The status of the source    *)
(* run, which an evaluation rewrites and no request reads, and the lock on *)
(* the activation scope, which follows from the lock on the preparation,   *)
(* are left out.                                                           *)
(***************************************************************************)
EXTENDS Naturals, FiniteSets

CONSTANTS Requests,
          Kind,         \* what each request is
          Sends,        \* bound: how often a client sends its request
          MaxAttempts,  \* bound: attempts of the source run
          Feedbacks,    \* what a goal_not_met evaluation says
          Nobody

Kinds == {"evaluate", "automatic", "manual", "activate", "direct"}
Modes == {"automatic", "manual"}
Number == 1 .. MaxAttempts

ASSUME NextLoopAssumption ==
         /\ Kind \in [Requests -> Kinds]
         /\ Sends \in [Requests -> Nat]
         /\ MaxAttempts \in Nat \ {0}
         /\ Nobody \notin Requests
         /\ "met" \notin Feedbacks /\ Feedbacks # {}

VARIABLES evals,        \* promotion_evaluations: created_at and result
          gens,         \* generation_runs of the source run
          target,       \* promotion_target_segments.status, by analysis
          preps,        \* next_loop_preparations.status
          basis,        \* source evaluation of a preparation
          origin,       \* analysis of a preparation
          review,       \* its content_candidates
          runs,         \* promotion_runs: generation, lineage of the experiment
          pc, now,      \* where a request is; the newest transaction start
          arg,          \* what it has read or been given
          seen,         \* generations in the snapshot of its statement
          own,          \* uncommitted writes
          prepLock,     \* advisory lock of the manual preparation
          attemptLock,  \* advisory lock of the attempts
          rowLock,      \* row locks on preparations
          sends

rows == <<evals, gens, target, preps, basis, origin, review, runs>>
locks == <<prepLock, attemptLock, rowLock>>
vars == <<rows, locks, pc, now, arg, seen, own, sends>>

Stamp == Nat
Evaluation == [stamp : Stamp, result : Feedbacks \cup {"met"}]
Generation == [mode : Modes, no : Number, says : Feedbacks, analysis : Number,
               by : Requests, status : {"failed", "completed"}]
Run == [mode : Modes, no : Number, lineage : Stamp]

(* eval: evaluation gone by; says: its feedback; prep: preparation replaced *)
(* or activated, 0 for none; mode and no: generation; planned: the target   *)
(* was planned when it was read.                                            *)
Arg == [eval : Stamp, says : Feedbacks \cup {"met"}, prep : 0 .. MaxAttempts,
        mode : Modes, no : 0 .. MaxAttempts, planned : BOOLEAN]
NoArg == [eval |-> 0, says |-> "met", prep |-> 0, mode |-> "manual", no |-> 0,
          planned |-> FALSE]

InBody == {"validate", "serialize", "active", "attempts", "lock", "generate",
           "prepare", "lineage", "adopt", "source", "insert", "measure", "commit"}
Writes == {"nothing", "failed", "completed", "adopt", "run", "evaluation"}

TypeOK ==
  /\ evals \subseteq Evaluation
  /\ gens \subseteq Generation
  /\ target \in [Number -> {"none", "planned", "approved"}]
  /\ preps \in [Number -> {"none", "awaiting", "rejected", "activated"}]
  /\ basis \in [Number -> Stamp]
  /\ origin \in [Number -> 0 .. MaxAttempts]
  /\ review \in [Number -> {"none", "draft", "approved", "exhausted"}]
  /\ runs \subseteq Run
  /\ pc \in [Requests -> {"idle", "done"} \cup InBody]
  /\ now \in Stamp
  /\ arg \in [Requests -> Arg]
  /\ seen \in [Requests -> SUBSET Generation]
  /\ own \in [Requests -> Writes]
  /\ prepLock \in Requests \cup {Nobody}
  /\ attemptLock \in Requests \cup {Nobody}
  /\ rowLock \in [Number -> Requests \cup {Nobody}]
  /\ \A r \in Requests : sends[r] \in 0 .. Sends[r]

(* The source run has been evaluated once, below its goal.                  *)
Init == /\ \E f \in Feedbacks : evals = {[stamp |-> 1, result |-> f]}
        /\ gens = {}
        /\ target = [n \in Number |-> "none"]
        /\ preps = [n \in Number |-> "none"]
        /\ basis = [n \in Number |-> 0]
        /\ origin = [n \in Number |-> 0]
        /\ review = [n \in Number |-> "none"]
        /\ runs = {}
        /\ pc = [r \in Requests |-> "idle"]
        /\ now = 1
        /\ arg = [r \in Requests |-> NoArg]
        /\ seen = [r \in Requests |-> {}]
        /\ own = [r \in Requests |-> "nothing"]
        /\ prepLock = Nobody
        /\ attemptLock = Nobody
        /\ rowLock = [n \in Number |-> Nobody]
        /\ sends = [r \in Requests |-> 0]

-----------------------------------------------------------------------------
GoTo(r, place) == pc' = [pc EXCEPT ![r] = place]

(* Mutant: the lock on the attempts is one of the session, which stays.     *)
MutantRelease(r) ==
  /\ GoTo(r, "done")
  /\ arg' = [arg EXCEPT ![r] = NoArg]
  /\ seen' = [seen EXCEPT ![r] = {}]
  /\ own' = [own EXCEPT ![r] = "nothing"]
  /\ prepLock' = IF prepLock = r THEN Nobody ELSE prepLock
  /\ rowLock' = [n \in Number |-> IF rowLock[n] = r THEN Nobody ELSE rowLock[n]]
  /\ UNCHANGED attemptLock

(* The transaction of r ends, and what it has locked is free.               *)
Release(r) ==
  /\ GoTo(r, "done")
  /\ arg' = [arg EXCEPT ![r] = NoArg]
  /\ seen' = [seen EXCEPT ![r] = {}]
  /\ own' = [own EXCEPT ![r] = "nothing"]
  /\ prepLock' = IF prepLock = r THEN Nobody ELSE prepLock
  /\ attemptLock' = IF attemptLock = r THEN Nobody ELSE attemptLock
  /\ rowLock' = [n \in Number |-> IF rowLock[n] = r THEN Nobody ELSE rowLock[n]]

(* A refusal, or an answer that leaves the database as it was.              *)
Leave(r) == Release(r) /\ UNCHANGED <<rows, now, sends>>

(* A client sends its request, or sends it again.  An activation names a    *)
(* preparation, a direct run a generation.                                  *)
Send(r) ==
  /\ pc[r] \in {"idle", "done"}
  /\ sends[r] < Sends[r]
  /\ sends' = [sends EXCEPT ![r] = @ + 1]
  /\ \/ Kind[r] \in Modes /\ GoTo(r, "validate") /\ UNCHANGED <<arg, now>>
     \/ /\ Kind[r] = "activate"
        /\ \E n \in Number : /\ preps[n] # "none"
                             /\ arg' = [arg EXCEPT ![r].prep = n, ![r].no = n]
        /\ GoTo(r, "prepare")
        /\ UNCHANGED now
     \/ /\ Kind[r] = "direct"
        /\ \E g \in gens : arg' = [arg EXCEPT ![r].mode = g.mode, ![r].no = g.no]
        /\ GoTo(r, "source")
        /\ UNCHANGED now
     \/ (* created_at is the start of the transaction *)
        /\ Kind[r] = "evaluate"
        /\ now' = now + 1
        /\ arg' = [arg EXCEPT ![r].eval = now + 1]
        /\ GoTo(r, "measure")
  /\ UNCHANGED <<rows, locks, seen, own>>

Latest(e) == \A f \in evals : f.stamp <= e.stamp

(* _validate_failed_ids: the latest evaluation must be goal_not_met.  What  *)
(* it says becomes part of the instruction.                                 *)
Validate(r) ==
  /\ pc[r] = "validate"
  /\ \E e \in evals :
       /\ Latest(e)
       /\ IF e.result = "met" THEN Leave(r)
          ELSE /\ arg' = [arg EXCEPT ![r].eval = e.stamp,
                                     ![r].says = e.result,
                                     ![r].mode = Kind[r]]
               /\ GoTo(r, IF Kind[r] = "manual" THEN "serialize" ELSE "attempts")
               /\ UNCHANGED <<rows, locks, now, seen, own, sends>>

-----------------------------------------------------------------------------
(* Manual preparation.                                                      *)

(* The statement that SerializedNextLoopPreparationRepository puts before   *)
(* get_active_by_source_run.                                                *)
Serialize(r) == /\ pc[r] = "serialize"
                /\ prepLock = Nobody
                /\ prepLock' = r
                /\ GoTo(r, "active")
                /\ UNCHANGED <<rows, attemptLock, rowLock, now, arg, seen, own, sends>>

(* Mutant: the active preparation read without FOR UPDATE.                  *)
MutantReplace(r, n) == /\ basis[n] = arg[r].eval
                       /\ review[n] = "exhausted"
                       /\ \A m \in Number : preps[m] # "none" => m <= n
                       /\ arg' = [arg EXCEPT ![r].prep = n]
                       /\ GoTo(r, "attempts")
                       /\ UNCHANGED <<rows, locks, now, seen, own, sends>>

(* _reuse_active_preparation goes on to a replacement: same evaluations,    *)
(* every candidate rejected, the highest number.                            *)
Replace(r, n) == /\ basis[n] = arg[r].eval
                 /\ review[n] = "exhausted"
                 /\ \A m \in Number : preps[m] # "none" => m <= n
                 /\ rowLock' = [rowLock EXCEPT ![n] = r]
                 /\ arg' = [arg EXCEPT ![r].prep = n]
                 /\ GoTo(r, "attempts")
                 /\ UNCHANGED <<rows, prepLock, attemptLock, now, seen, own, sends>>

(* get_active_by_source_run waits for the lock on the row.  Without an      *)
(* active preparation the source run must have had none.  An active one is  *)
(* answered again, refused for another intent, or replaced.                 *)
FindActive(r) ==
  /\ pc[r] = "active"
  /\ \/ /\ \A n \in Number : preps[n] # "awaiting"
        /\ IF \A n \in Number : preps[n] = "none"
           THEN /\ GoTo(r, "attempts")
                /\ UNCHANGED <<rows, locks, now, arg, seen, own, sends>>
           ELSE Leave(r)
     \/ \E n \in Number :
          /\ preps[n] = "awaiting"
          /\ rowLock[n] = Nobody
          /\ \/ Replace(r, n)
             \/ /\ basis[n] # arg[r].eval \/ review[n] # "exhausted"
                /\ Leave(r)

-----------------------------------------------------------------------------
(* Attempts.                                                                *)

(* list_next_loop_generation_attempts takes the lock in the statement that  *)
(* reads: its snapshot is that of its beginning.                            *)
ReadAttempts(r) == /\ pc[r] = "attempts"
                   /\ seen' = [seen EXCEPT ![r] = gens]
                   /\ GoTo(r, "lock")
                   /\ UNCHANGED <<rows, locks, now, arg, own, sends>>

(* A completed attempt that a manual request may go past: its preparation   *)
(* is rejected, or is the one that is being replaced.                       *)
Superseded(r, g) == /\ g.mode = "manual" /\ Kind[r] = "manual"
                    /\ g.status = "completed"
                    /\ \/ preps[g.no] = "rejected"
                       \/ preps[g.no] = "awaiting" /\ g.no = arg[r].prep

SameIntent(r, g) == /\ g.mode = Kind[r]
                    /\ \/ Superseded(r, g)
                       \/ g.no <= arg[r].prep
                       \/ g.says = arg[r].says

(* _next_loop_generation_attempt_no: every attempt has the intent of the    *)
(* request, has failed or is superseded, and they are numbered from 1 on.   *)
MayAttempt(r) ==
  /\ \A g \in seen[r] : SameIntent(r, g) /\ (g.status = "failed" \/ Superseded(r, g))
  /\ {g.no : g \in seen[r]} = 1 .. Cardinality(seen[r])

LockAttempts(r) ==
  /\ pc[r] = "lock"
  /\ attemptLock = Nobody
  /\ IF MayAttempt(r) /\ Cardinality(seen[r]) < MaxAttempts
     THEN /\ attemptLock' = r
          /\ arg' = [arg EXCEPT ![r].no = Cardinality(seen[r]) + 1]
          /\ GoTo(r, "generate")
          /\ UNCHANGED <<rows, prepLock, rowLock, now, seen, own, sends>>
     ELSE Leave(r)

(* Mutant: a generation id of its own for every request.                    *)
MutantSameId(m, g) == FALSE

(* _next_loop_generation_id: the first automatic attempt goes without the   *)
(* number, the first manual one with it.                                    *)
SameId(m, g) == m.no = g.no /\ (m.no = 1 => m.mode = g.mode)

(* A preparation is inserted next to those of other numbers, none of them   *)
(* active but the one replaced (the unique keys of the table).              *)
MayPrepare(r) == /\ preps[arg[r].no] = "none"
                 /\ \A n \in Number \ {arg[r].prep} : preps[n] # "awaiting"

(* start_analysis and start_generation, with what follows them: the attempt *)
(* has failed, or it has content, and a run or a preparation with it.  A key*)
(* that is there already is a conflict.                                     *)
Generate(r) ==
  /\ pc[r] = "generate"
  /\ IF \E g \in gens : SameId([mode |-> Kind[r], no |-> arg[r].no], g)
     THEN Leave(r)
     ELSE \E status \in {"failed", "completed"} :
            IF status = "completed" /\ Kind[r] = "manual" /\ ~ MayPrepare(r)
            THEN Leave(r)
            ELSE /\ own' = [own EXCEPT ![r] = status]
                 /\ GoTo(r, "commit")
                 /\ UNCHANGED <<rows, locks, now, arg, seen, sends>>

-----------------------------------------------------------------------------
(* Activation, and direct creation of a run.                                *)

RunOf(r) == {u \in runs : u.mode = arg[r].mode /\ u.no = arg[r].no}

(* Another transaction with an uncommitted run of the same generation.      *)
Inserters(r) == {q \in Requests : /\ q # r
                                  /\ own[q] \in {"adopt", "run"}
                                  /\ arg[q].mode = arg[r].mode
                                  /\ arg[q].no = arg[r].no}

(* get_by_id_for_update.  An activated preparation is answered with its     *)
(* run, a rejected one is refused.                                          *)
LockPreparation(r) ==
  /\ pc[r] = "prepare"
  /\ rowLock[arg[r].prep] = Nobody
  /\ IF preps[arg[r].prep] = "awaiting"
     THEN /\ rowLock' = [rowLock EXCEPT ![arg[r].prep] = r]
          /\ GoTo(r, "lineage")
          /\ UNCHANGED <<rows, prepLock, attemptLock, now, arg, seen, own, sends>>
     ELSE Leave(r)

(* The reads of _activate_prepared_run: content approved, and the           *)
(* evaluations of the preparation still the latest (_load_validated_lineage),*)
(* without a lock on them.                                                  *)
CheckLineage(r) ==
  /\ pc[r] = "lineage"
  /\ IF /\ review[arg[r].prep] = "approved"
        /\ \E e \in evals : /\ Latest(e) /\ e.result # "met"
                             /\ e.stamp = basis[arg[r].prep]
     THEN /\ arg' = [arg EXCEPT ![r].eval = basis[arg[r].prep],
                       ![r].planned = target[origin[arg[r].prep]] = "planned"]
          /\ GoTo(r, "adopt")
          /\ UNCHANGED <<rows, locks, now, seen, own, sends>>
     ELSE Leave(r)

(* Mutant: whatever run has the scope is adopted.                           *)
MutantAdoptable(r) == TRUE

(* A planned target is still planned when it is approved, and a run already *)
(* there has the lineage of the preparation (_validate_canonical_experiments).*)
Adoptable(r) == /\ arg[r].planned => target[origin[arg[r].prep]] = "planned"
                /\ \A u \in RunOf(r) : u.lineage = arg[r].eval

(* _approve_planned_target_segments, the run and its experiments, and       *)
(* mark_activated.  INSERT ... ON CONFLICT waits for an open transaction    *)
(* with the same run.                                                       *)
Adopt(r) == /\ pc[r] = "adopt"
            /\ Inserters(r) = {}
            /\ IF Adoptable(r)
               THEN /\ own' = [own EXCEPT ![r] = "adopt"]
                    /\ GoTo(r, "commit")
                    /\ UNCHANGED <<rows, locks, now, arg, seen, sends>>
               ELSE Leave(r)

(* create_run without a preparation: generation completed, target and       *)
(* content approved.                                                        *)
ReadSource(r) ==
  /\ pc[r] = "source"
  /\ IF \E g \in gens : /\ g.mode = arg[r].mode /\ g.no = arg[r].no
                        /\ g.status = "completed"
                        /\ target[g.analysis] = "approved"
                        /\ g.mode = "manual" => review[g.no] = "approved"
     THEN GoTo(r, "insert") /\ UNCHANGED <<rows, locks, now, arg, seen, own, sends>>
     ELSE Leave(r)

(* A run already there is reused, whatever its lineage.                     *)
InsertRun(r) == /\ pc[r] = "insert"
                /\ Inserters(r) = {}
                /\ IF RunOf(r) = {}
                   THEN /\ own' = [own EXCEPT ![r] = "run"]
                        /\ GoTo(r, "commit")
                        /\ UNCHANGED <<rows, locks, now, arg, seen, sends>>
                   ELSE Leave(r)

-----------------------------------------------------------------------------
(* PromotionRunEvaluationService.evaluate: what the events say at that time.*)
Measure(r) == /\ pc[r] = "measure"
              /\ \E result \in Feedbacks \cup {"met"} :
                   arg' = [arg EXCEPT ![r].says = result]
              /\ own' = [own EXCEPT ![r] = "evaluation"]
              /\ GoTo(r, "commit")
              /\ UNCHANGED <<rows, locks, now, seen, sends>>

(* The dashboard approves a candidate, one rejected before too, or has all  *)
(* of them rejected, with the preparation and its candidates locked.        *)
Review(n) == /\ preps[n] = "awaiting"
             /\ rowLock[n] = Nobody
             /\ \E verdict \in {"approved", "exhausted"} \ {review[n]} :
                  review' = [review EXCEPT ![n] = verdict]
             /\ UNCHANGED <<evals, gens, target, preps, basis, origin, runs,
                            locks, pc, now, arg, seen, own, sends>>

-----------------------------------------------------------------------------
(* Mutant: a replacement is written without the analysis it came from.      *)
MutantAnalysisOf(r) == IF arg[r].prep = 0 THEN arg[r].no ELSE 0

(* What the transaction of r leaves.                                        *)
AnalysisOf(r) == IF arg[r].prep = 0 THEN arg[r].no ELSE origin[arg[r].prep]

WriteAttempt(r, status) ==
  /\ gens' = gens \cup {[mode |-> Kind[r], no |-> arg[r].no, says |-> arg[r].says,
                         analysis |-> AnalysisOf(r), by |-> r, status |-> status]}
  /\ target' = IF arg[r].prep # 0 THEN target
               ELSE [target EXCEPT ![arg[r].no] =
                       IF Kind[r] = "manual" THEN "planned" ELSE "approved"]

WritePreparation(r) ==
  /\ preps' = [n \in Number |-> IF n = arg[r].no THEN "awaiting"
                                ELSE IF n = arg[r].prep THEN "rejected" ELSE preps[n]]
  /\ basis' = [basis EXCEPT ![arg[r].no] = arg[r].eval]
  /\ origin' = [origin EXCEPT ![arg[r].no] = AnalysisOf(r)]
  /\ review' = [review EXCEPT ![arg[r].no] = "draft"]

WriteRun(r, lineage) ==
  runs' = runs \cup {[mode |-> arg[r].mode, no |-> arg[r].no, lineage |-> lineage]}

CommitAttempt(r) ==
  /\ own[r] \in {"failed", "completed"}
  /\ WriteAttempt(r, own[r])
  /\ IF own[r] = "failed" THEN UNCHANGED <<preps, basis, origin, review, runs>>
     ELSE IF Kind[r] = "manual" THEN WritePreparation(r) /\ UNCHANGED runs
     ELSE WriteRun(r, 0) /\ UNCHANGED <<preps, basis, origin, review>>
  /\ UNCHANGED evals

CommitActivation(r) ==
  /\ own[r] = "adopt"
  /\ IF RunOf(r) = {} THEN WriteRun(r, arg[r].eval) ELSE UNCHANGED runs
  /\ preps' = [preps EXCEPT ![arg[r].prep] = "activated"]
  /\ target' = [target EXCEPT ![origin[arg[r].prep]] = "approved"]
  /\ UNCHANGED <<evals, gens, basis, origin, review>>

CommitRun(r) == /\ own[r] = "run"
                /\ WriteRun(r, 0)
                /\ UNCHANGED <<evals, gens, target, preps, basis, origin, review>>

CommitEvaluation(r) ==
  /\ own[r] = "evaluation"
  /\ evals' = evals \cup {[stamp |-> arg[r].eval, result |-> arg[r].says]}
  /\ UNCHANGED <<gens, target, preps, basis, origin, review, runs>>

Commit(r) == /\ pc[r] = "commit"
             /\ \/ CommitAttempt(r) \/ CommitActivation(r)
                \/ CommitRun(r) \/ CommitEvaluation(r)
             /\ Release(r)
             /\ UNCHANGED <<now, sends>>

(* An exception, a violated key, a failed commit or the end of the process: *)
(* the transaction is rolled back.                                          *)
Abort(r) == pc[r] \in InBody /\ Leave(r)

Step(r) == \/ Validate(r) \/ Serialize(r) \/ FindActive(r) \/ ReadAttempts(r)
           \/ LockAttempts(r) \/ Generate(r) \/ LockPreparation(r)
           \/ CheckLineage(r) \/ Adopt(r) \/ ReadSource(r) \/ InsertRun(r)
           \/ Measure(r) \/ Commit(r)

Next == \/ \E r \in Requests : Send(r) \/ Step(r) \/ Abort(r)
        \/ \E n \in Number : Review(n)

Spec == Init /\ [][Next]_vars

-----------------------------------------------------------------------------
(* Two requests of one mode do not both leave content to choose from: the   *)
(* snapshot of list_next_loop_generation_attempts may be older than the     *)
(* lock, but then the key of the generation stops the second.               *)
Outputs == {g \in gens : /\ g.status = "completed"
                         /\ ~ (g.mode = "manual" /\ preps[g.no] = "rejected")}
OneOutputPerMode == \A g, h \in Outputs : g.mode = h.mode => g = h

(* A preparation is given up only when every candidate has been rejected,   *)
(* however its review and its replacement interleave: approved content is   *)
(* not thrown away (list_by_generation_for_update).                         *)
RejectedIsExhausted == \A n \in Number : preps[n] = "rejected" => review[n] = "exhausted"

(* An activated preparation has its run, with its evaluation as lineage and *)
(* content that is approved; a run with a lineage is that of an activated   *)
(* preparation; and no generation has two runs, however activations, direct *)
(* runs and reviews interleave.                                             *)
ActivationIsCanonical ==
  /\ \A n \in Number : preps[n] = "activated" =>
       review[n] = "approved" /\ [mode |-> "manual", no |-> n, lineage |-> basis[n]] \in runs
  /\ \A u \in runs : u.lineage # 0 => u.mode = "manual" /\ preps[u.no] = "activated"
  /\ \A u, v \in runs : (u.mode = v.mode /\ u.no = v.no) => u = v

(* A request that cannot go on before another ends.                         *)
Waits(r) ==
  \/ pc[r] = "serialize" /\ prepLock # Nobody
  \/ pc[r] = "active" /\ \E n \in Number : preps[n] = "awaiting" /\ rowLock[n] # Nobody
  \/ pc[r] = "lock" /\ attemptLock # Nobody
  \/ pc[r] = "prepare" /\ rowLock[arg[r].prep] # Nobody
  \/ pc[r] \in {"adopt", "insert"} /\ Inserters(r) # {}

(* Requests that wait for locks and keys do not wait for one another, in    *)
(* whatever order the four kinds take them: while some are not answered,    *)
(* one of them can go on.                                                   *)
NoDeadlock == (\E r \in Requests : pc[r] \in InBody) =>
                \E r \in Requests : pc[r] \in InBody /\ ~ Waits(r)

(* "test_automatic_next_loop_does_not_duplicate_non_failed_attempt"         *)
(* (tests/test_decision_next_loop_service.py): a source run has one output. *)
OneOutput == \A g, h \in Outputs : g = h
=============================================================================
