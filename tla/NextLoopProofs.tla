--------------------------- MODULE NextLoopProofs ---------------------------
(* What NextLoop guarantees for any requests, attempts, feedbacks and       *)
(* resends.  The inductive invariant says where a request can be and what   *)
(* it then holds (Shape, Locks), and what the rows have in common with      *)
(* every request that is about to write them (Attempts, Preparations,       *)
(* CanonicalRuns).                                                          *)
EXTENDS NextLoop, FiniteSetTheorems, TLAPS

Preparing == {"attempts", "lock", "generate", "commit"}
Activating == {"lineage", "adopt", "commit"}

Places(kind) ==
  {"idle", "done"} \cup
  CASE kind = "evaluate" -> {"measure", "commit"}
    [] kind = "automatic" -> {"validate"} \cup Preparing
    [] kind = "manual" -> {"validate", "serialize", "active"} \cup Preparing
    [] kind = "activate" -> {"prepare"} \cup Activating
    [] OTHER -> {"source", "insert", "commit"}

WritesOf(kind) == CASE kind = "evaluate" -> {"evaluation"}
                    [] kind \in Modes -> {"failed", "completed"}
                    [] kind = "activate" -> {"adopt"}
                    [] OTHER -> {"run"}

(* Where a request is, and what it has read or been given there.            *)
Shape(r) ==
  /\ pc[r] \in Places(Kind[r])
  /\ pc[r] \in {"idle", "done"} => arg[r] = NoArg
  /\ own[r] \in IF pc[r] = "commit" THEN WritesOf(Kind[r]) ELSE {"nothing"}
  /\ Kind[r] \in Modes /\ pc[r] \in {"serialize", "active"} \cup Preparing =>
       arg[r].says \in Feedbacks /\ arg[r].mode = Kind[r]
  /\ Kind[r] \in Modes /\ pc[r] \in {"generate", "commit"} => arg[r].no \in Number
  /\ Kind[r] \notin {"manual", "activate"} => arg[r].prep = 0
  /\ Kind[r] = "manual" /\ pc[r] \notin Preparing => arg[r].prep = 0
  /\ Kind[r] = "activate" /\ pc[r] \in InBody =>
       arg[r].prep \in Number /\ arg[r].no = arg[r].prep /\ arg[r].mode = "manual"
  /\ Kind[r] = "direct" /\ pc[r] \in InBody => arg[r].no \in Number
  /\ seen[r] \subseteq gens

(* What a request has locked.                                               *)
Locks(r) ==
  /\ prepLock = r <=> Kind[r] = "manual" /\ pc[r] \in {"active"} \cup Preparing
  /\ attemptLock = r <=> Kind[r] \in Modes /\ pc[r] \in {"generate", "commit"}
  /\ \A n \in Number : rowLock[n] = r <=>
       /\ arg[r].prep = n
       /\ \/ Kind[r] = "manual" /\ pc[r] \in Preparing
          \/ Kind[r] = "activate" /\ pc[r] \in Activating

(* The attempts of a mode are numbered without gaps, each below has failed  *)
(* or was a manual one, and the one about to be written is the next.        *)
Passed(mode, no) == \A i \in Number : i < no =>
  \E f \in gens : /\ f.mode = mode /\ f.no = i
                  /\ f.status = "failed" \/ f.mode = "manual"

NextAttempt(r) ==
  Kind[r] \in Modes =>
    /\ pc[r] \in {"generate", "commit"} => Passed(Kind[r], arg[r].no)
    /\ pc[r] = "commit" => \A g \in gens : ~ (g.mode = Kind[r] /\ g.no = arg[r].no)

Attempts ==
  /\ IsFiniteSet(gens)
  /\ \A g, h \in gens : (g.mode = h.mode /\ g.no = h.no) => g = h
  /\ \A g \in gens : Passed(g.mode, g.no)
  /\ \A r \in Requests : NextAttempt(r)

(* At most one preparation is alive, what a request replaces or activates   *)
(* is that one, and stays as it was read.                                   *)
Alive(n) == preps[n] \in {"awaiting", "activated"}

Replacing(r) ==
  Kind[r] = "manual" /\ pc[r] \in Preparing =>
    /\ \A n \in Number : n # arg[r].prep => ~ Alive(n)
    /\ arg[r].prep # 0 => /\ preps[arg[r].prep] = "awaiting"
                          /\ review[arg[r].prep] = "exhausted"
    /\ own[r] = "completed" => preps[arg[r].no] = "none"

Adopting(r) ==
  Kind[r] = "activate" =>
    /\ pc[r] = "prepare" => preps[arg[r].prep] # "none"
    /\ pc[r] \in Activating => preps[arg[r].prep] = "awaiting"
    /\ pc[r] \in {"adopt", "commit"} => /\ review[arg[r].prep] = "approved"
                                        /\ arg[r].eval = basis[arg[r].prep]

Preparations ==
  /\ \A n \in Number : preps[n] # "none" =>
       /\ origin[n] \in Number
       /\ \E g \in gens : g.mode = "manual" /\ g.no = n
  /\ \A g \in gens : g.mode = "manual" /\ g.status = "completed" => preps[g.no] # "none"
  /\ \A m, n \in Number : Alive(m) /\ Alive(n) => m = n
  /\ \A r \in Requests : Replacing(r) /\ Adopting(r)

(* A run has its generation, and an uncommitted one its key to itself.      *)
OwnsKey(r) ==
  /\ Kind[r] = "direct" /\ pc[r] \in InBody =>
       \E g \in gens : g.mode = arg[r].mode /\ g.no = arg[r].no
  /\ own[r] = "run" => RunOf(r) = {}
  /\ own[r] = "adopt" => \A u \in RunOf(r) : u.lineage = arg[r].eval
  /\ own[r] \in {"adopt", "run"} => Inserters(r) = {}

CanonicalRuns ==
  /\ \A u \in runs : \E g \in gens : g.mode = u.mode /\ g.no = u.no
  /\ \A r \in Requests : OwnsKey(r)

IInv == /\ TypeOK
        /\ \A r \in Requests : Shape(r) /\ Locks(r)
        /\ Attempts
        /\ Preparations
        /\ CanonicalRuns
        /\ RejectedIsExhausted
        /\ ActivationIsCanonical

-----------------------------------------------------------------------------
USE NextLoopAssumption DEF Modes, Kinds, InBody

LEMMA NoArgType == NoArg \in Arg
BY DEF NoArg, Arg, Stamp

(* What a request does to its own record.                                   *)
LEMMA ArgFields ==
  ASSUME NEW a \in Arg
  PROVE  /\ \A x \in Stamp : [a EXCEPT !.eval = x] \in Arg
         /\ \A n \in 0 .. MaxAttempts : /\ [a EXCEPT !.prep = n] \in Arg
                                        /\ [a EXCEPT !.no = n] \in Arg
                                        /\ [a EXCEPT !.prep = n, !.no = n] \in Arg
         /\ \A m \in Modes, n \in 0 .. MaxAttempts : [a EXCEPT !.mode = m, !.no = n] \in Arg
         /\ \A x \in Stamp, p \in BOOLEAN : [a EXCEPT !.eval = x, !.planned = p] \in Arg
BY DEF Arg

LEMMA NumberRange == \A n \in Number : n \in 0 .. MaxAttempts
BY DEF Number

LEMMA ArgUpdate == ASSUME NEW r \in Requests, arg \in [Requests -> Arg]
                   PROVE  arg[r] \in Arg /\ \A a \in Arg : [arg EXCEPT ![r] = a] \in [Requests -> Arg]
OBVIOUS

(* The initial state.                                                       *)
LEMMA InitIInv == Init => IInv
<1> SUFFICES ASSUME Init PROVE IInv
  OBVIOUS
<1>1. TypeOK
  <2>1. evals \subseteq Evaluation
    BY DEF Init, Evaluation, Stamp
  <2>2. arg \in [Requests -> Arg]
    BY NoArgType DEF Init
  <2> QED BY <2>1, <2>2 DEF Init, TypeOK, Stamp, Number, Writes
<1>2. \A r \in Requests : Shape(r) /\ Locks(r)
  BY DEF Init, Shape, Locks, Places, WritesOf, NoArg, Number, Preparing, Activating
<1>3. Attempts
  BY FS_EmptySet DEF Init, Attempts, NextAttempt
<1>4. Preparations
  BY DEF Init, Preparations, Replacing, Adopting, Alive, Preparing, Activating
<1>5. CanonicalRuns /\ RejectedIsExhausted /\ ActivationIsCanonical
  BY DEF Init, CanonicalRuns, OwnsKey, RejectedIsExhausted, ActivationIsCanonical
<1> QED BY <1>1, <1>2, <1>3, <1>4, <1>5 DEF IInv

(* Type correctness.                                                        *)
LEMMA TypeStep == IInv /\ [Next]_vars => TypeOK'
<1> SUFFICES ASSUME IInv, [Next]_vars PROVE TypeOK'
  OBVIOUS
<1> USE DEF IInv, TypeOK, rows, locks, GoTo
<1>1. ASSUME NEW r \in Requests, Leave(r) PROVE TypeOK'
  <2>1. arg' \in [Requests -> Arg]
    BY <1>1, NoArgType DEF Leave, Release
  <2>2. own' \in [Requests -> Writes]
    BY <1>1 DEF Leave, Release, Writes
  <2> QED BY <1>1, <2>1, <2>2 DEF Leave, Release
<1>2. ASSUME NEW r \in Requests, Send(r) PROVE TypeOK'
  <2>1. arg' \in [Requests -> Arg]
    <3>1. arg' = arg \/ Kind[r] \in {"activate", "direct", "evaluate"}
      BY <1>2 DEF Send
    <3>2. ASSUME Kind[r] = "activate" PROVE arg' \in [Requests -> Arg]
      <4>1. PICK n \in Number : arg' = [arg EXCEPT ![r].prep = n, ![r].no = n]
        BY <1>2, <3>2 DEF Send
      <4>2. [arg[r] EXCEPT !.prep = n, !.no = n] \in Arg
        <5>1. arg[r] \in Arg /\ n \in 0 .. MaxAttempts
          BY NumberRange
        <5> QED BY <5>1, ArgFields
      <4> QED BY <4>1, <4>2, ArgUpdate
    <3>3. ASSUME Kind[r] = "direct" PROVE arg' \in [Requests -> Arg]
      <4>1. PICK g \in gens : arg' = [arg EXCEPT ![r].mode = g.mode, ![r].no = g.no]
        BY <1>2, <3>3 DEF Send
      <4>2. g.mode \in Modes /\ g.no \in 0 .. MaxAttempts
        BY DEF Generation, Number
      <4>3. [arg[r] EXCEPT !.mode = g.mode, !.no = g.no] \in Arg
        BY <4>2, ArgUpdate, ArgFields
      <4> QED BY <4>1, <4>3, ArgUpdate
    <3>4. ASSUME Kind[r] = "evaluate" PROVE arg' \in [Requests -> Arg]
      <4>1. arg' = [arg EXCEPT ![r].eval = now + 1]
        BY <1>2, <3>4 DEF Send
      <4>2. [arg[r] EXCEPT !.eval = now + 1] \in Arg
        <5>1. arg[r] \in Arg /\ now + 1 \in Stamp
          BY DEF Stamp
        <5> QED BY <5>1, ArgFields
      <4> QED BY <4>1, <4>2, ArgUpdate
    <3> QED BY <3>1, <3>2, <3>3, <3>4
  <2>2. now' \in Stamp
    BY <1>2 DEF Send, Stamp
  <2>3. pc' \in [Requests -> {"idle", "done"} \cup InBody]
    BY <1>2 DEF Send
  <2>4. \A q \in Requests : sends'[q] \in 0 .. Sends[q]
    BY <1>2 DEF Send
  <2> QED BY <1>2, <2>1, <2>2, <2>3, <2>4 DEF Send
<1>3. ASSUME NEW r \in Requests, Validate(r) PROVE TypeOK'
  <2>1. PICK e \in evals :
          \/ Leave(r)
          \/ /\ e.result # "met"
             /\ arg' = [arg EXCEPT ![r].eval = e.stamp, ![r].says = e.result,
                                   ![r].mode = Kind[r]]
             /\ GoTo(r, IF Kind[r] = "manual" THEN "serialize" ELSE "attempts")
             /\ UNCHANGED <<rows, locks, now, seen, own, sends>>
    BY <1>3 DEF Validate
  <2>2. CASE ~ Leave(r)
    <3>1. Kind[r] \in Modes
      BY <1>3 DEF Validate, Shape, Places, Preparing, Activating
    <3>2. e.stamp \in Stamp /\ e.result \in Feedbacks \cup {"met"}
      BY DEF Evaluation
    <3>3. arg' \in [Requests -> Arg]
      BY <2>1, <2>2, <3>1, <3>2 DEF Arg
    <3> QED BY <2>1, <2>2, <3>3
  <2> QED BY <1>1, <2>2
<1>4. ASSUME NEW r \in Requests, Serialize(r) PROVE TypeOK'
  BY <1>4 DEF Serialize
<1>5. ASSUME NEW r \in Requests, FindActive(r) PROVE TypeOK'
  <2>1. ASSUME NEW n \in Number, Replace(r, n) PROVE TypeOK'
    <3>1. arg' \in [Requests -> Arg]
      <4>1. [arg[r] EXCEPT !.prep = n] \in Arg
        <5>1. arg[r] \in Arg /\ n \in 0 .. MaxAttempts
          BY NumberRange
        <5> QED BY <5>1, ArgFields
      <4> QED BY <2>1, <4>1, ArgUpdate DEF Replace
    <3>2. rowLock' \in [Number -> Requests \cup {Nobody}]
      BY <2>1 DEF Replace
    <3> QED BY <2>1, <3>1, <3>2 DEF Replace
  <2> QED BY <1>1, <1>5, <2>1 DEF FindActive
<1>6. ASSUME NEW r \in Requests, ReadAttempts(r) PROVE TypeOK'
  BY <1>6 DEF ReadAttempts
<1>7. ASSUME NEW r \in Requests, LockAttempts(r) PROVE TypeOK'
  <2>1. Cardinality(seen[r]) \in Nat
    BY FS_Subset, FS_CardinalityType DEF Attempts, Shape
  <2>2. CASE ~ Leave(r)
    <3>1. arg' \in [Requests -> Arg]
      <4>1. arg' = [arg EXCEPT ![r].no = Cardinality(seen[r]) + 1]
        BY <1>7, <2>2 DEF LockAttempts
      <4>2. Cardinality(seen[r]) + 1 \in 0 .. MaxAttempts
        BY <1>7, <2>1, <2>2 DEF LockAttempts
      <4>3. [arg[r] EXCEPT !.no = Cardinality(seen[r]) + 1] \in Arg
        BY <4>2, ArgUpdate, ArgFields
      <4> QED BY <4>1, <4>3, ArgUpdate
    <3> QED BY <1>7, <2>2, <3>1 DEF LockAttempts
  <2> QED BY <1>1, <2>2
<1>8. ASSUME NEW r \in Requests, Generate(r) PROVE TypeOK'
  BY <1>1, <1>8 DEF Generate, Writes
<1>9. ASSUME NEW r \in Requests, LockPreparation(r) PROVE TypeOK'
  BY <1>1, <1>9 DEF LockPreparation
<1>10. ASSUME NEW r \in Requests, CheckLineage(r) PROVE TypeOK'
  <2>1. CASE ~ Leave(r)
    <3>1. arg[r].prep \in Number
      BY <1>10 DEF CheckLineage, Shape, Places, Preparing, Activating
    <3>2. basis[arg[r].prep] \in Stamp
      BY <3>1
    <3>3. arg' \in [Requests -> Arg]
      <4>1. PICK planned \in BOOLEAN :
              arg' = [arg EXCEPT ![r].eval = basis[arg[r].prep], ![r].planned = planned]
        BY <1>10, <2>1 DEF CheckLineage
      <4>2. [arg[r] EXCEPT !.eval = basis[arg[r].prep], !.planned = planned] \in Arg
        BY <3>2, ArgUpdate, ArgFields
      <4> QED BY <4>1, <4>2, ArgUpdate
    <3> QED BY <1>10, <2>1, <3>3 DEF CheckLineage
  <2> QED BY <1>1, <2>1
<1>11. ASSUME NEW r \in Requests, Adopt(r) PROVE TypeOK'
  BY <1>1, <1>11 DEF Adopt, Writes
<1>12. ASSUME NEW r \in Requests, ReadSource(r) PROVE TypeOK'
  BY <1>1, <1>12 DEF ReadSource
<1>13. ASSUME NEW r \in Requests, InsertRun(r) PROVE TypeOK'
  BY <1>1, <1>13 DEF InsertRun, Writes
<1>14. ASSUME NEW r \in Requests, Measure(r) PROVE TypeOK'
  <2>1. arg' \in [Requests -> Arg]
    BY <1>14 DEF Measure, Arg
  <2> QED BY <1>14, <2>1 DEF Measure, Writes
<1>15. ASSUME NEW r \in Requests, Commit(r) PROVE TypeOK'
  <2>1. /\ arg' \in [Requests -> Arg] /\ pc' \in [Requests -> {"idle", "done"} \cup InBody]
        /\ seen' \in [Requests -> SUBSET Generation] /\ own' \in [Requests -> Writes]
        /\ prepLock' \in Requests \cup {Nobody} /\ attemptLock' \in Requests \cup {Nobody}
        /\ rowLock' \in [Number -> Requests \cup {Nobody}]
        /\ UNCHANGED <<now, sends>>
    BY <1>15, NoArgType DEF Commit, Release, Writes
  <2>2. pc[r] = "commit"
    BY <1>15 DEF Commit
  <2>3. CASE CommitAttempt(r)
    <3>1. Kind[r] \in Modes /\ arg[r].no \in Number /\ arg[r].says \in Feedbacks
          /\ arg[r].mode = Kind[r]
      BY <2>2, <2>3 DEF CommitAttempt, Shape, WritesOf, Preparing
    <3>2. AnalysisOf(r) \in Number
      BY <2>2, <3>1 DEF AnalysisOf, Preparations, Replacing, Preparing, Shape, Arg, Number
    <3>3. gens' \subseteq Generation
      BY <2>3, <3>1, <3>2 DEF CommitAttempt, WriteAttempt, Generation
    <3>4. target' \in [Number -> {"none", "planned", "approved"}]
      BY <2>3 DEF CommitAttempt, WriteAttempt
    <3>5. /\ preps' \in [Number -> {"none", "awaiting", "rejected", "activated"}]
          /\ basis' \in [Number -> Stamp]
          /\ origin' \in [Number -> 0 .. MaxAttempts]
          /\ review' \in [Number -> {"none", "draft", "approved", "exhausted"}]
      <4>1. arg[r].eval \in Stamp
        BY ArgUpdate DEF Arg
      <4>2. CASE WritePreparation(r)
        <5>1. preps' \in [Number -> {"none", "awaiting", "rejected", "activated"}]
          BY <4>2 DEF WritePreparation
        <5>2. basis' \in [Number -> Stamp] /\ origin' \in [Number -> 0 .. MaxAttempts]
          BY <3>2, <4>1, <4>2, NumberRange DEF WritePreparation
        <5>3. review' \in [Number -> {"none", "draft", "approved", "exhausted"}]
          BY <4>2 DEF WritePreparation
        <5> QED BY <5>1, <5>2, <5>3
      <4> QED BY <2>3, <4>2 DEF CommitAttempt
    <3>6. runs' \subseteq Run
      BY <2>3, <3>1 DEF CommitAttempt, WriteRun, Run, Stamp
    <3>7. UNCHANGED evals
      BY <2>3 DEF CommitAttempt
    <3> QED BY <2>1, <3>3, <3>4, <3>5, <3>6, <3>7
  <2>4. CASE CommitActivation(r)
    <3>1. arg[r].no \in Number /\ arg[r].mode \in Modes /\ arg[r].eval \in Stamp
      BY <2>2, <2>4 DEF CommitActivation, Shape, WritesOf, Arg
    <3>2. runs' \subseteq Run
      BY <2>4, <3>1 DEF CommitActivation, WriteRun, Run
    <3> QED BY <2>1, <2>4, <3>2 DEF CommitActivation
  <2>5. CASE CommitRun(r)
    <3>1. arg[r].no \in Number /\ arg[r].mode \in Modes
      BY <2>2, <2>5 DEF CommitRun, Shape, WritesOf, Arg
    <3> QED BY <2>1, <2>5, <3>1 DEF CommitRun, WriteRun, Run, Stamp
  <2>6. CASE CommitEvaluation(r)
    BY <2>1, <2>6 DEF CommitEvaluation, Evaluation, Arg
  <2> QED BY <1>15, <2>3, <2>4, <2>5, <2>6 DEF Commit
<1>16. ASSUME NEW n \in Number, Review(n) PROVE TypeOK'
  BY <1>16 DEF Review
<1>17. CASE UNCHANGED vars
  BY <1>17 DEF vars
<1> QED
  BY <1>1, <1>2, <1>3, <1>4, <1>5, <1>6, <1>7, <1>8, <1>9, <1>10, <1>11, <1>12,
     <1>13, <1>14, <1>15, <1>16, <1>17 DEF Next, Step, Abort

-----------------------------------------------------------------------------
(* What a step of one request leaves to the others.                         *)
Frame(r) ==
  /\ gens \subseteq gens'
  /\ \A q \in Requests \ {r} :
       /\ arg'[q] = arg[q] /\ pc'[q] = pc[q] /\ own'[q] = own[q] /\ seen'[q] = seen[q]
       /\ prepLock' = q <=> prepLock = q
       /\ attemptLock' = q <=> attemptLock = q
       /\ \A n \in Number : rowLock'[n] = q <=> rowLock[n] = q

LEMMA FrameStep == ASSUME TypeOK, NEW r \in Requests, Send(r) \/ Step(r) \/ Abort(r)
                   PROVE  Frame(r)
<1> USE DEF TypeOK, Frame, rows, locks, GoTo
<1>1. ASSUME Leave(r) PROVE Frame(r)
  BY <1>1 DEF Leave, Release
<1>2. ASSUME Send(r) PROVE Frame(r)
  BY <1>2 DEF Send
<1>3. ASSUME Validate(r) PROVE Frame(r)
  BY <1>1, <1>3 DEF Validate
<1>4. ASSUME Serialize(r) PROVE Frame(r)
  BY <1>4 DEF Serialize
<1>5. ASSUME FindActive(r) PROVE Frame(r)
  BY <1>1, <1>5 DEF FindActive, Replace
<1>6. ASSUME ReadAttempts(r) PROVE Frame(r)
  BY <1>6 DEF ReadAttempts
<1>7. ASSUME LockAttempts(r) PROVE Frame(r)
  BY <1>1, <1>7 DEF LockAttempts
<1>8. ASSUME Generate(r) PROVE Frame(r)
  BY <1>1, <1>8 DEF Generate
<1>9. ASSUME LockPreparation(r) PROVE Frame(r)
  BY <1>1, <1>9 DEF LockPreparation
<1>10. ASSUME CheckLineage(r) PROVE Frame(r)
  BY <1>1, <1>10 DEF CheckLineage
<1>11. ASSUME Adopt(r) PROVE Frame(r)
  BY <1>1, <1>11 DEF Adopt
<1>12. ASSUME ReadSource(r) PROVE Frame(r)
  BY <1>1, <1>12 DEF ReadSource
<1>13. ASSUME InsertRun(r) PROVE Frame(r)
  BY <1>1, <1>13 DEF InsertRun
<1>14. ASSUME Measure(r) PROVE Frame(r)
  BY <1>14 DEF Measure
<1>15. ASSUME Commit(r) PROVE Frame(r)
  <2>1. gens \subseteq gens'
    BY <1>15 DEF Commit, CommitAttempt, WriteAttempt, CommitActivation, CommitRun,
                CommitEvaluation
  <2> QED BY <1>15, <2>1 DEF Commit, Release
<1> QED
  BY <1>1, <1>2, <1>3, <1>4, <1>5, <1>6, <1>7, <1>8, <1>9, <1>10, <1>11, <1>12,
     <1>13, <1>14, <1>15 DEF Step, Abort

LEMMA ShapeFrame == ASSUME NEW r \in Requests, NEW q \in Requests \ {r}, Frame(r),
                           Shape(q), Locks(q)
                    PROVE  Shape(q)' /\ Locks(q)'
BY DEF Frame, Shape, Locks

LEMMA ShapeStep == IInv /\ [Next]_vars => (\A q \in Requests : Shape(q) /\ Locks(q))'
<1> SUFFICES ASSUME IInv, [Next]_vars
             PROVE  \A q \in Requests : Shape(q)' /\ Locks(q)'
  OBVIOUS
<1> USE DEF IInv
<1>a. ASSUME NEW r \in Requests, Send(r) \/ Step(r) \/ Abort(r), Shape(r)' /\ Locks(r)'
      PROVE  \A q \in Requests : Shape(q)' /\ Locks(q)'
  BY <1>a, FrameStep, ShapeFrame
<1> USE DEF TypeOK, Places, Preparing, Activating, WritesOf, rows, locks, GoTo
<1>1. ASSUME NEW r \in Requests, Leave(r) PROVE Shape(r)' /\ Locks(r)'
  BY <1>1 DEF Shape, Locks, Leave, Release, NoArg, Number
<1>2. ASSUME NEW r \in Requests, Send(r) PROVE Shape(r)' /\ Locks(r)'
  <2>1. UNCHANGED <<locks, seen, own, rows>> /\ pc[r] \in {"idle", "done"}
    BY <1>2 DEF Send
  <2>2. CASE Kind[r] \in Modes
    <3>1. arg' = arg /\ pc'[r] = "validate"
      BY <1>2, <2>2 DEF Send
    <3> QED BY <2>1, <2>2, <3>1 DEF Shape, Locks
  <2>3. CASE Kind[r] = "activate"
    <3>1. PICK n \in Number : arg' = [arg EXCEPT ![r].prep = n, ![r].no = n]
      BY <1>2, <2>3 DEF Send
    <3>2. arg'[r].prep = n /\ arg'[r].no = n /\ arg'[r].mode = "manual"
      BY <2>1, <3>1 DEF Arg, NoArg, Shape
    <3>3. pc'[r] = "prepare"
      BY <1>2, <2>3 DEF Send
    <3> QED BY <2>1, <2>3, <3>2, <3>3 DEF Shape, Locks
  <2>4. CASE Kind[r] = "direct"
    <3>1. PICK g \in gens : arg' = [arg EXCEPT ![r].mode = g.mode, ![r].no = g.no]
      BY <1>2, <2>4 DEF Send
    <3>2. arg'[r].prep = arg[r].prep /\ arg'[r].no = g.no /\ g.no \in Number
      BY <3>1 DEF Arg, Generation
    <3>3. pc'[r] = "source"
      BY <1>2, <2>4 DEF Send
    <3> QED BY <2>1, <2>4, <3>2, <3>3 DEF Shape, Locks
  <2>5. CASE Kind[r] = "evaluate"
    <3>1. arg' = [arg EXCEPT ![r].eval = now + 1] /\ pc'[r] = "measure"
      BY <1>2, <2>5 DEF Send
    <3>2. arg'[r].prep = arg[r].prep
      BY <3>1 DEF Arg
    <3> QED BY <2>1, <2>5, <3>1, <3>2 DEF Shape, Locks
  <2> QED BY <2>2, <2>3, <2>4, <2>5
<1>3. ASSUME NEW r \in Requests, Validate(r) PROVE Shape(r)' /\ Locks(r)'
  <2>1. PICK e \in evals :
          \/ Leave(r)
          \/ /\ e.result # "met"
             /\ arg' = [arg EXCEPT ![r].eval = e.stamp, ![r].says = e.result,
                                   ![r].mode = Kind[r]]
             /\ GoTo(r, IF Kind[r] = "manual" THEN "serialize" ELSE "attempts")
             /\ UNCHANGED <<rows, locks, now, seen, own, sends>>
    BY <1>3 DEF Validate
  <2>2. CASE ~ Leave(r)
    <3>1. /\ arg'[r].prep = arg[r].prep /\ arg'[r].says = e.result
          /\ arg'[r].mode = Kind[r]
      BY <2>1, <2>2 DEF Arg
    <3>2. e.result \in Feedbacks
      BY <2>1, <2>2 DEF Evaluation
    <3>3. pc[r] = "validate"
      BY <1>3 DEF Validate
    <3> QED BY <2>1, <2>2, <3>1, <3>2, <3>3 DEF Shape, Locks
  <2> QED BY <1>1, <2>2
<1>4. ASSUME NEW r \in Requests, Serialize(r) PROVE Shape(r)' /\ Locks(r)'
  BY <1>4 DEF Shape, Locks, Serialize
<1>5. ASSUME NEW r \in Requests, FindActive(r) PROVE Shape(r)' /\ Locks(r)'
  <2>1. pc[r] = "active"
    BY <1>5 DEF FindActive
  <2>2. ASSUME NEW n \in Number, rowLock[n] = Nobody, Replace(r, n)
        PROVE  Shape(r)' /\ Locks(r)'
    <3>1. /\ arg'[r].prep = n /\ arg'[r].says = arg[r].says
          /\ arg'[r].mode = arg[r].mode
      BY <2>2 DEF Replace, Arg
    <3> QED BY <2>1, <2>2, <3>1, NumberRange DEF Replace, Shape, Locks
  <2>3. CASE /\ GoTo(r, "attempts")
             /\ UNCHANGED <<rows, locks, now, arg, seen, own, sends>>
    <3>1. Kind[r] = "manual" /\ arg[r].prep = 0
      BY <2>1 DEF Shape
    <3>2. Shape(r)'
      BY <2>1, <2>3, <3>1 DEF Shape
    <3>3. Locks(r)'
      BY <2>1, <2>3, <3>1 DEF Locks, Number
    <3> QED BY <3>2, <3>3
  <2> QED BY <1>1, <1>5, <2>2, <2>3 DEF FindActive
<1>6. ASSUME NEW r \in Requests, ReadAttempts(r) PROVE Shape(r)' /\ Locks(r)'
  BY <1>6 DEF Shape, Locks, ReadAttempts
<1>7. ASSUME NEW r \in Requests, LockAttempts(r) PROVE Shape(r)' /\ Locks(r)'
  <2>1. Cardinality(seen[r]) \in Nat
    BY FS_Subset, FS_CardinalityType DEF Attempts, Shape
  <2>2. CASE ~ Leave(r)
    <3>1. /\ arg'[r].prep = arg[r].prep /\ arg'[r].says = arg[r].says
          /\ arg'[r].mode = arg[r].mode /\ arg'[r].no = Cardinality(seen[r]) + 1
      BY <1>7, <2>2 DEF LockAttempts, Arg
    <3>2. Cardinality(seen[r]) + 1 \in Number
      BY <1>7, <2>1, <2>2 DEF LockAttempts, Number
    <3> QED BY <1>7, <2>2, <3>1, <3>2 DEF LockAttempts, Shape, Locks
  <2> QED BY <1>1, <2>2
<1>8. ASSUME NEW r \in Requests, Generate(r) PROVE Shape(r)' /\ Locks(r)'
  BY <1>1, <1>8 DEF Shape, Locks, Generate
<1>9. ASSUME NEW r \in Requests, LockPreparation(r) PROVE Shape(r)' /\ Locks(r)'
  BY <1>1, <1>9 DEF Shape, Locks, LockPreparation
<1>10. ASSUME NEW r \in Requests, CheckLineage(r) PROVE Shape(r)' /\ Locks(r)'
  <2>1. CASE ~ Leave(r)
    <3>1. /\ arg'[r].prep = arg[r].prep /\ arg'[r].no = arg[r].no
          /\ arg'[r].mode = arg[r].mode
      BY <1>10, <2>1 DEF CheckLineage, Arg
    <3> QED BY <1>10, <2>1, <3>1 DEF CheckLineage, Shape, Locks
  <2> QED BY <1>1, <2>1
<1>11. ASSUME NEW r \in Requests, Adopt(r) PROVE Shape(r)' /\ Locks(r)'
  BY <1>1, <1>11 DEF Shape, Locks, Adopt
<1>12. ASSUME NEW r \in Requests, ReadSource(r) PROVE Shape(r)' /\ Locks(r)'
  BY <1>1, <1>12 DEF Shape, Locks, ReadSource
<1>13. ASSUME NEW r \in Requests, InsertRun(r) PROVE Shape(r)' /\ Locks(r)'
  BY <1>1, <1>13 DEF Shape, Locks, InsertRun
<1>14. ASSUME NEW r \in Requests, Measure(r) PROVE Shape(r)' /\ Locks(r)'
  <2>1. arg'[r].prep = arg[r].prep
    BY <1>14 DEF Measure, Arg
  <2> QED BY <1>14, <2>1 DEF Measure, Shape, Locks
<1>15. ASSUME NEW r \in Requests, Commit(r) PROVE Shape(r)' /\ Locks(r)'
  BY <1>15 DEF Shape, Locks, Commit, Release, NoArg, Number
<1>16. ASSUME NEW n \in Number, Review(n) PROVE \A q \in Requests : Shape(q)' /\ Locks(q)'
  BY <1>16 DEF Shape, Locks, Review
<1>17. CASE UNCHANGED vars
  BY <1>17 DEF vars, Shape, Locks
<1> HIDE DEF TypeOK, Places, Preparing, Activating, WritesOf, IInv
<1> QED
  BY <1>a, <1>1, <1>2, <1>3, <1>4, <1>5, <1>6, <1>7, <1>8, <1>9, <1>10, <1>11,
     <1>12, <1>13, <1>14, <1>15, <1>16, <1>17 DEF Next, Step, Abort

-----------------------------------------------------------------------------
(* Attempts.                                                                *)

(* The steps that neither decide on an attempt nor write one.               *)
LEMMA NoAttempt == ASSUME NEW r \in Requests, TypeOK, Shape(r),
                          Send(r) \/ Step(r) \/ Abort(r),
                          ~ LockAttempts(r) \/ Leave(r), ~ Generate(r) \/ Leave(r),
                          ~ (Commit(r) /\ CommitAttempt(r))
                   PROVE  gens' = gens /\ (Kind[r] \in Modes => pc'[r] \notin {"generate", "commit"})
<1> USE DEF rows, locks, GoTo, TypeOK, Shape, Places, WritesOf, Preparing, Activating
<1>1. CASE Leave(r)
  BY <1>1 DEF Leave, Release
<1>2. CASE Send(r)
  BY <1>2 DEF Send
<1>7. CASE Validate(r)
  BY <1>1, <1>7 DEF Validate
<1>8. CASE Serialize(r) \/ ReadAttempts(r)
  BY <1>8 DEF Serialize, ReadAttempts
<1>3. CASE FindActive(r)
  BY <1>1, <1>3 DEF FindActive, Replace
<1>4. CASE LockPreparation(r) \/ CheckLineage(r) \/ Adopt(r)
  BY <1>1, <1>4 DEF LockPreparation, CheckLineage, Adopt
<1>5. CASE ReadSource(r) \/ InsertRun(r) \/ Measure(r)
  BY <1>1, <1>5 DEF ReadSource, InsertRun, Measure
<1>6. CASE Commit(r)
  BY <1>6 DEF Commit, Release, CommitActivation, CommitRun, CommitEvaluation
<1> QED BY <1>1, <1>2, <1>3, <1>4, <1>5, <1>6, <1>7, <1>8 DEF Step, Abort

LEMMA AttemptsStep == IInv /\ [Next]_vars => Attempts'
<1> SUFFICES ASSUME IInv, [Next]_vars PROVE Attempts'
  OBVIOUS
<1>a. ASSUME NEW r \in Requests, Frame(r), gens' = gens, NextAttempt(r)' PROVE Attempts'
  <2>1. \A q \in Requests \ {r} : NextAttempt(q)'
    BY <1>a DEF IInv, Attempts, NextAttempt, Passed, Frame
  <2> QED BY <1>a, <2>1 DEF IInv, Attempts, Passed
<1>1. ASSUME NEW r \in Requests, LockAttempts(r), ~ Leave(r) PROVE Attempts'
  <2>1. /\ MayAttempt(r) /\ pc[r] = "lock" /\ GoTo(r, "generate") /\ gens' = gens
        /\ arg' = [arg EXCEPT ![r].no = Cardinality(seen[r]) + 1]
    BY <1>1 DEF LockAttempts, rows
  <2>2. arg'[r].no = Cardinality(seen[r]) + 1 /\ Cardinality(seen[r]) \in Nat
    BY <2>1, FS_Subset, FS_CardinalityType DEF IInv, TypeOK, Arg, Attempts, Shape
  <2>3. pc'[r] = "generate"
    BY <2>1 DEF IInv, TypeOK, GoTo
  <2>4. ASSUME NEW i \in Number, i < Cardinality(seen[r]) + 1
        PROVE  \E f \in gens : /\ f.mode = Kind[r] /\ f.no = i
                               /\ f.status = "failed" \/ f.mode = "manual"
    <3>1. i \in {g.no : g \in seen[r]}
      BY <2>1, <2>2, <2>4 DEF MayAttempt, Number
    <3>2. PICK g \in seen[r] : g.no = i
      BY <3>1
    <3>3. g.mode = Kind[r] /\ (g.status = "failed" \/ g.mode = "manual")
      BY <2>1 DEF MayAttempt, SameIntent, Superseded
    <3> QED BY <3>2, <3>3 DEF IInv, Shape
  <2>5. NextAttempt(r)'
    BY <2>1, <2>2, <2>3, <2>4 DEF NextAttempt, Passed
  <2> QED BY <1>a, <1>1, <2>1, <2>5, FrameStep DEF IInv, Step
<1>2. ASSUME NEW r \in Requests, Generate(r), ~ Leave(r) PROVE Attempts'
  <2>1. /\ pc[r] = "generate" /\ pc'[r] = "commit" /\ UNCHANGED <<gens, arg>>
        /\ \A g \in gens : ~ SameId([mode |-> Kind[r], no |-> arg[r].no], g)
    BY <1>2 DEF Generate, GoTo, rows, IInv, TypeOK
  <2>2. \A g \in gens : ~ (g.mode = Kind[r] /\ g.no = arg[r].no)
    BY <2>1 DEF SameId
  <2>3. NextAttempt(r)'
    BY <2>1, <2>2 DEF IInv, Attempts, NextAttempt, Passed
  <2> QED BY <1>a, <1>2, <2>1, <2>3, FrameStep DEF IInv, Step
<1>3. ASSUME NEW r \in Requests, Commit(r), CommitAttempt(r) PROVE Attempts'
  <2>1. pc[r] = "commit" /\ pc'[r] = "done" /\ Kind[r] \in Modes
    BY <1>3 DEF Commit, Release, GoTo, CommitAttempt, IInv, TypeOK, Shape, WritesOf
  <2> DEFINE new == [mode |-> Kind[r], no |-> arg[r].no, says |-> arg[r].says,
                     analysis |-> AnalysisOf(r), by |-> r, status |-> own[r]]
  <2>2. gens' = gens \cup {new}
    BY <1>3 DEF CommitAttempt, WriteAttempt
  <2>3. \A q \in Requests \ {r} : Kind[q] \in Modes => pc'[q] \notin {"generate", "commit"}
    BY <1>3, <2>1, FrameStep DEF IInv, Locks, Step, Frame
  <2>4. \A q \in Requests : NextAttempt(q)'
    BY <2>1, <2>3 DEF NextAttempt
  <2>5. IsFiniteSet(gens')
    BY <2>2, FS_AddElement DEF IInv, Attempts
  <2>6. Passed(Kind[r], arg[r].no) /\ \A g \in gens : ~ (g.mode = Kind[r] /\ g.no = arg[r].no)
    BY <2>1 DEF IInv, Attempts, NextAttempt
  <2>7. \A g, h \in gens' : (g.mode = h.mode /\ g.no = h.no) => g = h
    BY <2>2, <2>6 DEF IInv, Attempts
  <2>8. \A g \in gens' : Passed(g.mode, g.no)'
    BY <2>2, <2>6 DEF IInv, Attempts, Passed
  <2> QED BY <2>4, <2>5, <2>7, <2>8 DEF Attempts
<1>4. ASSUME NEW r \in Requests, Send(r) \/ Step(r) \/ Abort(r) PROVE Attempts'
  <2>1. CASE LockAttempts(r) /\ ~ Leave(r)
    BY <1>1, <2>1
  <2>2. CASE Generate(r) /\ ~ Leave(r)
    BY <1>2, <2>2
  <2>3. CASE Commit(r) /\ CommitAttempt(r)
    BY <1>3, <2>3
  <2>4. CASE /\ ~ LockAttempts(r) \/ Leave(r)
             /\ ~ Generate(r) \/ Leave(r)
             /\ ~ (Commit(r) /\ CommitAttempt(r))
    <3>1. Frame(r)
      BY <1>4, FrameStep DEF IInv
    <3>2. gens' = gens /\ (Kind[r] \in Modes => pc'[r] \notin {"generate", "commit"})
      BY <1>4, <2>4, NoAttempt DEF IInv
    <3> QED BY <1>a, <3>1, <3>2 DEF NextAttempt
  <2> QED BY <2>1, <2>2, <2>3, <2>4
<1>5. CASE (\E n \in Number : Review(n)) \/ UNCHANGED vars
  BY <1>5 DEF Review, vars, rows, IInv, Attempts, NextAttempt, Passed
<1> QED BY <1>4, <1>5 DEF Next

-----------------------------------------------------------------------------
(* Preparations.                                                            *)

Reviewed == <<gens, preps, basis, origin, review>>

(* The steps that leave preparations alone keep them as requests have read  *)
(* them, if the one that steps does.                                        *)
LEMMA PreparationsFrame ==
  ASSUME IInv, NEW r \in Requests, Frame(r), UNCHANGED Reviewed, Replacing(r)', Adopting(r)'
  PROVE  Preparations'
<1>1. \A q \in Requests \ {r} : Replacing(q)' /\ Adopting(q)'
  BY DEF IInv, Preparations, Replacing, Adopting, Alive, Frame, Reviewed
<1> QED BY <1>1 DEF IInv, Preparations, Alive, Reviewed

LEMMA PreparationsStay ==
  ASSUME IInv, NEW r \in Requests, Send(r) \/ Step(r) \/ Abort(r), ~ Commit(r)
  PROVE  UNCHANGED Reviewed /\ Replacing(r)' /\ Adopting(r)'
<1> USE DEF rows, locks, GoTo, Reviewed
<1> DEFINE Goal == UNCHANGED Reviewed /\ Replacing(r)' /\ Adopting(r)'
<1>a. Shape(r) /\ Replacing(r) /\ Adopting(r) /\ TypeOK
  BY DEF IInv, Preparations
<1>1. ASSUME Leave(r) PROVE Goal
  BY <1>a, <1>1 DEF Leave, Release, TypeOK, Replacing, Adopting, Preparing, Activating
<1>2. ASSUME Send(r) PROVE Goal
  <2>1. Replacing(r)' /\ UNCHANGED Reviewed
    BY <1>a, <1>2 DEF Send, Replacing, Preparing, TypeOK
  <2>2. Adopting(r)'
    <3>1. CASE Kind[r] = "activate"
      <4>1. PICK n \in Number : preps[n] # "none"
                               /\ arg' = [arg EXCEPT ![r].prep = n, ![r].no = n]
        BY <1>2, <3>1 DEF Send
      <4>2. arg'[r].prep = n
        BY <1>a, <4>1 DEF TypeOK, Arg
      <4>3. pc'[r] = "prepare" /\ preps' = preps
        BY <1>a, <1>2, <3>1 DEF Send, TypeOK
      <4> QED BY <4>1, <4>2, <4>3 DEF Adopting, Activating
    <3> QED BY <3>1 DEF Adopting
  <2> QED BY <2>1, <2>2
<1>3. ASSUME Validate(r) PROVE Goal
  BY <1>a, <1>1, <1>3 DEF Validate, Shape, Places, Preparing, Activating, TypeOK,
                          Replacing, Adopting
<1>4. ASSUME Serialize(r) PROVE Goal
  BY <1>a, <1>4 DEF Serialize, Shape, Places, Preparing, Activating, TypeOK,
                    Replacing, Adopting
<1>5. ASSUME FindActive(r) PROVE Goal
  <2>1. Kind[r] = "manual" /\ arg[r].prep = 0 /\ own[r] = "nothing"
    BY <1>a, <1>5 DEF FindActive, Shape, Places, Preparing, Activating
  <2>2. CASE /\ \A n \in Number : preps[n] = "none"
             /\ GoTo(r, "attempts")
             /\ UNCHANGED <<rows, locks, now, arg, seen, own, sends>>
    BY <1>a, <2>1, <2>2 DEF TypeOK, Replacing, Adopting, Alive
  <2>3. ASSUME NEW n \in Number, preps[n] = "awaiting", Replace(r, n) PROVE Goal
    <3>1. \A m \in Number : Alive(m) => m = n
      BY <2>3 DEF IInv, Preparations, Alive
    <3>2. arg'[r].prep = n /\ own'[r] = "nothing"
      BY <1>a, <2>1, <2>3 DEF Replace, TypeOK, Arg
    <3> QED BY <2>1, <2>3, <3>1, <3>2 DEF Replace, Replacing, Adopting, Alive
  <2> QED BY <1>1, <1>5, <2>2, <2>3 DEF FindActive
<1>6. ASSUME ReadAttempts(r) PROVE Goal
  BY <1>a, <1>6 DEF ReadAttempts, Shape, Places, Preparing, Activating, TypeOK,
                    Replacing, Adopting, Alive
<1>7. ASSUME LockAttempts(r) PROVE Goal
  <2>1. CASE ~ Leave(r)
    <3>1. arg'[r].prep = arg[r].prep
      BY <1>a, <1>7, <2>1 DEF LockAttempts, TypeOK, Arg
    <3>2. Kind[r] \in Modes /\ own[r] = "nothing"
      BY <1>a, <1>7 DEF LockAttempts, Shape, Places, Preparing, Activating
    <3> QED BY <1>a, <1>7, <2>1, <3>1, <3>2 DEF LockAttempts, TypeOK, Preparing,
                                               Replacing, Adopting, Alive
  <2> QED BY <1>1, <2>1
<1>8. ASSUME Generate(r) PROVE Goal
  <2>1. CASE ~ Leave(r)
    <3>1. Kind[r] \in Modes
      BY <1>a, <1>8 DEF Generate, Shape, Places, Preparing, Activating
    <3>2. own'[r] = "completed" /\ Kind[r] = "manual" => preps[arg[r].no] = "none"
      BY <1>a, <1>8, <2>1 DEF Generate, MayPrepare, TypeOK
    <3>3. UNCHANGED <<rows, arg>> /\ pc[r] = "generate" /\ pc'[r] = "commit"
      BY <1>a, <1>8, <2>1 DEF Generate, TypeOK
    <3> QED BY <1>a, <3>1, <3>2, <3>3 DEF Preparing, Replacing, Adopting, Alive
  <2> QED BY <1>1, <2>1
<1>9. ASSUME LockPreparation(r) PROVE Goal
  <2>1. Kind[r] = "activate"
    BY <1>a, <1>9 DEF LockPreparation, Shape, Places, Preparing, Activating
  <2> QED BY <1>a, <1>1, <1>9, <2>1 DEF LockPreparation, TypeOK, Activating,
                                       Replacing, Adopting
<1>10. ASSUME CheckLineage(r) PROVE Goal
  <2>1. CASE ~ Leave(r)
    <3>1. arg'[r].prep = arg[r].prep /\ arg'[r].eval = basis[arg[r].prep]
      BY <1>a, <1>10, <2>1 DEF CheckLineage, TypeOK, Arg
    <3>2. Kind[r] = "activate"
      BY <1>a, <1>10 DEF CheckLineage, Shape, Places, Preparing, Activating
    <3> QED BY <1>a, <1>10, <2>1, <3>1, <3>2 DEF CheckLineage, TypeOK, Activating,
                                                Replacing, Adopting
  <2> QED BY <1>1, <2>1
<1>11. ASSUME Adopt(r) PROVE Goal
  <2>1. Kind[r] = "activate"
    BY <1>a, <1>11 DEF Adopt, Shape, Places, Preparing, Activating
  <2> QED BY <1>a, <1>1, <1>11, <2>1 DEF Adopt, TypeOK, Activating, Replacing, Adopting
<1>12. ASSUME ReadSource(r) \/ InsertRun(r) \/ Measure(r) PROVE Goal
  BY <1>a, <1>1, <1>12 DEF ReadSource, InsertRun, Measure, Shape, Places, Preparing,
                           Activating, Replacing, Adopting
<1> QED
  BY <1>1, <1>2, <1>3, <1>4, <1>5, <1>6, <1>7, <1>8, <1>9, <1>10, <1>11, <1>12
  DEF Step, Abort

LEMMA PreparationsStep == IInv /\ [Next]_vars => Preparations'
<1> SUFFICES ASSUME IInv, [Next]_vars PROVE Preparations'
  OBVIOUS
<1>a. TypeOK /\ Preparations /\ Attempts /\ \A q \in Requests : Shape(q) /\ Locks(q)
  BY DEF IInv
<1>1. ASSUME NEW r \in Requests, Commit(r) PROVE Preparations'
  <2>1. pc[r] = "commit" /\ pc'[r] = "done" /\ own'[r] = "nothing"
    BY <1>a, <1>1 DEF Commit, Release, GoTo, TypeOK
  <2>2. Replacing(r)' /\ Adopting(r)'
    BY <2>1 DEF Replacing, Adopting, Preparing, Activating
  <2>3. Frame(r)
    BY <1>a, <1>1, FrameStep DEF Step
  <2>4. CASE CommitRun(r) \/ CommitEvaluation(r)
    <3>1. UNCHANGED Reviewed
      BY <2>4 DEF CommitRun, CommitEvaluation, Reviewed
    <3> QED BY <2>2, <2>3, <3>1, PreparationsFrame
  <2>5. CASE CommitActivation(r)
    <3>1. Kind[r] = "activate" /\ arg[r].prep \in Number
      BY <1>a, <2>1, <2>5 DEF CommitActivation, Shape, WritesOf
    <3>2. preps[arg[r].prep] = "awaiting" /\ rowLock[arg[r].prep] = r
      BY <1>a, <2>1, <3>1 DEF Preparations, Adopting, Locks, Activating
    <3>3. /\ preps' = [preps EXCEPT ![arg[r].prep] = "activated"]
          /\ UNCHANGED <<gens, basis, origin, review>>
      BY <2>5 DEF CommitActivation
    <3>4. \A n \in Number : /\ Alive(n)' <=> Alive(n)
                            /\ n # arg[r].prep => preps'[n] = preps[n]
                            /\ preps'[n] = "none" <=> preps[n] = "none"
      BY <1>a, <3>1, <3>2, <3>3 DEF Alive, TypeOK
    <3>5. ASSUME NEW q \in Requests \ {r} PROVE Replacing(q)' /\ Adopting(q)'
      <4>1. Kind[q] = "manual" /\ pc[q] \in Preparing => arg[q].prep # arg[r].prep
        BY <1>a, <3>1, <3>2 DEF Locks
      <4>2. Kind[q] = "activate" /\ pc[q] \in Activating => arg[q].prep # arg[r].prep
        BY <1>a, <3>1, <3>2 DEF Locks
      <4>3. Kind[q] = "activate" /\ pc[q] \in {"prepare"} \cup Activating => arg[q].prep \in Number
        BY <1>a DEF Shape, Activating
      <4>4. Kind[q] = "manual" /\ pc[q] \in Preparing /\ own[q] = "completed" => arg[q].no \in Number
        BY <1>a DEF Shape, WritesOf, Preparing
      <4>5. arg[q].prep \in 0 .. MaxAttempts
        BY <1>a DEF TypeOK, Arg
      <4>6. Replacing(q)'
        BY <1>a, <2>3, <3>3, <3>4, <4>1, <4>4, <4>5 DEF Preparations, Replacing, Frame, Number
      <4>7. Adopting(q)'
        BY <1>a, <2>3, <3>3, <3>4, <4>2, <4>3 DEF Preparations, Adopting, Frame, Activating
      <4> QED BY <4>6, <4>7
    <3>6. Number = Number' /\ \A g \in gens : g.no \in Number
      BY <1>a DEF Number, TypeOK, Generation
    <3> QED BY <1>a, <2>2, <3>3, <3>4, <3>5, <3>6 DEF Preparations
  <2>6. CASE CommitAttempt(r)
    <3> DEFINE new == [mode |-> Kind[r], no |-> arg[r].no, says |-> arg[r].says,
                       analysis |-> AnalysisOf(r), by |-> r, status |-> own[r]]
    <3>1. Kind[r] \in Modes /\ arg[r].no \in Number
      BY <1>a, <2>1, <2>6 DEF CommitAttempt, Shape, WritesOf
    <3>2. gens' = gens \cup {new}
      BY <2>6 DEF CommitAttempt, WriteAttempt
    <3>3. CASE own[r] = "failed" \/ Kind[r] = "automatic"
      <4>1. UNCHANGED <<preps, basis, origin, review>>
        BY <2>6, <3>3 DEF CommitAttempt
      <4>2. ~ (new.mode = "manual" /\ new.status = "completed")
        BY <3>3
      <4>3. \A q \in Requests \ {r} : Replacing(q)' /\ Adopting(q)'
        BY <1>a, <2>3, <4>1 DEF Preparations, Replacing, Adopting, Alive, Frame
      <4> QED BY <1>a, <2>2, <3>2, <4>1, <4>2, <4>3 DEF Preparations, Alive
    <3>4. CASE own[r] = "completed" /\ Kind[r] = "manual"
      <4>1. /\ prepLock = r
            /\ \A n \in Number : n # arg[r].prep => ~ Alive(n)
            /\ arg[r].prep # 0 => preps[arg[r].prep] = "awaiting"
            /\ preps[arg[r].no] = "none"
        BY <1>a, <2>1, <3>4 DEF Locks, Preparations, Replacing, Preparing
      <4>2. WritePreparation(r)
        BY <2>6, <3>4 DEF CommitAttempt
      <4>3. arg[r].prep # arg[r].no /\ AnalysisOf(r) \in Number
        BY <1>a, <3>1, <4>1, NumberRange DEF AnalysisOf, Preparations, TypeOK, Arg, Number
      <4>4. \A n \in Number : n # arg[r].no =>
              /\ n # arg[r].prep => preps'[n] = preps[n]
              /\ ~ Alive(n)'
              /\ review'[n] = review[n] /\ basis'[n] = basis[n] /\ origin'[n] = origin[n]
              /\ preps'[n] = "none" <=> preps[n] = "none"
        <5>1. ASSUME NEW n \in Number, n # arg[r].no
              PROVE  /\ preps'[n] = IF n = arg[r].prep THEN "rejected" ELSE preps[n]
                     /\ review'[n] = review[n] /\ basis'[n] = basis[n] /\ origin'[n] = origin[n]
          BY <1>a, <4>2, <5>1 DEF WritePreparation, TypeOK
        <5>2. ASSUME NEW n \in Number, n = arg[r].prep PROVE preps[n] = "awaiting"
          BY <4>1, <5>2 DEF Number
        <5> QED BY <4>1, <5>1, <5>2 DEF Alive
      <4>5. preps'[arg[r].no] = "awaiting" /\ origin'[arg[r].no] = AnalysisOf(r)
        BY <1>a, <3>1, <4>2 DEF WritePreparation, TypeOK
      <4>6. ASSUME NEW q \in Requests \ {r} PROVE Replacing(q)' /\ Adopting(q)'
        <5>1. ~ (Kind[q] = "manual" /\ pc[q] \in Preparing)
          BY <1>a, <4>1 DEF Locks
        <5>2. Kind[q] = "activate" /\ pc[q] \in {"prepare"} \cup Activating =>
                 arg[q].prep \in Number /\ arg[q].prep # arg[r].no
          BY <1>a, <4>1 DEF Shape, Activating, Preparations, Adopting
        <5>3. Kind[q] = "activate" /\ pc[q] \in Activating => arg[q].prep # arg[r].prep
          <6>1. rowLock[arg[r].prep] = r \/ arg[r].prep \notin Number
            BY <1>a, <2>1, <3>4 DEF Locks, Preparing
          <6> QED BY <1>a, <5>2, <6>1 DEF Locks
        <5>4. Replacing(q)'
          BY <2>3, <5>1 DEF Replacing, Frame
        <5>5. Adopting(q)'
          BY <1>a, <2>3, <4>4, <5>2, <5>3 DEF Preparations, Adopting, Frame, Activating
        <5> QED BY <5>4, <5>5
      <4>7. \A m, n \in Number : Alive(m)' /\ Alive(n)' => m = n
        BY <4>4
      <4>8. \A n \in Number : preps'[n] # "none" =>
               origin'[n] \in Number /\ \E g \in gens' : g.mode = "manual" /\ g.no = n
        <5>1. ASSUME NEW n \in Number, n # arg[r].no, preps'[n] # "none"
              PROVE  origin'[n] \in Number /\ \E g \in gens' : g.mode = "manual" /\ g.no = n
          BY <1>a, <3>2, <4>4, <5>1 DEF Preparations
        <5>2. new \in gens' /\ new.mode = "manual" /\ new.no = arg[r].no
          BY <3>2, <3>4
        <5> QED BY <4>3, <4>5, <5>1, <5>2
      <4>9. \A g \in gens' : g.mode = "manual" /\ g.status = "completed" => preps'[g.no] # "none"
        <5>1. \A g \in gens : g.no \in Number
          BY <1>a DEF TypeOK, Generation
        <5> QED BY <1>a, <3>2, <4>4, <4>5, <5>1 DEF Preparations
      <4> QED BY <2>2, <4>6, <4>7, <4>8, <4>9 DEF Preparations, Alive
    <3> QED BY <2>6, <3>1, <3>3, <3>4 DEF CommitAttempt
  <2> QED BY <1>1, <2>4, <2>5, <2>6 DEF Commit
<1>2. ASSUME NEW r \in Requests, Send(r) \/ Step(r) \/ Abort(r) PROVE Preparations'
  BY <1>a, <1>1, <1>2, FrameStep, PreparationsStay, PreparationsFrame
<1>3. ASSUME NEW n \in Number, Review(n) PROVE Preparations'
  <2>1. /\ preps[n] = "awaiting" /\ rowLock[n] = Nobody
        /\ UNCHANGED <<gens, preps, basis, origin, pc, arg, own>>
        /\ \A m \in Number : m # n => review'[m] = review[m]
    BY <1>a, <1>3 DEF Review, TypeOK
  <2>2. ASSUME NEW q \in Requests PROVE Replacing(q)' /\ Adopting(q)'
    <3>1. Kind[q] = "manual" /\ pc[q] \in Preparing => arg[q].prep # n
      BY <1>a, <2>1 DEF Locks
    <3>2. Kind[q] = "activate" /\ pc[q] \in Activating => arg[q].prep # n /\ arg[q].prep \in Number
      BY <1>a, <2>1 DEF Locks, Shape, Activating
    <3>3. arg[q].prep \in 0 .. MaxAttempts
      BY <1>a DEF TypeOK, Arg
    <3>4. Replacing(q)'
      BY <1>a, <2>1, <3>1, <3>3 DEF Preparations, Replacing, Alive, Number
    <3>5. Adopting(q)'
      BY <1>a, <2>1, <3>2 DEF Preparations, Adopting, Activating
    <3> QED BY <3>4, <3>5
  <2> QED BY <1>a, <2>1, <2>2 DEF Preparations, Alive
<1>4. CASE UNCHANGED vars
  BY <1>a, <1>4 DEF vars, rows, Preparations, Replacing, Adopting, Alive
<1> QED BY <1>2, <1>3, <1>4 DEF Next

-----------------------------------------------------------------------------
(* Runs.                                                                    *)

LEMMA RunsFrame ==
  ASSUME IInv, NEW r \in Requests, Frame(r), runs' = runs, OwnsKey(r)',
         own'[r] \in {"adopt", "run"} => Inserters(r) = {} /\ arg'[r] = arg[r]
  PROVE  CanonicalRuns'
<1>a. CanonicalRuns /\ gens \subseteq gens'
  BY DEF IInv, Frame
<1>1. ASSUME NEW q \in Requests \ {r} PROVE OwnsKey(q)'
  <2>1. arg'[q] = arg[q] /\ pc'[q] = pc[q] /\ own'[q] = own[q]
    BY DEF Frame
  <2>2. OwnsKey(q)
    BY <1>a DEF CanonicalRuns
  <2>3. RunOf(q)' = RunOf(q)
    BY <2>1 DEF RunOf
  <2>4. own[q] \in {"adopt", "run"} => Inserters(q)' = {}
    <3> SUFFICES ASSUME own[q] \in {"adopt", "run"}, NEW p \in Inserters(q)' PROVE FALSE
      OBVIOUS
    <3>1. Inserters(q) = {}
      BY <2>2 DEF OwnsKey
    <3>2. /\ p \in Requests /\ p # q /\ own'[p] \in {"adopt", "run"}
          /\ arg'[p].mode = arg[q].mode /\ arg'[p].no = arg[q].no
      BY <2>1 DEF Inserters
    <3>3. CASE p # r
      BY <3>1, <3>2, <3>3 DEF Inserters, Frame
    <3>4. CASE p = r
      <4>1. q \in Inserters(r)
        BY <3>2, <3>4 DEF Inserters
      <4> QED BY <3>2, <3>4, <4>1
    <3> QED BY <3>3, <3>4
  <2> QED BY <1>a, <2>1, <2>2, <2>3, <2>4 DEF OwnsKey
<1> QED BY <1>a, <1>1 DEF CanonicalRuns

LEMMA RunsStay ==
  ASSUME IInv, NEW r \in Requests, Send(r) \/ Step(r) \/ Abort(r), ~ Commit(r)
  PROVE  /\ runs' = runs /\ OwnsKey(r)'
         /\ own'[r] \in {"adopt", "run"} => Inserters(r) = {} /\ arg'[r] = arg[r]
<1> USE DEF rows, locks, GoTo
<1> DEFINE Goal == /\ runs' = runs /\ OwnsKey(r)'
                   /\ own'[r] \in {"adopt", "run"} => Inserters(r) = {} /\ arg'[r] = arg[r]
<1>a. Shape(r) /\ OwnsKey(r) /\ TypeOK
  BY DEF IInv, CanonicalRuns
<1>b. ASSUME Kind[r] # "direct", runs' = runs, own'[r] = "nothing" PROVE Goal
  BY <1>b DEF OwnsKey
<1>1. ASSUME Leave(r) PROVE Goal
  BY <1>a, <1>1 DEF Leave, Release, TypeOK, OwnsKey
<1>2. ASSUME Send(r) PROVE Goal
  <2>1. runs' = runs /\ own'[r] = "nothing"
    BY <1>a, <1>2 DEF Send, Shape
  <2>2. CASE Kind[r] = "direct"
    <3>1. PICK g \in gens : arg' = [arg EXCEPT ![r].mode = g.mode, ![r].no = g.no]
      BY <1>2, <2>2 DEF Send
    <3>2. arg'[r].mode = g.mode /\ arg'[r].no = g.no
      BY <1>a, <3>1 DEF TypeOK, Arg
    <3>3. gens' = gens
      BY <1>2 DEF Send
    <3> QED BY <2>1, <3>2, <3>3 DEF OwnsKey
  <2> QED BY <1>b, <2>1, <2>2
<1>3. ASSUME \/ Validate(r) \/ Serialize(r) \/ FindActive(r) \/ ReadAttempts(r)
             \/ LockAttempts(r) \/ LockPreparation(r) \/ CheckLineage(r)
      PROVE Goal
  <2>1. Kind[r] # "direct" /\ own[r] = "nothing"
    BY <1>a, <1>3 DEF Validate, Serialize, FindActive, ReadAttempts, LockAttempts,
         LockPreparation, CheckLineage, Shape, Places, Preparing, Activating
  <2>2. CASE ~ Leave(r)
    <3>1. runs' = runs /\ own' = own
      BY <1>3, <2>2 DEF Validate, Serialize, FindActive, Replace, ReadAttempts,
           LockAttempts, LockPreparation, CheckLineage
    <3> QED BY <1>b, <2>1, <3>1
  <2> QED BY <1>1, <2>2
<1>4. ASSUME Generate(r) PROVE Goal
  <2>1. Kind[r] \in Modes
    BY <1>a, <1>4 DEF Generate, Shape, Places, Preparing, Activating
  <2>2. CASE ~ Leave(r)
    BY <1>a, <1>4, <2>1, <2>2 DEF Generate, TypeOK, OwnsKey
  <2> QED BY <1>1, <2>2
<1>5. ASSUME Measure(r) PROVE Goal
  <2>1. Kind[r] = "evaluate"
    BY <1>a, <1>5 DEF Measure, Shape, Places, Preparing, Activating
  <2> QED BY <1>a, <1>5, <2>1 DEF Measure, TypeOK, OwnsKey
<1>6. ASSUME Adopt(r) PROVE Goal
  <2>1. Kind[r] = "activate"
    BY <1>a, <1>6 DEF Adopt, Shape, Places, Preparing, Activating
  <2>2. CASE ~ Leave(r)
    <3>1. /\ Inserters(r) = {} /\ own'[r] = "adopt" /\ arg' = arg /\ runs' = runs
          /\ \A q \in Requests \ {r} : own'[q] = own[q]
          /\ \A u \in RunOf(r) : u.lineage = arg[r].eval
      BY <1>a, <1>6, <2>2 DEF Adopt, Adoptable, TypeOK
    <3>2. Inserters(r)' = {} /\ RunOf(r)' = RunOf(r)
      BY <3>1 DEF Inserters, RunOf
    <3> QED BY <2>1, <3>1, <3>2 DEF OwnsKey
  <2> QED BY <1>1, <2>2
<1>7. ASSUME ReadSource(r) PROVE Goal
  <2>1. CASE ~ Leave(r)
    <3>1. runs' = runs /\ UNCHANGED <<arg, gens>> /\ own' = own /\ own[r] = "nothing"
          /\ pc[r] \in InBody
      BY <1>a, <1>7, <2>1 DEF ReadSource, Shape
    <3> QED BY <1>a, <3>1 DEF OwnsKey
  <2> QED BY <1>1, <2>1
<1>8. ASSUME InsertRun(r) PROVE Goal
  <2>1. CASE ~ Leave(r)
    <3>1. /\ Inserters(r) = {} /\ own'[r] = "run" /\ UNCHANGED <<arg, runs, gens>>
          /\ \A q \in Requests \ {r} : own'[q] = own[q]
          /\ RunOf(r) = {} /\ pc[r] \in InBody
      BY <1>a, <1>8, <2>1 DEF InsertRun, TypeOK
    <3>2. Inserters(r)' = {} /\ RunOf(r)' = RunOf(r)
      BY <3>1 DEF Inserters, RunOf
    <3> QED BY <1>a, <3>1, <3>2 DEF OwnsKey
  <2> QED BY <1>1, <2>1
<1> QED BY <1>1, <1>2, <1>3, <1>4, <1>5, <1>6, <1>7, <1>8 DEF Step, Abort

(* The run that r adds has the key of no other uncommitted run.             *)
LEMMA RunsAdded ==
  ASSUME IInv, NEW r \in Requests, Frame(r), own'[r] = "nothing", pc'[r] = "done",
         NEW u, runs' = runs \cup {u},
         \E g \in gens' : g.mode = u.mode /\ g.no = u.no,
         \A q \in Requests \ {r} : own[q] \in {"adopt", "run"} =>
           ~ (u.mode = arg[q].mode /\ u.no = arg[q].no)
  PROVE  CanonicalRuns'
<1>a. CanonicalRuns /\ gens \subseteq gens'
  BY DEF IInv, Frame
<1>1. OwnsKey(r)'
  BY DEF OwnsKey
<1>2. ASSUME NEW q \in Requests \ {r} PROVE OwnsKey(q)'
  <2>1. arg'[q] = arg[q] /\ pc'[q] = pc[q] /\ own'[q] = own[q] /\ OwnsKey(q)
    BY <1>a DEF Frame, CanonicalRuns
  <2>2. own[q] \in {"adopt", "run"} => RunOf(q)' = RunOf(q)
    BY <2>1 DEF RunOf
  <2>3. Inserters(q)' \subseteq Inserters(q)
    BY <2>1 DEF Inserters, Frame
  <2> QED BY <1>a, <2>1, <2>2, <2>3 DEF OwnsKey
<1>3. \A v \in runs' : \E g \in gens' : g.mode = v.mode /\ g.no = v.no
  BY <1>a DEF CanonicalRuns
<1> QED BY <1>1, <1>2, <1>3 DEF CanonicalRuns

LEMMA RunsStep == IInv /\ [Next]_vars => CanonicalRuns'
<1> SUFFICES ASSUME IInv, [Next]_vars PROVE CanonicalRuns'
  OBVIOUS
<1>a. /\ TypeOK /\ Attempts /\ Preparations /\ CanonicalRuns
      /\ \A q \in Requests : Shape(q) /\ Locks(q)
  BY DEF IInv
<1>1. ASSUME NEW r \in Requests, Commit(r) PROVE CanonicalRuns'
  <2>1. pc[r] = "commit" /\ pc'[r] = "done" /\ own'[r] = "nothing"
    BY <1>a, <1>1 DEF Commit, Release, GoTo, TypeOK
  <2>2. Frame(r)
    BY <1>a, <1>1, FrameStep DEF Step
  <2>3. CASE runs' = runs
    BY <2>1, <2>2, <2>3, RunsFrame DEF OwnsKey
  <2>4. ASSUME NEW q \in Requests, own[q] \in {"adopt", "run"}
        PROVE  \/ own[q] = "adopt" /\ arg[q].mode = "manual"
               \/ \E g \in gens : g.mode = arg[q].mode /\ g.no = arg[q].no
    <3>1. pc[q] = "commit" /\ Kind[q] \in {"activate", "direct"}
      BY <1>a, <2>4 DEF Shape, WritesOf
    <3> QED BY <1>a, <2>4, <3>1 DEF Shape, WritesOf, CanonicalRuns, OwnsKey
  <2>5. CASE CommitAttempt(r) /\ runs' # runs
    <3>1. Kind[r] = "automatic" /\ arg[r].mode = "automatic" /\ WriteRun(r, 0)
      BY <1>a, <2>1, <2>5 DEF CommitAttempt, Shape, WritesOf, Preparing
    <3>2. \E g \in gens' : g.mode = "automatic" /\ g.no = arg[r].no
      <4> DEFINE new == [mode |-> Kind[r], no |-> arg[r].no, says |-> arg[r].says,
                         analysis |-> AnalysisOf(r), by |-> r, status |-> own[r]]
      <4>1. new \in gens'
        BY <2>5 DEF CommitAttempt, WriteAttempt
      <4>2. new.mode = "automatic" /\ new.no = arg[r].no
        BY <3>1
      <4> QED BY <4>1, <4>2
    <3>3. \A g \in gens : ~ (g.mode = "automatic" /\ g.no = arg[r].no)
      BY <1>a, <2>1, <3>1 DEF Attempts, NextAttempt
    <3> DEFINE u == [mode |-> arg[r].mode, no |-> arg[r].no, lineage |-> 0]
    <3>4. runs' = runs \cup {u}
      BY <3>1 DEF WriteRun
    <3>5. \A q \in Requests \ {r} : own[q] \in {"adopt", "run"} =>
            ~ (u.mode = arg[q].mode /\ u.no = arg[q].no)
      BY <2>4, <3>1, <3>3
    <3> HIDE DEF u
    <3>6. u.mode = "automatic" /\ u.no = arg[r].no
      BY <3>1 DEF u
    <3> QED BY <2>1, <2>2, <3>2, <3>4, <3>5, <3>6, RunsAdded
  <2>6. CASE (CommitActivation(r) \/ CommitRun(r)) /\ runs' # runs
    <3>1. own[r] \in {"adopt", "run"} /\ gens' = gens
      BY <2>6 DEF CommitActivation, CommitRun
    <3>2. Inserters(r) = {}
      BY <1>a, <3>1 DEF CanonicalRuns, OwnsKey
    <3>3. \E g \in gens : g.mode = arg[r].mode /\ g.no = arg[r].no
      <4>1. CASE own[r] = "run"
        <5>1. Kind[r] = "direct"
          BY <1>a, <2>1, <4>1 DEF Shape, WritesOf
        <5> QED BY <1>a, <2>1, <5>1 DEF CanonicalRuns, OwnsKey
      <4>2. CASE own[r] = "adopt"
        <5>1. Kind[r] = "activate"
          BY <1>a, <2>1, <4>2 DEF Shape, WritesOf
        <5>2. arg[r].prep \in Number /\ arg[r].no = arg[r].prep /\ arg[r].mode = "manual"
          BY <1>a, <2>1, <5>1 DEF Shape
        <5>3. preps[arg[r].prep] = "awaiting"
          BY <1>a, <2>1, <5>1 DEF Preparations, Adopting, Activating
        <5> QED BY <1>a, <5>2, <5>3 DEF Preparations
      <4> QED BY <3>1, <4>1, <4>2
    <3>4. PICK lineage : WriteRun(r, lineage)
      BY <2>6 DEF CommitActivation, CommitRun
    <3> DEFINE u == [mode |-> arg[r].mode, no |-> arg[r].no, lineage |-> lineage]
    <3>5. runs' = runs \cup {u}
      BY <3>4 DEF WriteRun
    <3> HIDE DEF u
    <3>6. u.mode = arg[r].mode /\ u.no = arg[r].no
      BY DEF u
    <3>7. \A q \in Requests \ {r} : own[q] \in {"adopt", "run"} =>
            ~ (u.mode = arg[q].mode /\ u.no = arg[q].no)
      BY <3>2, <3>6 DEF Inserters
    <3> QED BY <2>1, <2>2, <3>1, <3>3, <3>5, <3>6, <3>7, RunsAdded
  <2>7. CASE CommitEvaluation(r)
    BY <2>3, <2>7 DEF CommitEvaluation
  <2> QED BY <1>1, <2>3, <2>5, <2>6, <2>7 DEF Commit
<1>2. ASSUME NEW r \in Requests, Send(r) \/ Step(r) \/ Abort(r), ~ Commit(r)
      PROVE  CanonicalRuns'
  BY <1>a, <1>2, FrameStep, RunsStay, RunsFrame
<1>3. CASE UNCHANGED vars \/ \E n \in Number : Review(n)
  <2>1. UNCHANGED <<gens, runs, pc, arg, own>>
    BY <1>3 DEF vars, rows, Review
  <2> QED BY <1>a, <2>1 DEF CanonicalRuns, OwnsKey, RunOf, Inserters
<1> QED BY <1>1, <1>2, <1>3 DEF Next, Step

-----------------------------------------------------------------------------
(* What a request leaves of the preparations of others.                     *)
LEMMA RejectedStep == IInv /\ [Next]_vars => RejectedIsExhausted'
<1> SUFFICES ASSUME IInv, [Next]_vars PROVE RejectedIsExhausted'
  OBVIOUS
<1>a. /\ TypeOK /\ Preparations /\ RejectedIsExhausted
      /\ \A q \in Requests : Shape(q) /\ Locks(q)
  BY DEF IInv
<1>1. ASSUME UNCHANGED <<preps, review>> PROVE RejectedIsExhausted'
  BY <1>a, <1>1 DEF RejectedIsExhausted
<1>2. ASSUME NEW r \in Requests, Commit(r), ~ UNCHANGED <<preps, review>>
      PROVE  RejectedIsExhausted'
  <2>1. CASE CommitActivation(r)
    BY <1>a, <2>1 DEF CommitActivation, RejectedIsExhausted, TypeOK
  <2>2. CASE WritePreparation(r) /\ CommitAttempt(r)
    <3>1. Kind[r] = "manual" /\ pc[r] = "commit" /\ arg[r].no \in Number
      BY <1>a, <1>2, <2>2 DEF Commit, CommitAttempt, Shape, WritesOf
    <3>2. arg[r].prep # 0 => review[arg[r].prep] = "exhausted"
      BY <1>a, <3>1 DEF Preparations, Replacing, Preparing
    <3>3. ASSUME NEW n \in Number, preps'[n] = "rejected" PROVE review'[n] = "exhausted"
      <4>1. n # arg[r].no /\ review'[n] = review[n]
        BY <1>a, <2>2, <3>3 DEF WritePreparation, TypeOK
      <4>2. n = arg[r].prep \/ preps[n] = "rejected"
        BY <2>2, <3>3, <4>1 DEF WritePreparation
      <4> QED BY <1>a, <3>2, <4>1, <4>2 DEF RejectedIsExhausted, Number
    <3> QED BY <3>3 DEF RejectedIsExhausted
  <2>3. ~ CommitRun(r) /\ ~ CommitEvaluation(r)
    BY <1>2 DEF CommitRun, CommitEvaluation
  <2>4. CommitAttempt(r) => WritePreparation(r)
    BY <1>2 DEF CommitAttempt
  <2> QED BY <1>2, <2>1, <2>2, <2>3, <2>4 DEF Commit
<1>3. ASSUME NEW r \in Requests, Send(r) \/ Step(r) \/ Abort(r), ~ Commit(r)
      PROVE  RejectedIsExhausted'
  BY <1>1, <1>3, PreparationsStay DEF Reviewed
<1>4. ASSUME NEW n \in Number, Review(n) PROVE RejectedIsExhausted'
  BY <1>a, <1>4 DEF Review, RejectedIsExhausted, TypeOK
<1>5. CASE UNCHANGED vars
  BY <1>1, <1>5 DEF vars, rows
<1> QED BY <1>1, <1>2, <1>3, <1>4, <1>5 DEF Next, Step

LEMMA CanonicalStep == IInv /\ [Next]_vars => ActivationIsCanonical'
<1> SUFFICES ASSUME IInv, [Next]_vars PROVE ActivationIsCanonical'
  OBVIOUS
<1>a. /\ TypeOK /\ Attempts /\ Preparations /\ CanonicalRuns /\ ActivationIsCanonical
      /\ \A q \in Requests : Shape(q) /\ Locks(q)
  BY DEF IInv
<1>b. \A u \in runs : u.no \in Number
  BY <1>a DEF TypeOK, Run
<1>1. ASSUME UNCHANGED <<preps, review, basis, runs>> PROVE ActivationIsCanonical'
  BY <1>a, <1>1 DEF ActivationIsCanonical
<1>2. ASSUME NEW r \in Requests, WriteRun(r, 0), RunOf(r) = {}, UNCHANGED <<preps, review, basis>>
      PROVE  ActivationIsCanonical'
  <2> DEFINE u == [mode |-> arg[r].mode, no |-> arg[r].no, lineage |-> 0]
  <2>1. runs' = runs \cup {u}
    BY <1>2 DEF WriteRun
  <2>2. u.lineage = 0 /\ \A v \in runs : ~ (v.mode = u.mode /\ v.no = u.no)
    BY <1>2 DEF RunOf
  <2> HIDE DEF u
  <2> QED BY <1>a, <1>2, <2>1, <2>2 DEF ActivationIsCanonical
<1>3. ASSUME NEW r \in Requests, Commit(r), ~ UNCHANGED <<preps, review, basis, runs>>
      PROVE  ActivationIsCanonical'
  <2>1. pc[r] = "commit"
    BY <1>3 DEF Commit
  <2>2. CASE CommitRun(r)
    BY <1>a, <1>2, <2>2 DEF CommitRun, CanonicalRuns, OwnsKey
  <2>3. CASE CommitAttempt(r) /\ Kind[r] # "manual"
    <3>1. WriteRun(r, 0) /\ UNCHANGED <<preps, review, basis>> /\ Kind[r] \in Modes
      BY <1>a, <1>3, <2>1, <2>3 DEF CommitAttempt, Shape, WritesOf
    <3>2. \A g \in gens : ~ (g.mode = arg[r].mode /\ g.no = arg[r].no)
      BY <1>a, <2>1, <3>1 DEF Attempts, NextAttempt, Shape, Preparing
    <3>3. RunOf(r) = {}
      BY <1>a, <3>2 DEF CanonicalRuns, RunOf
    <3> QED BY <1>2, <3>1, <3>3
  <2>4. CASE CommitAttempt(r) /\ Kind[r] = "manual"
    <3>0. WritePreparation(r) /\ own[r] = "completed"
      BY <1>a, <1>3, <2>4 DEF CommitAttempt
    <3>1. /\ arg[r].no \in Number /\ preps[arg[r].no] = "none"
          /\ arg[r].prep # 0 => preps[arg[r].prep] = "awaiting"
          /\ runs' = runs
      BY <1>a, <2>1, <2>4, <3>0
      DEF CommitAttempt, Shape, Preparations, Replacing, Preparing
    <3>2. ASSUME NEW n \in Number
          PROVE  /\ preps'[n] = "activated" <=> preps[n] = "activated"
                 /\ n # arg[r].no => review'[n] = review[n] /\ basis'[n] = basis[n]
      <4>1. n = arg[r].prep => preps[n] = "awaiting"
        BY <3>1 DEF Number
      <4> QED BY <1>a, <3>0, <3>1, <4>1 DEF WritePreparation, TypeOK
    <3> QED BY <1>a, <1>b, <3>1, <3>2 DEF ActivationIsCanonical
  <2>5. CASE CommitActivation(r)
    <3>1. /\ own[r] = "adopt" /\ Kind[r] = "activate"
          /\ preps' = [preps EXCEPT ![arg[r].prep] = "activated"]
          /\ UNCHANGED <<basis, review>>
      BY <1>a, <2>1, <2>5 DEF CommitActivation, Shape, WritesOf
    <3>2. arg[r].prep \in Number /\ arg[r].no = arg[r].prep /\ arg[r].mode = "manual"
      BY <1>a, <2>1, <3>1 DEF Shape
    <3>3. review[arg[r].prep] = "approved" /\ arg[r].eval = basis[arg[r].prep]
      BY <1>a, <2>1, <3>1 DEF Preparations, Adopting
    <3> DEFINE u == [mode |-> "manual", no |-> arg[r].prep, lineage |-> basis[arg[r].prep]]
    <3>4. u \in runs' /\ runs' \subseteq runs \cup {u}
      <4>1. CASE RunOf(r) = {}
        BY <2>5, <3>2, <3>3, <4>1 DEF CommitActivation, WriteRun
      <4>2. CASE RunOf(r) # {}
        <5>1. PICK v \in runs : v.mode = "manual" /\ v.no = arg[r].prep
                                /\ v.lineage = basis[arg[r].prep]
          BY <1>a, <3>1, <3>2, <3>3, <4>2 DEF CanonicalRuns, OwnsKey, RunOf
        <5>2. v = u
          BY <1>a, <5>1 DEF TypeOK, Run
        <5> QED BY <2>5, <4>2, <5>1, <5>2 DEF CommitActivation
      <4> QED BY <4>1, <4>2
    <3>5. u \in runs \/ \A v \in runs : ~ (v.mode = "manual" /\ v.no = arg[r].prep)
      <4>1. CASE RunOf(r) = {}
        BY <3>2, <4>1 DEF RunOf
      <4>2. CASE RunOf(r) # {}
        BY <2>5, <3>4, <4>2 DEF CommitActivation
      <4> QED BY <4>1, <4>2
    <3>6. u.mode = "manual" /\ u.no = arg[r].prep /\ u.lineage = basis[arg[r].prep]
      OBVIOUS
    <3>7. runs \subseteq runs'
      BY <2>5 DEF CommitActivation, WriteRun
    <3>8. \A n \in Number : preps'[n] = "activated" =>
            review'[n] = "approved" /\ [mode |-> "manual", no |-> n, lineage |-> basis'[n]] \in runs'
      BY <1>a, <3>1, <3>2, <3>3, <3>4, <3>7 DEF ActivationIsCanonical, TypeOK
    <3> HIDE DEF u
    <3>9. \A v \in runs' : v.lineage # 0 => v.mode = "manual" /\ preps'[v.no] = "activated"
      BY <1>a, <1>b, <3>1, <3>2, <3>4, <3>6 DEF ActivationIsCanonical, TypeOK
    <3>10. \A v, w \in runs' : (v.mode = w.mode /\ v.no = w.no) => v = w
      BY <1>a, <3>4, <3>5, <3>6 DEF ActivationIsCanonical
    <3> QED BY <3>8, <3>9, <3>10 DEF ActivationIsCanonical
  <2>6. ~ CommitEvaluation(r)
    BY <1>3 DEF CommitEvaluation
  <2> QED BY <1>3, <2>2, <2>3, <2>4, <2>5, <2>6 DEF Commit
<1>4. ASSUME NEW r \in Requests, Send(r) \/ Step(r) \/ Abort(r), ~ Commit(r)
      PROVE  ActivationIsCanonical'
  BY <1>1, <1>4, PreparationsStay, RunsStay DEF Reviewed
<1>5. ASSUME NEW n \in Number, Review(n) PROVE ActivationIsCanonical'
  BY <1>a, <1>5 DEF Review, ActivationIsCanonical, TypeOK
<1>6. CASE UNCHANGED vars
  BY <1>1, <1>6 DEF vars, rows
<1> QED BY <1>1, <1>3, <1>4, <1>5, <1>6 DEF Next, Step

-----------------------------------------------------------------------------
(* The inductive invariant holds in every state of the program.             *)
THEOREM Invariance == Spec => []IInv
<1>1. IInv /\ [Next]_vars => IInv'
  <2> SUFFICES ASSUME IInv, [Next]_vars PROVE IInv'
    OBVIOUS
  <2>1. TypeOK' /\ (\A q \in Requests : Shape(q) /\ Locks(q))'
    BY TypeStep, ShapeStep
  <2>2. Attempts' /\ Preparations' /\ CanonicalRuns'
    BY AttemptsStep, PreparationsStep, RunsStep
  <2>3. RejectedIsExhausted' /\ ActivationIsCanonical'
    BY RejectedStep, CanonicalStep
  <2> QED BY <2>1, <2>2, <2>3 DEF IInv
<1> QED BY InitIInv, <1>1, PTL DEF Spec

(* Every variable keeps its type.                                           *)
THEOREM TypeCorrect == Spec => []TypeOK
<1>1. IInv => TypeOK
  BY DEF IInv
<1> QED BY Invariance, <1>1, PTL

(* Two requests of one mode do not both leave content to choose from,       *)
(* however old the snapshot is that they have decided on.                   *)
THEOREM OneOutputForEachMode == Spec => []OneOutputPerMode
<1>1. IInv => OneOutputPerMode
  <2> SUFFICES ASSUME IInv, NEW g \in Outputs, NEW h \in Outputs, g.mode = h.mode
               PROVE  g = h
    BY DEF OneOutputPerMode
  <2>a. TypeOK /\ Attempts /\ Preparations
    BY DEF IInv
  <2>b. /\ g \in gens /\ h \in gens /\ g.status = "completed" /\ h.status = "completed"
        /\ g.no \in Number /\ h.no \in Number /\ g.mode \in Modes
    BY <2>a DEF Outputs, TypeOK, Generation
  <2>1. CASE g.mode = "automatic"
    <3>1. ~ (g.no < h.no)
      <4> SUFFICES ASSUME g.no < h.no PROVE FALSE
        OBVIOUS
      <4>1. PICK f \in gens : f.mode = h.mode /\ f.no = g.no
                              /\ (f.status = "failed" \/ f.mode = "manual")
        BY <2>a, <2>b DEF Attempts, Passed
      <4>2. f = g
        BY <2>a, <2>b, <4>1 DEF Attempts
      <4> QED BY <2>1, <2>b, <4>1, <4>2
    <3>2. ~ (h.no < g.no)
      <4> SUFFICES ASSUME h.no < g.no PROVE FALSE
        OBVIOUS
      <4>1. PICK f \in gens : f.mode = g.mode /\ f.no = h.no
                              /\ (f.status = "failed" \/ f.mode = "manual")
        BY <2>a, <2>b DEF Attempts, Passed
      <4>2. f = h
        BY <2>a, <2>b, <4>1 DEF Attempts
      <4> QED BY <2>1, <2>b, <4>1, <4>2
    <3>3. g.no = h.no
      BY <2>b, <3>1, <3>2 DEF Number
    <3> QED BY <2>a, <2>b, <3>3 DEF Attempts
  <2>2. CASE g.mode = "manual"
    <3>1. preps[g.no] # "none" /\ preps[h.no] # "none"
      BY <2>a, <2>b, <2>2 DEF Preparations
    <3>2. preps[g.no] # "rejected" /\ preps[h.no] # "rejected"
      BY <2>2 DEF Outputs
    <3>3. Alive(g.no) /\ Alive(h.no)
      BY <2>a, <2>b, <3>1, <3>2 DEF Alive, TypeOK
    <3>4. g.no = h.no
      BY <2>a, <2>b, <3>3 DEF Preparations
    <3> QED BY <2>a, <2>b, <3>4 DEF Attempts
  <2> QED BY <2>b, <2>1, <2>2
<1> QED BY Invariance, <1>1, PTL

(* A preparation is given up only when every candidate has been rejected.   *)
THEOREM RejectedWereExhausted == Spec => []RejectedIsExhausted
<1>1. IInv => RejectedIsExhausted
  BY DEF IInv
<1> QED BY Invariance, <1>1, PTL

(* Activated preparations and runs with a lineage belong together, and no   *)
(* generation has two runs.                                                 *)
THEOREM ActivationsAreCanonical == Spec => []ActivationIsCanonical
<1>1. IInv => ActivationIsCanonical
  BY DEF IInv
<1> QED BY Invariance, <1>1, PTL

(* No requests wait for one another: who is at the end waits for nobody, and *)
(* in front of it the locks are always taken in the order preparation, row,  *)
(* attempts.                                                                 *)
THEOREM NeverDeadlocked == Spec => []NoDeadlock
<1>1. IInv => NoDeadlock
  <2> SUFFICES ASSUME IInv, NEW r \in Requests, pc[r] \in InBody,
                      \A q \in Requests : pc[q] \in InBody => Waits(q)
               PROVE  FALSE
    BY DEF NoDeadlock
  <2>a. TypeOK /\ \A q \in Requests : Shape(q) /\ Locks(q)
    BY DEF IInv
  <2>1. \A q \in Requests : pc[q] # "commit"
    BY DEF Waits
  <2>2. \A q \in Requests : ~ (pc[q] \in {"adopt", "insert"})
    <3> SUFFICES ASSUME NEW q \in Requests, pc[q] \in {"adopt", "insert"} PROVE FALSE
      OBVIOUS
    <3>1. PICK p \in Requests : own[p] \in {"adopt", "run"}
      BY DEF Waits, Inserters
    <3>2. pc[p] = "commit"
      BY <2>a, <3>1 DEF Shape, WritesOf
    <3> QED BY <2>1, <3>2
  <2>3. attemptLock = Nobody
    <3> SUFFICES ASSUME attemptLock \in Requests PROVE FALSE
      BY <2>a DEF TypeOK
    <3>1. pc[attemptLock] \in {"generate", "commit"}
      BY <2>a DEF Locks
    <3> QED BY <3>1 DEF Waits
  <2>4. \A q \in Requests : pc[q] # "lock"
    BY <2>3 DEF Waits
  <2>5. \A n \in Number : rowLock[n] = Nobody
    <3> SUFFICES ASSUME NEW n \in Number, rowLock[n] \in Requests PROVE FALSE
      BY <2>a DEF TypeOK
    <3>1. pc[rowLock[n]] \in Preparing \cup Activating
      BY <2>a DEF Locks
    <3> QED BY <2>1, <2>2, <2>4, <3>1 DEF Waits, Preparing, Activating
  <2>6. \A q \in Requests : pc[q] \notin {"active", "prepare"}
    <3> SUFFICES ASSUME NEW q \in Requests, pc[q] \in {"active", "prepare"} PROVE FALSE
      OBVIOUS
    <3>1. pc[q] = "prepare" => arg[q].prep \in Number
      BY <2>a DEF Shape, Places, Preparing, Activating
    <3> QED BY <2>5, <3>1 DEF Waits
  <2>7. prepLock = Nobody
    <3> SUFFICES ASSUME prepLock \in Requests PROVE FALSE
      BY <2>a DEF TypeOK
    <3>1. pc[prepLock] \in {"active"} \cup Preparing
      BY <2>a DEF Locks
    <3> QED BY <2>1, <2>4, <2>6, <3>1 DEF Waits, Preparing
  <2> QED BY <2>1, <2>2, <2>4, <2>6, <2>7 DEF Waits
<1> QED BY Invariance, <1>1, PTL

-----------------------------------------------------------------------------
(* A source run has one preparation that is awaiting or activated, although *)
(* the key of the table is about those that are awaiting only.  As an       *)
(* activated one stays so (DecisionsStand), one at most is ever activated.  *)
OneAlive == \A m, n \in Number : Alive(m) /\ Alive(n) => m = n

(* However preparations, replacements and activations interleave, one is    *)
(* alive.                                                                   *)
THEOREM OnePreparationAlive == Spec => []OneAlive
<1>1. IInv => OneAlive
  BY DEF IInv, Preparations, OneAlive
<1> QED BY Invariance, <1>1, PTL

(* What no request undoes: attempts, runs and evaluations stay; a           *)
(* preparation keeps the evaluation and the analysis it was made from, is   *)
(* decided once, for rejected or for activated, and the verdict on its      *)
(* content is then final.                                                   *)
Decided ==
  /\ gens \subseteq gens' /\ runs \subseteq runs' /\ evals \subseteq evals'
  /\ \A n \in Number :
       /\ preps[n] # "none" => basis'[n] = basis[n] /\ origin'[n] = origin[n]
       /\ preps'[n] # preps[n] =>
            <<preps[n], preps'[n]>> \in {<<"none", "awaiting">>,
                                         <<"awaiting", "rejected">>,
                                         <<"awaiting", "activated">>}
       /\ preps[n] \in {"rejected", "activated"} => review'[n] = review[n]

LEMMA WritesAtCommit ==
  ASSUME NEW r \in Requests, Send(r) \/ Step(r) \/ Abort(r), ~ Commit(r)
  PROVE  UNCHANGED rows
<1>1. CASE Send(r)
  BY <1>1 DEF Send
<1>2. CASE Abort(r) \/ Leave(r)
  BY <1>2 DEF Abort, Leave
<1>3. CASE Validate(r) \/ Serialize(r)
  <2>1. Validate(r) => UNCHANGED rows
    <3>1. SUFFICES ASSUME Validate(r) PROVE UNCHANGED rows
      OBVIOUS
    <3>2. PICK e \in evals :
            IF e.result = "met" THEN Leave(r) ELSE UNCHANGED rows
      BY <3>1 DEF Validate
    <3> QED BY <1>2, <3>2
  <2> QED BY <1>3, <2>1 DEF Serialize
<1>4. CASE FindActive(r)
  BY <1>2, <1>4 DEF FindActive, Replace
<1>5. CASE ReadAttempts(r) \/ LockAttempts(r)
  BY <1>2, <1>5 DEF ReadAttempts, LockAttempts
<1>6. CASE Generate(r)
  BY <1>2, <1>6 DEF Generate
<1>7. CASE \/ LockPreparation(r) \/ CheckLineage(r) \/ Adopt(r)
           \/ ReadSource(r) \/ InsertRun(r) \/ Measure(r)
  BY <1>2, <1>7 DEF LockPreparation, CheckLineage, Adopt, ReadSource, InsertRun,
                    Measure
<1> QED BY <1>1, <1>2, <1>3, <1>4, <1>5, <1>6, <1>7 DEF Step

LEMMA CommitDecides == ASSUME IInv, NEW r \in Requests, Commit(r) PROVE Decided
<1>a. TypeOK /\ Shape(r) /\ Replacing(r) /\ Adopting(r) /\ pc[r] = "commit"
  BY DEF IInv, Preparations, Commit
<1>1. CASE CommitRun(r) \/ CommitEvaluation(r)
  BY <1>1 DEF CommitRun, CommitEvaluation, WriteRun, Decided
<1>2. CASE CommitActivation(r)
  <2>1. arg[r].prep \in Number /\ preps[arg[r].prep] = "awaiting"
    BY <1>a, <1>2 DEF CommitActivation, Shape, WritesOf, Adopting, Activating
  <2>2. runs \subseteq runs' /\ UNCHANGED <<evals, gens, basis, origin, review>>
    BY <1>2 DEF CommitActivation, WriteRun
  <2>3. \A n \in Number : IF n = arg[r].prep THEN preps'[n] = "activated"
                          ELSE preps'[n] = preps[n]
    BY <1>a, <1>2 DEF CommitActivation, TypeOK
  <2> QED BY <2>1, <2>2, <2>3 DEF Decided
<1>3. CASE CommitAttempt(r)
  <2>1. gens \subseteq gens' /\ runs \subseteq runs' /\ evals' = evals
    BY <1>3 DEF CommitAttempt, WriteAttempt, WriteRun
  <2>2. CASE UNCHANGED <<preps, basis, origin, review>>
    BY <2>1, <2>2 DEF Decided
  <2>3. CASE Kind[r] = "manual" /\ own[r] = "completed" /\ WritePreparation(r)
    <3>1. /\ arg[r].no \in Number /\ preps[arg[r].no] = "none"
          /\ arg[r].prep # 0 => preps[arg[r].prep] = "awaiting"
      BY <1>a, <2>3 DEF Shape, Replacing, Preparing
    <3>2. ASSUME NEW n \in Number, n # arg[r].no
          PROVE  /\ basis'[n] = basis[n] /\ origin'[n] = origin[n]
                 /\ review'[n] = review[n]
                 /\ preps'[n] = IF n = arg[r].prep THEN "rejected" ELSE preps[n]
      BY <1>a, <2>3, <3>2 DEF WritePreparation, TypeOK
    <3>3. preps'[arg[r].no] = "awaiting"
      BY <2>3, <3>1 DEF WritePreparation
    <3>4. \A n \in Number : n # 0
      BY NextLoopAssumption DEF Number
    <3> QED BY <2>1, <3>1, <3>2, <3>3, <3>4 DEF Decided
  <2> QED BY <1>3, <2>2, <2>3 DEF CommitAttempt
<1> QED BY <1>1, <1>2, <1>3 DEF Commit

(* No step of any request, and no review, undoes what was decided.          *)
THEOREM DecisionsStand == Spec => [][Decided]_vars
<1>1. IInv /\ [Next]_vars => Decided
  <2>1. SUFFICES ASSUME IInv, [Next]_vars PROVE Decided
    OBVIOUS
  <2>2. CASE UNCHANGED rows
    BY <2>2 DEF rows, Decided
  <2>3. ASSUME NEW n \in Number, Review(n) PROVE Decided
    BY <2>1, <2>3 DEF Review, Decided, IInv, TypeOK
  <2>4. CASE UNCHANGED vars
    BY <2>2, <2>4 DEF vars
  <2> QED BY <2>1, <2>2, <2>3, <2>4, WritesAtCommit, CommitDecides DEF Next, Step
<1> QED BY Invariance, <1>1, PTL DEF Spec

-----------------------------------------------------------------------------
(* What it takes for one output.  A source run may be left with two, an     *)
(* automatic and a manual one, because a request decides on attempts from   *)
(* before it had to wait for the lock on them.  That is the only cause.     *)

(* The attempts that list_next_loop_generation_attempts reads are those     *)
(* from after the lock.                                                     *)
FreshRead == \A r \in Requests : LockAttempts(r) => seen[r] = gens

(* All attempts are of one mode, which is that of the request that holds    *)
(* their lock.                                                              *)
OneMode == /\ \A g, h \in gens : g.mode = h.mode
           /\ \A r \in Requests : Kind[r] \in Modes /\ pc[r] \in {"generate", "commit"} =>
                \A g \in gens : g.mode = Kind[r]

LEMMA OneModeIsOneOutput ==
  ASSUME OneOutputPerMode, \A g, h \in gens : g.mode = h.mode
  PROVE  OneOutput
BY DEF OneOutputPerMode, OneOutput, Outputs

LEMMA OneModeStep ==
  ASSUME IInv, [Next]_vars, FreshRead, OneMode
  PROVE  OneMode'
<1>1. ASSUME NEW r \in Requests, Frame(r), gens' = gens,
             Kind[r] \in Modes /\ pc'[r] \in {"generate", "commit"} =>
               \A g \in gens : g.mode = Kind[r]
      PROVE  OneMode'
  BY <1>1 DEF OneMode, Frame
<1>2. ASSUME NEW r \in Requests, LockAttempts(r), ~ Leave(r) PROVE OneMode'
  <2>1. /\ gens' = gens /\ MayAttempt(r) /\ seen[r] = gens
    BY <1>2 DEF LockAttempts, rows, FreshRead
  <2>2. \A g \in gens : g.mode = Kind[r]
    BY <2>1 DEF MayAttempt, SameIntent
  <2> QED
    BY <1>1, <1>2, <2>1, <2>2, FrameStep DEF IInv, Step
<1>3. ASSUME NEW r \in Requests, Generate(r), ~ Leave(r) PROVE OneMode'
  <2>1. gens' = gens /\ pc[r] = "generate"
    BY <1>3 DEF Generate, rows
  <2> QED
    BY <1>1, <1>3, <2>1, FrameStep DEF IInv, Step, OneMode
<1>4. ASSUME NEW r \in Requests, Commit(r), CommitAttempt(r) PROVE OneMode'
  <2>1. pc[r] = "commit" /\ pc'[r] = "done" /\ Kind[r] \in Modes
    BY <1>4 DEF Commit, Release, GoTo, CommitAttempt, IInv, TypeOK, Shape, WritesOf
  <2>2. \A g \in gens : g.mode = Kind[r]
    BY <2>1 DEF OneMode
  <2>3. \A g \in gens' : g.mode = Kind[r]
    BY <1>4, <2>2 DEF CommitAttempt, WriteAttempt
  <2>4. \A q \in Requests : Kind[q] \in Modes => pc'[q] \notin {"generate", "commit"}
    BY <1>4, <2>1, FrameStep DEF IInv, Locks, Step, Frame
  <2> QED
    BY <2>3, <2>4 DEF OneMode
<1>5. ASSUME NEW r \in Requests, Send(r) \/ Step(r) \/ Abort(r) PROVE OneMode'
  <2>1. CASE /\ ~ LockAttempts(r) \/ Leave(r)
             /\ ~ Generate(r) \/ Leave(r)
             /\ ~ (Commit(r) /\ CommitAttempt(r))
    <3>1. Frame(r)
      BY <1>5, FrameStep DEF IInv
    <3>2. gens' = gens /\ (Kind[r] \in Modes => pc'[r] \notin {"generate", "commit"})
      BY <1>5, <2>1, NoAttempt DEF IInv
    <3> QED
      BY <1>1, <3>1, <3>2
  <2> QED
    BY <1>2, <1>3, <1>4, <2>1
<1>6. CASE (\E n \in Number : Review(n)) \/ UNCHANGED vars
  BY <1>6 DEF Review, vars, rows, OneMode
<1> QED
  BY <1>5, <1>6 DEF Next

(* If the attempts were read after their lock is granted, a source run      *)
(* would have one output.                                                   *)
THEOREM OneOutputIfFresh == Spec /\ [][FreshRead]_vars => []OneOutput
<1>1. Init => OneMode
  BY DEF Init, OneMode
<1>2. IInv /\ [Next]_vars /\ [FreshRead]_vars /\ OneMode => OneMode'
  <2>1. UNCHANGED vars /\ OneMode => OneMode'
    BY DEF vars, rows, OneMode
  <2> QED
    BY <2>1, OneModeStep
<1>3. OneOutputPerMode /\ OneMode => OneOutput
  BY OneModeIsOneOutput DEF OneMode
<1> QED
  BY <1>1, <1>2, <1>3, Invariance, OneOutputForEachMode, PTL DEF Spec

(* Two modes are needed: whatever is sent again and however it interleaves, *)
(* requests that are all automatic, or all manual, leave one output.        *)
THEOREM OneModeLeavesOneOutput ==
  ASSUME NEW mode \in Modes,
         \A r \in Requests : Kind[r] \in Modes => Kind[r] = mode
  PROVE  Spec => []OneOutput
<1> DEFINE Uniform == \A g \in gens : g.mode = mode
<1>1. Init => Uniform
  BY DEF Init
<1>2. IInv /\ [Next]_vars /\ Uniform => Uniform'
  <2>1. SUFFICES ASSUME IInv, [Next]_vars, Uniform PROVE Uniform'
    OBVIOUS
  <2>2. ASSUME NEW r \in Requests, Send(r) \/ Step(r) \/ Abort(r) PROVE Uniform'
    <3>1. CASE Commit(r) /\ CommitAttempt(r)
      <4>1. Kind[r] \in Modes
        BY <2>1, <3>1 DEF Commit, CommitAttempt, IInv, Shape, WritesOf
      <4> QED
        BY <2>1, <3>1, <4>1 DEF CommitAttempt, WriteAttempt
    <3>2. CASE LockAttempts(r) \/ Generate(r)
      BY <2>1, <3>2 DEF LockAttempts, Generate, Leave, rows
    <3>3. CASE ~ LockAttempts(r) /\ ~ Generate(r) /\ ~ (Commit(r) /\ CommitAttempt(r))
      BY <2>1, <2>2, <3>3, NoAttempt DEF IInv
    <3> QED
      BY <3>1, <3>2, <3>3
  <2>3. CASE (\E n \in Number : Review(n)) \/ UNCHANGED vars
    BY <2>1, <2>3 DEF Review, vars, rows
  <2> QED
    BY <2>1, <2>2, <2>3 DEF Next
<1>3. OneOutputPerMode /\ Uniform => OneOutput
  BY OneModeIsOneOutput
<1> QED
  BY <1>1, <1>2, <1>3, Invariance, OneOutputForEachMode, PTL DEF Spec
=============================================================================
