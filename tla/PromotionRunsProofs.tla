------------------------ MODULE PromotionRunsProofs ------------------------
(***************************************************************************)
(* Theorems about PromotionRuns, for any segments, requests, scopes and    *)
(* processes, any faults and any number of sends.  The argument: a scope   *)
(* has one open transaction that has inserted it, and none once its run is *)
(* committed; a segment that a binding loop has checked stays locked by    *)
(* its transaction, and so it is still free when the transaction commits.  *)
(***************************************************************************)
EXTENDS PromotionRuns, TLAPS

USE RunsAssumption

(* Past the insert and before the return of the handler.                    *)
Started(r) == pc[r] \in {"load", "target", "plan", "consume"}

(* What a transaction has written so far, and what its answer rests on.     *)
WritesFollow(r) ==
  /\ pc[r] \in {"idle", "ready", "insert", "reply", "done"} => own[r] = "nothing"
  /\ Started(r) => own[r] = "run"
  /\ own[r] = "bindings" => outcome[r] = "ok"
  /\ pc[r] \in {"exit", "closing"} /\ outcome[r] = "ok" =>
       own[r] = "bindings" \/ (own[r] = "nothing" /\ ScopeOf[r] \in runs)
  /\ pc[r] \in {"reply", "done"} /\ outcome[r] = "ok" => ScopeOf[r] \in runs

(* One transaction inserts a scope, and only if its run is not there.       *)
OnlyInserter(r) ==
  own[r] # "nothing" => ScopeOf[r] \notin runs /\ Inserters(r) = {}

(* A segment that the binding loop has found free is kept free by its lock. *)
Kept(r, s) == /\ targetLock[s] = r
              /\ bound[s] = Nobody
              /\ target[s] = "reserved"

ChecksHold(r) ==
  /\ Started(r) => \A s \in ScopeOf[r] \ todo[r] : Kept(r, s)
  /\ pc[r] = "plan" => \A s \in Segments : IsFirst(s, todo[r]) => targetLock[s] = r
  /\ pc[r] = "consume" => todo[r] = {}
  /\ own[r] = "bindings" => \A s \in ScopeOf[r] : Kept(r, s)

Orderly(r) == WritesFollow(r) /\ OnlyInserter(r) /\ ChecksHold(r)

(* The inductive invariant.                                                 *)
IInv == /\ TypeOK
        /\ \A r \in Requests : Orderly(r)
        /\ RunIsWhole
        /\ NothingWithoutRun

LEMMA Initially == Init => IInv
<1> SUFFICES ASSUME Init PROVE IInv
  OBVIOUS
<1>1. TypeOK
  BY DEF Init, TypeOK, Places, InBody, Writes, Reserved, Reservations
<1>2. ASSUME NEW r \in Requests PROVE Orderly(r)
  BY DEF Init, Orderly, WritesFollow, OnlyInserter, ChecksHold, Started
<1>3. RunIsWhole
  BY DEF Init, RunIsWhole
<1>4. NothingWithoutRun
  BY DEF Init, NothingWithoutRun, Reserved
<1> QED
  BY <1>1, <1>2, <1>3, <1>4 DEF IInv

-----------------------------------------------------------------------------
(* Facts about the parts of actions.                                        *)

(* The segment that comes first is unique.                                  *)
LEMMA FirstIsUnique ==
  ASSUME NEW S \in SUBSET Segments, NEW s \in Segments, NEW t \in Segments,
         IsFirst(s, S), IsFirst(t, S)
  PROVE  s = t
<1>1. s <= t /\ t <= s
  BY DEF IsFirst
<1>2. s \in Nat /\ t \in Nat
  OBVIOUS
<1> QED
  BY <1>1, <1>2

(* A victim of the deadlock detector waits for a lock in its handler.       *)
LEMMA VictimWaits ==
  ASSUME NEW r \in Requests, DeadlockVictim(r)
  PROVE  pc[r] \in {"insert", "target", "plan"}
<1>1. PICK S \in SUBSET Requests : r \in S /\ Deadlocked(S)
  BY DEF DeadlockVictim
<1>2. WaitsFor(r) # {}
  BY <1>1 DEF Deadlocked
<1> QED
  BY <1>2 DEF WaitsFor

(* A handler that leaves.                                                   *)
LEMMA LeavesLemma ==
  ASSUME TypeOK, NEW r \in Requests,
         NEW result \in {"ok", "conflict", "error"}, Leaves(r, result)
  PROVE  /\ pc' \in [Requests -> Places]
         /\ outcome' \in [Requests -> {"none", "ok", "conflict", "error", "lost"}]
         /\ loop' \in [Processes -> Requests \cup {Nobody}]
         /\ pc'[r] = "exit" /\ outcome'[r] = result
         /\ \A q \in Requests \ {r} : pc'[q] = pc[q] /\ outcome'[q] = outcome[q]
BY DEF TypeOK, Leaves, Places

(* The end of a transaction.                                                *)
LEMMA EndLemma ==
  ASSUME TypeOK, NEW r \in Requests, EndTransaction(r)
  PROVE  /\ own' \in [Requests -> Writes]
         /\ todo' \in [Requests -> SUBSET Segments]
         /\ targetLock' \in [Segments -> Requests \cup {Nobody}]
         /\ planLock' \in Requests \cup {Nobody}
         /\ own'[r] = "nothing"
         /\ \A q \in Requests \ {r} : own'[q] = own[q] /\ todo'[q] = todo[q]
         /\ \A s \in Segments : targetLock[s] # r => targetLock'[s] = targetLock[s]
BY DEF TypeOK, EndTransaction, Writes

(* A step of one request that commits nothing, takes only free locks, and   *)
(* opens no second transaction for a scope.                                 *)
Confined(r) ==
  /\ UNCHANGED rows
  /\ \A q \in Requests \ {r} : /\ pc'[q] = pc[q] /\ outcome'[q] = outcome[q]
                              /\ own'[q] = own[q] /\ todo'[q] = todo[q]
  /\ \A s \in Segments :
       targetLock[s] \in Requests \ {r} => targetLock'[s] = targetLock[s]
  /\ \/ own'[r] = "nothing"
     \/ own[r] # "nothing"
     \/ Inserters(r) = {} /\ ScopeOf[r] \notin runs

(* What is left to show of such a step is that r stays orderly.             *)
LEMMA ConfinedStep ==
  ASSUME IInv, NEW r \in Requests, TypeOK', Confined(r),
         WritesFollow(r)', ChecksHold(r)'
  PROVE  IInv'
<1> USE DEF Confined
<1>1. ASSUME NEW q \in Requests \ {r} PROVE WritesFollow(q)' /\ ChecksHold(q)'
  <2>1. WritesFollow(q) /\ ChecksHold(q)
    BY DEF IInv, Orderly
  <2>2. WritesFollow(q)'
    BY <2>1 DEF WritesFollow, Started, rows
  <2>3. ASSUME NEW s \in Segments, Kept(q, s) PROVE Kept(q, s)'
    BY <2>3 DEF Kept, rows
  <2>4. ScopeOf[q] \subseteq Segments
    OBVIOUS
  <2>5. ChecksHold(q)'
    BY <2>1, <2>3, <2>4 DEF ChecksHold, Started, IsFirst
  <2> QED
    BY <2>2, <2>5
<1>2. ASSUME NEW q \in Requests, own'[q] # "nothing"
      PROVE  ScopeOf[q] \notin runs' /\ Inserters(q)' = {}
  <2>1. \A o \in Requests : OnlyInserter(o)
    BY DEF IInv, Orderly
  <2>2. ScopeOf[q] \notin runs
    BY <1>2, <2>1 DEF OnlyInserter
  <2>3. Inserters(r) = {} \/ own'[r] = "nothing"
    BY <2>1 DEF OnlyInserter
  <2>4. ASSUME NEW p \in Requests, p # q, own'[p] # "nothing",
               ScopeOf[p] = ScopeOf[q]
        PROVE  FALSE
    <3>1. CASE q = r
      BY <1>2, <2>3, <2>4, <3>1 DEF Inserters
    <3>2. CASE p = r
      BY <1>2, <2>3, <2>4, <3>2 DEF Inserters
    <3>3. CASE q # r /\ p # r
      BY <1>2, <2>1, <2>4, <3>3 DEF OnlyInserter, Inserters
    <3> QED
      BY <3>1, <3>2, <3>3
  <2> QED
    BY <2>2, <2>4 DEF Inserters, rows
<1>3. RunIsWhole' /\ NothingWithoutRun'
  BY DEF IInv, RunIsWhole, NothingWithoutRun, Intact, rows
<1> QED
  BY <1>1, <1>2, <1>3 DEF IInv, Orderly, OnlyInserter

-----------------------------------------------------------------------------
(* One lemma for each action but the crash of a process.                    *)

LEMMA SendKeeps == ASSUME IInv, NEW r \in Requests, Send(r) PROVE IInv'
<1> TypeOK /\ WritesFollow(r)
  BY DEF IInv, Orderly
<1>1. TypeOK'
  BY DEF TypeOK, Send, Places, rows, locks
<1>2. Confined(r)
  BY DEF TypeOK, Send, Confined, WritesFollow, locks
<1>3. WritesFollow(r)' /\ ChecksHold(r)'
  BY DEF TypeOK, Send, WritesFollow, ChecksHold, Started
<1> QED
  BY <1>1, <1>2, <1>3, ConfinedStep

LEMMA ReuseLeaves ==
  ASSUME NEW r \in Requests, Reuse(r)
  PROVE  Leaves(r, "ok") \/ Leaves(r, "conflict")
BY DEF Reuse

LEMMA LookUpKeeps == ASSUME IInv, NEW r \in Requests, LookUp(r) PROVE IInv'
<1> TypeOK /\ WritesFollow(r)
  BY DEF IInv, Orderly
<1>1. own[r] = "nothing" /\ own' = own
  BY DEF LookUp, WritesFollow
<1>2. CASE ScopeOf[r] \in runs
  <2>1. Leaves(r, "ok") \/ Leaves(r, "conflict")
    BY <1>2, ReuseLeaves DEF LookUp
  <2>2. /\ pc' \in [Requests -> Places]
        /\ outcome' \in [Requests -> {"none", "ok", "conflict", "error", "lost"}]
        /\ loop' \in [Processes -> Requests \cup {Nobody}]
        /\ pc'[r] = "exit"
        /\ \A q \in Requests \ {r} : pc'[q] = pc[q] /\ outcome'[q] = outcome[q]
    BY <2>1, LeavesLemma
  <2>3. TypeOK'
    BY <2>2 DEF TypeOK, LookUp, rows, locks
  <2>4. Confined(r)
    BY <1>1, <2>2 DEF LookUp, Confined, locks
  <2>5. WritesFollow(r)' /\ ChecksHold(r)'
    BY <1>1, <1>2, <2>2 DEF LookUp, WritesFollow, ChecksHold, Started, rows
  <2> QED
    BY <2>3, <2>4, <2>5, ConfinedStep
<1>3. CASE ScopeOf[r] \notin runs
  <2>1. /\ pc' = [pc EXCEPT ![r] = "insert"]
        /\ loop' = [loop EXCEPT ![ServedBy[r]] = r]
        /\ UNCHANGED <<outcome, rows, locks, own, todo, snap, sends>>
    BY <1>3 DEF LookUp
  <2>2. TypeOK'
    BY <2>1 DEF TypeOK, Places, InBody, rows, locks
  <2>3. Confined(r)
    BY <1>1, <2>1 DEF TypeOK, Confined, locks
  <2>4. WritesFollow(r)' /\ ChecksHold(r)'
    BY <1>1, <2>1 DEF TypeOK, WritesFollow, ChecksHold, Started
  <2> QED
    BY <2>2, <2>3, <2>4, ConfinedStep
<1> QED
  BY <1>2, <1>3

LEMMA InsertRunKeeps == ASSUME IInv, NEW r \in Requests, InsertRun(r) PROVE IInv'
<1> TypeOK /\ WritesFollow(r)
  BY DEF IInv, Orderly
<1>1. own[r] = "nothing" /\ Inserters(r) = {}
  BY DEF InsertRun, WritesFollow
<1>2. CASE ScopeOf[r] \in runs
  <2>1. Leaves(r, "ok") \/ Leaves(r, "conflict")
    BY <1>2, ReuseLeaves DEF InsertRun
  <2>2. /\ pc' \in [Requests -> Places]
        /\ outcome' \in [Requests -> {"none", "ok", "conflict", "error", "lost"}]
        /\ loop' \in [Processes -> Requests \cup {Nobody}]
        /\ pc'[r] = "exit"
        /\ \A q \in Requests \ {r} : pc'[q] = pc[q] /\ outcome'[q] = outcome[q]
    BY <2>1, LeavesLemma
  <2>3. TypeOK'
    BY <1>2, <2>2 DEF TypeOK, InsertRun, rows, locks
  <2>4. Confined(r)
    BY <1>1, <1>2, <2>2 DEF InsertRun, Confined, locks
  <2>5. WritesFollow(r)' /\ ChecksHold(r)'
    BY <1>1, <1>2, <2>2 DEF InsertRun, WritesFollow, ChecksHold, Started, rows
  <2> QED
    BY <2>3, <2>4, <2>5, ConfinedStep
<1>3. CASE ScopeOf[r] \notin runs
  <2>1. /\ pc' = [pc EXCEPT ![r] = "load"]
        /\ own' = [own EXCEPT ![r] = "run"]
        /\ todo' = [todo EXCEPT ![r] = ScopeOf[r]]
        /\ UNCHANGED <<outcome, loop, rows, locks, snap, sends>>
    BY <1>3 DEF InsertRun
  <2>2. TypeOK'
    BY <2>1 DEF TypeOK, Places, InBody, Writes, rows, locks
  <2>3. Confined(r)
    BY <1>1, <1>3, <2>1 DEF TypeOK, Confined, locks
  <2>4. WritesFollow(r)' /\ ChecksHold(r)'
    BY <2>1 DEF TypeOK, WritesFollow, ChecksHold, Started
  <2> QED
    BY <2>2, <2>3, <2>4, ConfinedStep
<1> QED
  BY <1>2, <1>3

LEMMA LoadTargetKeeps == ASSUME IInv, NEW r \in Requests, LoadTarget(r) PROVE IInv'
<1> TypeOK /\ WritesFollow(r) /\ ChecksHold(r)
  BY DEF IInv, Orderly
<1>1. TypeOK'
  BY DEF TypeOK, LoadTarget, Places, InBody, rows, locks
<1>2. Confined(r)
  BY DEF TypeOK, LoadTarget, Confined, WritesFollow, Started, locks
<1>3. WritesFollow(r)'
  BY DEF TypeOK, LoadTarget, WritesFollow, Started
<1>4. ChecksHold(r)'
  BY DEF TypeOK, LoadTarget, ChecksHold, WritesFollow, Started, Kept, rows, locks
<1> QED
  BY <1>1, <1>2, <1>3, <1>4, ConfinedStep

LEMMA LockTargetKeeps == ASSUME IInv, NEW r \in Requests, LockTarget(r) PROVE IInv'
<1> TypeOK /\ WritesFollow(r) /\ ChecksHold(r)
  BY DEF IInv, Orderly
<1>1. PICK s \in Segments : /\ IsFirst(s, todo[r])
                            /\ targetLock[s] = Nobody
                            /\ targetLock' = [targetLock EXCEPT ![s] = r]
  BY DEF LockTarget
<1>2. TypeOK'
  BY <1>1 DEF TypeOK, LockTarget, Places, InBody, rows
<1>3. Confined(r)
  BY <1>1 DEF TypeOK, LockTarget, Confined, WritesFollow, Started
<1>4. WritesFollow(r)'
  BY DEF TypeOK, LockTarget, WritesFollow, Started
<1>5. ASSUME NEW t \in ScopeOf[r] \ todo[r] PROVE Kept(r, t)'
  BY <1>1 DEF TypeOK, LockTarget, ChecksHold, Started, Kept, rows
<1>6. \A t \in Segments : IsFirst(t, todo[r]) => targetLock'[t] = r
  <2> SUFFICES ASSUME NEW t \in Segments, IsFirst(t, todo[r]) PROVE targetLock'[t] = r
    OBVIOUS
  <2>1. todo[r] \in SUBSET Segments
    BY DEF TypeOK
  <2>2. t = s
    BY <1>1, <2>1, FirstIsUnique
  <2> QED
    BY <1>1, <2>2 DEF TypeOK
<1>7. ChecksHold(r)'
  BY <1>5, <1>6 DEF TypeOK, LockTarget, ChecksHold, WritesFollow, Started, IsFirst
<1> QED
  BY <1>2, <1>3, <1>4, <1>7, ConfinedStep

LEMMA LockPlanKeeps == ASSUME IInv, NEW r \in Requests, LockPlan(r) PROVE IInv'
<1> TypeOK /\ WritesFollow(r) /\ ChecksHold(r)
  BY DEF IInv, Orderly
<1>1. PICK s \in Segments :
        /\ IsFirst(s, todo[r])
        /\ \/ /\ Bindable(r, s)
              /\ todo' = [todo EXCEPT ![r] = @ \ {s}]
              /\ pc' = [pc EXCEPT ![r] = IF todo[r] = {s} THEN "consume" ELSE "load"]
              /\ UNCHANGED <<outcome, loop>>
           \/ /\ ~ Bindable(r, s)
              /\ Leaves(r, "conflict")
              /\ UNCHANGED todo
  BY DEF LockPlan
<1>2. own[r] = "run"
  BY DEF LockPlan, WritesFollow, Started
<1>3. CASE Bindable(r, s)
  <2>1. TypeOK'
    <3>0. /\ todo' = [todo EXCEPT ![r] = @ \ {s}]
          /\ pc' = [pc EXCEPT ![r] = IF todo[r] = {s} THEN "consume" ELSE "load"]
          /\ outcome' = outcome /\ loop' = loop
      BY <1>1, <1>3
    <3>1. /\ pc' \in [Requests -> Places]
          /\ todo' \in [Requests -> SUBSET Segments]
          /\ outcome' = outcome /\ loop' = loop
      BY <3>0 DEF TypeOK, Places, InBody
    <3>2. planLock' = r /\ UNCHANGED <<rows, targetLock, own, snap, sends>>
      BY DEF LockPlan
    <3> QED
      BY <3>1, <3>2 DEF TypeOK, rows
  <2>2. Confined(r)
    BY <1>1, <1>2, <1>3 DEF TypeOK, LockPlan, Confined
  <2>3. WritesFollow(r)'
    BY <1>1, <1>2, <1>3 DEF TypeOK, LockPlan, WritesFollow, Started
  <2>4. Kept(r, s)
    BY <1>1, <1>3 DEF LockPlan, ChecksHold, Bindable, Kept
  <2>5. todo'[r] = todo[r] \ {s}
    BY <1>1, <1>3 DEF TypeOK
  <2>6. ASSUME NEW t \in ScopeOf[r] \ todo'[r] PROVE Kept(r, t)'
    BY <2>4, <2>5 DEF LockPlan, ChecksHold, Started, Kept, rows
  <2>7. ChecksHold(r)'
    BY <1>1, <1>2, <1>3, <2>5, <2>6 DEF TypeOK, LockPlan, ChecksHold
  <2> QED
    BY <2>1, <2>2, <2>3, <2>7, ConfinedStep
<1>4. CASE ~ Bindable(r, s)
  <2>1. /\ pc' \in [Requests -> Places]
        /\ outcome' \in [Requests -> {"none", "ok", "conflict", "error", "lost"}]
        /\ loop' \in [Processes -> Requests \cup {Nobody}]
        /\ pc'[r] = "exit" /\ outcome'[r] = "conflict"
        /\ \A q \in Requests \ {r} : pc'[q] = pc[q] /\ outcome'[q] = outcome[q]
    BY <1>1, <1>4, LeavesLemma
  <2>2. TypeOK'
    BY <1>1, <1>4, <2>1 DEF TypeOK, LockPlan, rows
  <2>3. Confined(r)
    BY <1>1, <1>2, <1>4, <2>1 DEF LockPlan, Confined
  <2>4. WritesFollow(r)' /\ ChecksHold(r)'
    BY <1>2, <2>1 DEF LockPlan, WritesFollow, ChecksHold, Started
  <2> QED
    BY <2>2, <2>3, <2>4, ConfinedStep
<1> QED
  BY <1>3, <1>4

LEMMA ConsumeKeeps ==
  ASSUME IInv, NEW r \in Requests, ConsumeReservations(r) PROVE IInv'
<1> TypeOK /\ WritesFollow(r) /\ ChecksHold(r)
  BY DEF IInv, Orderly
<1>1. /\ pc' \in [Requests -> Places]
      /\ outcome' \in [Requests -> {"none", "ok", "conflict", "error", "lost"}]
      /\ loop' \in [Processes -> Requests \cup {Nobody}]
      /\ pc'[r] = "exit" /\ outcome'[r] = "ok"
      /\ \A q \in Requests \ {r} : pc'[q] = pc[q] /\ outcome'[q] = outcome[q]
  BY LeavesLemma DEF ConsumeReservations
<1>2. own' \in [Requests -> Writes] /\ own'[r] = "bindings"
  BY DEF ConsumeReservations, TypeOK, Writes
<1>3. TypeOK'
  BY <1>1, <1>2 DEF TypeOK, ConsumeReservations, rows, locks
<1>4. own[r] = "run" /\ todo[r] = {}
  BY DEF ConsumeReservations, WritesFollow, ChecksHold, Started
<1>5. Confined(r)
  BY <1>1, <1>4 DEF TypeOK, ConsumeReservations, Confined, locks
<1>6. WritesFollow(r)'
  BY <1>1, <1>2 DEF WritesFollow, Started
<1>7. ASSUME NEW s \in ScopeOf[r] PROVE Kept(r, s)'
  BY <1>4 DEF ConsumeReservations, ChecksHold, Started, Kept, rows, locks
<1>8. ChecksHold(r)'
  BY <1>1, <1>7 DEF ChecksHold, Started
<1> QED
  BY <1>3, <1>5, <1>6, <1>8, ConfinedStep

(* A handler that raises, its transaction open or aborted.                  *)
LEMMA RaiseKeeps ==
  ASSUME IInv, NEW r \in Requests, pc[r] \in InBody, Leaves(r, "error"),
         EndTransaction(r) \/ UNCHANGED <<own, todo, locks>>,
         UNCHANGED <<rows, snap, sends>>
  PROVE  IInv'
<1> TypeOK /\ WritesFollow(r)
  BY DEF IInv, Orderly
<1>1. /\ pc' \in [Requests -> Places]
      /\ outcome' \in [Requests -> {"none", "ok", "conflict", "error", "lost"}]
      /\ loop' \in [Processes -> Requests \cup {Nobody}]
      /\ pc'[r] = "exit" /\ outcome'[r] = "error"
      /\ \A q \in Requests \ {r} : pc'[q] = pc[q] /\ outcome'[q] = outcome[q]
  BY LeavesLemma
<1>2. /\ own' \in [Requests -> Writes]
      /\ todo' \in [Requests -> SUBSET Segments]
      /\ targetLock' \in [Segments -> Requests \cup {Nobody}]
      /\ planLock' \in Requests \cup {Nobody}
      /\ own'[r] \in {"nothing", own[r]}
      /\ \A q \in Requests \ {r} : own'[q] = own[q] /\ todo'[q] = todo[q]
      /\ \A s \in Segments : targetLock[s] # r => targetLock'[s] = targetLock[s]
  <2>1. CASE EndTransaction(r)
    BY <2>1, EndLemma
  <2>2. CASE UNCHANGED <<own, todo, locks>>
    BY <2>2 DEF TypeOK, locks
  <2> QED
    BY <2>1, <2>2
<1>3. TypeOK'
  BY <1>1, <1>2 DEF TypeOK, rows
<1>4. Confined(r)
  BY <1>1, <1>2 DEF Confined
<1>5. own[r] \in {"nothing", "run"}
  BY DEF WritesFollow, InBody, Started
<1>6. WritesFollow(r)' /\ ChecksHold(r)'
  BY <1>1, <1>2, <1>5 DEF WritesFollow, ChecksHold, Started
<1> QED
  BY <1>3, <1>4, <1>6, ConfinedStep

LEMMA BodyRaisesKeeps == ASSUME IInv, NEW r \in Requests, BodyRaises(r) PROVE IInv'
BY RaiseKeeps DEF BodyRaises

LEMMA DeadlockKeeps ==
  ASSUME IInv, NEW r \in Requests, DeadlockVictim(r) PROVE IInv'
<1>1. pc[r] \in InBody
  BY VictimWaits DEF InBody
<1> QED
  BY <1>1, RaiseKeeps DEF DeadlockVictim

LEMMA CloseKeeps == ASSUME IInv, NEW r \in Requests, CloseDependency(r) PROVE IInv'
<1> TypeOK /\ WritesFollow(r) /\ ChecksHold(r)
  BY DEF IInv, Orderly
<1>1. TypeOK'
  BY DEF TypeOK, CloseDependency, Places, rows, locks
<1>2. Confined(r)
  BY DEF TypeOK, CloseDependency, Confined, locks
<1>3. WritesFollow(r)'
  BY DEF TypeOK, CloseDependency, WritesFollow, Started, rows
<1>4. ChecksHold(r)'
  BY DEF TypeOK, CloseDependency, ChecksHold, Started, Kept, rows, locks
<1> QED
  BY <1>1, <1>2, <1>3, <1>4, ConfinedStep

(* A transaction that ends without its writes, after an answer not "ok".    *)
LEMMA DropKeeps ==
  ASSUME IInv, NEW r \in Requests, EndTransaction(r),
         pc' = [pc EXCEPT ![r] = "reply"],
         NEW result \in {"none", "conflict", "error", "lost"},
         outcome' = [outcome EXCEPT ![r] = result],
         UNCHANGED <<rows, snap, loop, sends>>
  PROVE  IInv'
<1> TypeOK
  BY DEF IInv
<1>1. /\ own' \in [Requests -> Writes]
      /\ todo' \in [Requests -> SUBSET Segments]
      /\ targetLock' \in [Segments -> Requests \cup {Nobody}]
      /\ planLock' \in Requests \cup {Nobody}
      /\ own'[r] = "nothing"
      /\ \A q \in Requests \ {r} : own'[q] = own[q] /\ todo'[q] = todo[q]
      /\ \A s \in Segments : targetLock[s] # r => targetLock'[s] = targetLock[s]
  BY EndLemma
<1>2. TypeOK'
  BY <1>1 DEF TypeOK, Places, rows
<1>3. Confined(r)
  BY <1>1 DEF TypeOK, Confined
<1>4. WritesFollow(r)' /\ ChecksHold(r)'
  BY <1>1 DEF TypeOK, WritesFollow, ChecksHold, Started
<1> QED
  BY <1>2, <1>3, <1>4, ConfinedStep

LEMMA CommitFailsKeeps == ASSUME IInv, NEW r \in Requests, CommitFails(r) PROVE IInv'
BY DropKeeps DEF CommitFails

LEMMA RollbackKeeps == ASSUME IInv, NEW r \in Requests, Rollback(r) PROVE IInv'
<1>1. outcome[r] \in {"none", "conflict", "error", "lost"}
  BY DEF IInv, TypeOK, Rollback
<1>2. outcome' = [outcome EXCEPT ![r] = outcome[r]]
  BY DEF IInv, TypeOK, Rollback
<1> QED
  BY <1>1, <1>2, DropKeeps DEF Rollback

LEMMA ReplyKeeps == ASSUME IInv, NEW r \in Requests, Reply(r) PROVE IInv'
<1> TypeOK /\ WritesFollow(r) /\ ChecksHold(r)
  BY DEF IInv, Orderly
<1>1. TypeOK'
  BY DEF TypeOK, Reply, Places, rows, locks
<1>2. Confined(r)
  BY DEF TypeOK, Reply, Confined, locks
<1>3. WritesFollow(r)' /\ ChecksHold(r)'
  BY DEF TypeOK, Reply, WritesFollow, ChecksHold, Started, rows
<1> QED
  BY <1>1, <1>2, <1>3, ConfinedStep

LEMMA CrashKeeps == ASSUME IInv, NEW p \in Processes, Crash(p) PROVE IInv'
<1> DEFINE gone == {r \in Requests : /\ ServedBy[r] = p
                                     /\ pc[r] \notin {"idle", "done"}}
<1> TypeOK /\ RunIsWhole /\ NothingWithoutRun
  BY DEF IInv
<1>1. /\ pc' = [r \in Requests |-> IF r \in gone THEN "done" ELSE pc[r]]
      /\ outcome' = [r \in Requests |-> IF r \in gone THEN "lost" ELSE outcome[r]]
      /\ own' = [r \in Requests |-> IF r \in gone THEN "nothing" ELSE own[r]]
      /\ todo' = [r \in Requests |-> IF r \in gone THEN {} ELSE todo[r]]
      /\ targetLock' = [s \in Segments |-> IF targetLock[s] \in gone
                                          THEN Nobody ELSE targetLock[s]]
      /\ planLock' = IF planLock \in gone THEN Nobody ELSE planLock
      /\ loop' = [loop EXCEPT ![p] = Nobody]
      /\ UNCHANGED <<rows, snap, sends>>
  BY DEF Crash
<1> HIDE DEF gone
<1>2. TypeOK'
  <2>1. /\ pc' \in [Requests -> Places]
        /\ outcome' \in [Requests -> {"none", "ok", "conflict", "error", "lost"}]
        /\ own' \in [Requests -> Writes]
        /\ todo' \in [Requests -> SUBSET Segments]
    BY <1>1 DEF TypeOK, Places, Writes
  <2>2. /\ targetLock' \in [Segments -> Requests \cup {Nobody}]
        /\ planLock' \in Requests \cup {Nobody}
        /\ loop' \in [Processes -> Requests \cup {Nobody}]
    BY <1>1 DEF TypeOK
  <2> QED
    BY <1>1, <2>1, <2>2 DEF TypeOK, rows
<1>3. ASSUME NEW r \in Requests PROVE Orderly(r)'
  <2>1. CASE r \in gone
    BY <1>1, <2>1 DEF Orderly, WritesFollow, OnlyInserter, ChecksHold, Started
  <2>2. CASE r \notin gone
    <3>1. Orderly(r)
      BY DEF IInv
    <3>2. pc'[r] = pc[r] /\ outcome'[r] = outcome[r] /\ own'[r] = own[r] /\ todo'[r] = todo[r]
      BY <1>1, <2>2
    <3>3. \A s \in Segments : targetLock[s] = r => targetLock'[s] = r
      BY <1>1, <2>2
    <3>4. WritesFollow(r)'
      BY <1>1, <3>1, <3>2 DEF Orderly, WritesFollow, Started, rows
    <3>5. OnlyInserter(r)'
      BY <1>1, <3>1, <3>2 DEF Orderly, OnlyInserter, Inserters, rows
    <3>6. ASSUME NEW s \in Segments, Kept(r, s) PROVE Kept(r, s)'
      BY <1>1, <3>3, <3>6 DEF Kept, rows
    <3>7. ScopeOf[r] \subseteq Segments
      OBVIOUS
    <3>8. ChecksHold(r)'
      BY <3>1, <3>2, <3>3, <3>6, <3>7 DEF Orderly, ChecksHold, Started, IsFirst
    <3> QED
      BY <3>4, <3>5, <3>8 DEF Orderly
  <2> QED
    BY <2>1, <2>2
<1>4. RunIsWhole' /\ NothingWithoutRun'
  BY <1>1 DEF RunIsWhole, NothingWithoutRun, Intact, rows
<1> QED
  BY <1>2, <1>3, <1>4 DEF IInv

-----------------------------------------------------------------------------
(* The commit, the one action that writes rows.                             *)

(* What it writes: nothing for a run that was reused, else a whole run.     *)
LEMMA CommitWrites ==
  ASSUME IInv, NEW r \in Requests, Commit(r)
  PROVE  \/ UNCHANGED rows /\ own[r] = "nothing" /\ ScopeOf[r] \in runs
         \/ /\ own[r] = "bindings"
            /\ ScopeOf[r] \in Scopes
            /\ \A s \in ScopeOf[r] : Kept(r, s)
            /\ runs' = runs \cup {ScopeOf[r]}
            /\ experiments' = experiments \cup ({ScopeOf[r]} \X ScopeOf[r])
            /\ bound' = [s \in Segments |->
                           IF s \in ScopeOf[r] THEN ScopeOf[r] ELSE bound[s]]
            /\ target' = [s \in Segments |->
                            IF s \in ScopeOf[r] THEN "consumed" ELSE target[s]]
            /\ members' = [s \in Segments |->
                             IF s \in ScopeOf[r] THEN "consumed" ELSE members[s]]
            /\ plan' = "locked"
<1>1. WritesFollow(r) /\ ChecksHold(r)
  BY DEF IInv, Orderly
<1>2. own[r] = "bindings" \/ (own[r] = "nothing" /\ ScopeOf[r] \in runs)
  BY <1>1 DEF Commit, WritesFollow
<1>3. CASE own[r] = "bindings"
  BY <1>1, <1>3 DEF Commit, WriteRows, ChecksHold, Scopes
<1>4. CASE own[r] = "nothing" /\ ScopeOf[r] \in runs
  BY <1>4 DEF Commit, WriteRows, rows
<1> QED
  BY <1>2, <1>3, <1>4

(* A stored run owns the segments of its scope, so that a scope whose       *)
(* segments are all free has none in common with it.                        *)
LEMMA StoredRunsApart ==
  ASSUME TypeOK, RunIsWhole, NEW S \in runs, NEW s \in S
  PROVE  s \in Segments /\ bound[s] = S /\ bound[s] # Nobody
BY DEF TypeOK, RunIsWhole, Intact, Scopes

LEMMA CommitKeeps == ASSUME IInv, NEW r \in Requests, Commit(r) PROVE IInv'
<1> TypeOK /\ RunIsWhole /\ NothingWithoutRun /\ WritesFollow(r)
  BY DEF IInv, Orderly
<1> DEFINE scope == ScopeOf[r]
<1>1. /\ own' \in [Requests -> Writes]
      /\ todo' \in [Requests -> SUBSET Segments]
      /\ targetLock' \in [Segments -> Requests \cup {Nobody}]
      /\ planLock' \in Requests \cup {Nobody}
      /\ own'[r] = "nothing"
      /\ \A q \in Requests \ {r} : own'[q] = own[q] /\ todo'[q] = todo[q]
      /\ \A s \in Segments : targetLock[s] # r => targetLock'[s] = targetLock[s]
  BY EndLemma DEF Commit
<1>2. /\ pc' = [pc EXCEPT ![r] = "reply"] /\ outcome[r] = "ok"
      /\ UNCHANGED <<outcome, snap, loop, sends>>
  BY DEF Commit
<1>3. CASE UNCHANGED rows /\ own[r] = "nothing" /\ scope \in runs
  <2>1. TypeOK'
    BY <1>1, <1>2, <1>3 DEF TypeOK, Places, rows
  <2>2. Confined(r)
    BY <1>1, <1>2, <1>3 DEF TypeOK, Confined
  <2>3. WritesFollow(r)' /\ ChecksHold(r)'
    BY <1>1, <1>2, <1>3 DEF TypeOK, WritesFollow, ChecksHold, Started, rows
  <2> QED
    BY <2>1, <2>2, <2>3, ConfinedStep
<1>4. CASE /\ own[r] = "bindings"
           /\ scope \in Scopes
           /\ \A s \in scope : Kept(r, s)
           /\ runs' = runs \cup {scope}
           /\ experiments' = experiments \cup ({scope} \X scope)
           /\ bound' = [s \in Segments |-> IF s \in scope THEN scope ELSE bound[s]]
           /\ target' = [s \in Segments |-> IF s \in scope THEN "consumed" ELSE target[s]]
           /\ members' = [s \in Segments |-> IF s \in scope THEN "consumed" ELSE members[s]]
           /\ plan' = "locked"
  <2> HIDE DEF scope
  <2>1. scope \subseteq Segments /\ scope # Nobody
    BY <1>4 DEF Scopes
  <2>2. TypeOK'
    <3>1. /\ runs' \subseteq Scopes
          /\ experiments' \subseteq Scopes \X Segments
      BY <1>4, <2>1 DEF TypeOK
    <3>2. /\ bound' \in [Segments -> Scopes \cup {Nobody}]
          /\ target' \in [Segments -> Reservations]
          /\ members' \in [Segments -> Reservations]
          /\ plan' \in {"finalized", "locked"}
      BY <1>4 DEF TypeOK, Reservations
    <3> QED
      BY <1>1, <1>2, <3>1, <3>2 DEF TypeOK, Places
  <2>3. ASSUME NEW q \in Requests PROVE Orderly(q)'
    <3>1. CASE q = r
      BY <1>1, <1>2, <1>4, <3>1
         DEF TypeOK, Orderly, WritesFollow, OnlyInserter, ChecksHold, Started, scope
    <3>2. CASE q # r
      <4>1. Orderly(q)
        BY DEF IInv
      <4>2. /\ pc'[q] = pc[q] /\ outcome'[q] = outcome[q]
            /\ own'[q] = own[q] /\ todo'[q] = todo[q]
        BY <1>1, <1>2, <3>2 DEF TypeOK
      <4>3. WritesFollow(q)'
        BY <1>4, <4>1, <4>2 DEF Orderly, WritesFollow, Started
      <4>4. own[q] # "nothing" => ScopeOf[q] # scope
        BY <1>4, <3>2, <4>1 DEF Orderly, OnlyInserter, Inserters, scope
      <4>5. OnlyInserter(q)'
        <5>1. \A p \in Requests : own'[p] # "nothing" => own[p] # "nothing"
          BY <1>1
        <5> QED
          BY <1>4, <4>1, <4>2, <4>4, <5>1 DEF Orderly, OnlyInserter, Inserters
      <4>6. ASSUME NEW s \in Segments, Kept(q, s) PROVE Kept(q, s)'
        <5>1. s \notin scope
          BY <1>4, <3>2, <4>6 DEF Kept
        <5> QED
          BY <1>1, <1>4, <3>2, <4>6, <5>1 DEF Kept
      <4>7. \A s \in Segments : targetLock[s] = q => targetLock'[s] = q
        BY <1>1, <3>2
      <4>8. ScopeOf[q] \subseteq Segments
        OBVIOUS
      <4>9. ChecksHold(q)'
        BY <4>1, <4>2, <4>6, <4>7, <4>8 DEF Orderly, ChecksHold, Started, IsFirst
      <4> QED
        BY <4>3, <4>5, <4>9 DEF Orderly
    <3> QED
      BY <3>1, <3>2
  <2>4. RunIsWhole'
    <3> SUFFICES ASSUME NEW S \in runs' PROVE Intact(S)'
      BY DEF RunIsWhole
    <3>1. CASE S = scope
      BY <1>4, <2>1, <3>1 DEF Intact
    <3>2. CASE S \in runs
      <4>1. Intact(S)
        BY <3>2 DEF RunIsWhole
      <4>2. ASSUME NEW s \in S PROVE s \in Segments /\ s \notin scope
        BY <1>4, <3>2, StoredRunsApart DEF Kept
      <4> QED
        BY <1>4, <4>1, <4>2 DEF Intact
    <3> QED
      BY <1>4, <3>1, <3>2
  <2>5. NothingWithoutRun'
    <3>1. \A e \in experiments' : e[1] \in runs'
      BY <1>4 DEF NothingWithoutRun
    <3>2. ASSUME NEW s \in Segments
          PROVE  /\ bound'[s] # Nobody => bound'[s] \in runs'
                 /\ target'[s] = "consumed" <=> bound'[s] # Nobody
                 /\ members'[s] = target'[s]
      BY <1>4, <2>1 DEF NothingWithoutRun
    <3> QED
      BY <3>1, <3>2 DEF NothingWithoutRun
  <2> QED
    BY <2>2, <2>3, <2>4, <2>5 DEF IInv
<1> QED
  BY <1>3, <1>4, CommitWrites

-----------------------------------------------------------------------------
LEMMA StepKeeps == IInv /\ [Next]_vars => IInv'
<1> SUFFICES ASSUME IInv, [Next]_vars PROVE IInv'
  OBVIOUS
<1>1. ASSUME NEW r \in Requests, Handler(r) PROVE IInv'
  BY <1>1, LookUpKeeps, InsertRunKeeps, LoadTargetKeeps, LockTargetKeeps,
     LockPlanKeeps, ConsumeKeeps DEF Handler
<1>2. ASSUME NEW r \in Requests, Closing(r) PROVE IInv'
  BY <1>2, CloseKeeps, CommitKeeps, RollbackKeeps, ReplyKeeps DEF Closing
<1>3. ASSUME NEW r \in Requests,
             Send(r) \/ BodyRaises(r) \/ DeadlockVictim(r) \/ CommitFails(r)
      PROVE  IInv'
  BY <1>3, SendKeeps, BodyRaisesKeeps, DeadlockKeeps, CommitFailsKeeps
<1>4. ASSUME NEW p \in Processes, Crash(p) PROVE IInv'
  BY <1>4, CrashKeeps
<1>5. CASE UNCHANGED vars
  <2>1. /\ UNCHANGED <<rows, loop, sends>>
        /\ UNCHANGED <<targetLock, planLock, pc, outcome, own, todo, snap>>
    BY <1>5 DEF vars, locks, request
  <2>2. TypeOK' /\ RunIsWhole' /\ NothingWithoutRun'
    BY <2>1 DEF IInv, TypeOK, RunIsWhole, NothingWithoutRun, Intact, rows
  <2>3. ASSUME NEW r \in Requests PROVE Orderly(r)'
    BY <2>1 DEF IInv, Orderly, WritesFollow, OnlyInserter, Inserters, ChecksHold,
                Started, Kept, rows
  <2> QED
    BY <2>2, <2>3 DEF IInv
<1> QED
  BY <1>1, <1>2, <1>3, <1>4, <1>5 DEF Next

THEOREM Invariance == Spec => []IInv
<1>1. IInv /\ [Next]_vars => IInv'
  BY StepKeeps
<1> QED
  BY <1>1, Initially, PTL DEF Spec

-----------------------------------------------------------------------------
(* Every variable keeps its type.                                           *)
THEOREM TypeCorrect == Spec => []TypeOK
<1>1. IInv => TypeOK
  BY DEF IInv
<1> QED
  BY <1>1, Invariance, PTL

(* Each segment of a stored run has its experiment, and its audience is     *)
(* bound to the run and consumed (bind_run_targets under its row locks).    *)
THEOREM RunsAreWhole == Spec => []RunIsWhole
<1>1. IInv => RunIsWhole
  BY DEF IInv
<1> QED
  BY <1>1, Invariance, PTL

(* No two stored runs share a segment, however the requests for overlapping *)
(* scopes interleave: a segment gets the experiment of one run only.        *)
THEOREM StoredRunsAreApart ==
  Spec => [](\A S, T \in runs : S # T => S \cap T = {})
<1>1. IInv => \A S, T \in runs : S # T => S \cap T = {}
  <2> SUFFICES ASSUME IInv, NEW S \in runs, NEW T \in runs, NEW s \in S \cap T
               PROVE  S = T
    OBVIOUS
  <2>1. bound[s] = S /\ bound[s] = T
    BY StoredRunsApart DEF IInv
  <2> QED
    BY <2>1
<1> QED
  BY <1>1, Invariance, PTL

(* Requests that fail, are rolled back or die leave no experiment, binding  *)
(* or consumed reservation (get_promotion_run_service).                     *)
THEOREM NothingIsLeft == Spec => []NothingWithoutRun
<1>1. IInv => NothingWithoutRun
  BY DEF IInv
<1> QED
  BY <1>1, Invariance, PTL

(* A client told of success finds its run stored (create_promotion_run).    *)
THEOREM SuccessesAreStored == Spec => []SuccessIsStored
<1>1. IInv => SuccessIsStored
  BY DEF IInv, Orderly, WritesFollow, SuccessIsStored
<1> QED
  BY <1>1, Invariance, PTL

(* The bindings implement the abstract registry: a run takes all the        *)
(* audiences of its scope at once, from nobody, and for good.               *)
THEOREM RunsImplementRegistry == Spec => ImplementsRegistry
<1>1. Init => Registry!Init
  BY DEF Init, Registry!Init
<1>2. IInv /\ [Next]_vars => [Registry!Next]_bound
  <2> SUFFICES ASSUME IInv, [Next]_vars PROVE Registry!Next \/ bound' = bound
    OBVIOUS
  <2>1. ASSUME NEW r \in Requests, Commit(r)
        PROVE  Registry!Next \/ bound' = bound
    <3>1. CASE UNCHANGED rows
      BY <3>1 DEF rows
    <3>2. CASE /\ ScopeOf[r] \in Scopes
               /\ \A s \in ScopeOf[r] : Kept(r, s)
               /\ bound' = [s \in Segments |->
                             IF s \in ScopeOf[r] THEN ScopeOf[r] ELSE bound[s]]
      <4>1. Registry!Create(ScopeOf[r])
        BY <3>2 DEF Registry!Create, Kept
      <4> QED
        BY <3>2, <4>1 DEF Registry!Next, Scopes
    <3> QED
      BY <2>1, <3>1, <3>2, CommitWrites
  <2>2. ASSUME NEW r \in Requests, Handler(r) PROVE bound' = bound
    BY <2>2 DEF Handler, LookUp, InsertRun, LoadTarget, LockTarget, LockPlan,
                ConsumeReservations, rows
  <2>3. ASSUME NEW r \in Requests, CloseDependency(r) \/ Rollback(r) \/ Reply(r)
        PROVE  bound' = bound
    BY <2>3 DEF CloseDependency, Rollback, Reply, rows
  <2>4. ASSUME NEW r \in Requests,
               Send(r) \/ BodyRaises(r) \/ DeadlockVictim(r) \/ CommitFails(r)
        PROVE  bound' = bound
    BY <2>4 DEF Send, BodyRaises, DeadlockVictim, CommitFails, rows
  <2>5. ASSUME NEW p \in Processes, Crash(p) PROVE bound' = bound
    BY <2>5 DEF Crash, rows
  <2>6. CASE UNCHANGED vars
    BY <2>6 DEF vars, rows
  <2> QED
    BY <2>1, <2>2, <2>3, <2>4, <2>5, <2>6 DEF Next, Closing
<1> QED
  BY <1>1, <1>2, Invariance, PTL DEF Spec, ImplementsRegistry, Registry!Spec

-----------------------------------------------------------------------------
(* Who waits for whom.                                                      *)

(* Locks are held from the binding loop on until the dependency is closed.  *)
Holding(r) == Started(r) \/ pc[r] \in {"exit", "closing"}

(* What a request holds.  The event loop is its own just while its handler  *)
(* runs; targets are locked in the order of the scope, those the binding    *)
(* loop has passed and the one it is at; and the plan is locked once it has *)
(* passed one.                                                              *)
InOrder(r) ==
  /\ \A p \in Processes : loop[p] = r <=> ServedBy[r] = p /\ pc[r] \in InBody
  /\ planLock = r => Holding(r)
  /\ \A s \in Segments : targetLock[s] = r =>
       /\ Holding(r) /\ s \in ScopeOf[r]
       /\ Started(r) => s \notin todo[r] \/ (pc[r] = "plan" /\ IsFirst(s, todo[r]))
  /\ Started(r) =>
       /\ todo[r] \subseteq ScopeOf[r]
       /\ planLock = r <=> todo[r] # ScopeOf[r]
       /\ \A s \in ScopeOf[r] \ todo[r] : \A t \in todo[r] : s <= t

(* A step of r leaves to the others what they hold.                         *)
Alone(r) ==
  \A q \in Requests \ {r} :
    /\ pc'[q] = pc[q] /\ todo'[q] = todo[q]
    /\ \A p \in Processes : loop'[p] = q <=> loop[p] = q
    /\ \A s \in Segments : targetLock'[s] = q <=> targetLock[s] = q
    /\ planLock' = q <=> planLock = q

LEMMA AloneStep ==
  ASSUME \A q \in Requests : InOrder(q), NEW r \in Requests, Alone(r), InOrder(r)'
  PROVE  (\A q \in Requests : InOrder(q))'
<1>1. ASSUME NEW q \in Requests \ {r} PROVE InOrder(q)'
  BY DEF Alone, InOrder, Holding, Started, IsFirst
<1> QED
  BY <1>1

(* A request that leaves its handler, and may have lost its locks by then.  *)
LEMMA LeavesInOrder ==
  ASSUME TypeOK, \A q \in Requests : InOrder(q), NEW r \in Requests,
         NEW result \in {"ok", "conflict", "error"}, Leaves(r, result),
         pc[r] \in InBody \/ LoopIsFree(r),
         EndTransaction(r) \/ UNCHANGED <<todo, locks>>,
         pc[r] \in {"ready", "insert"} => UNCHANGED locks
  PROVE  (\A q \in Requests : InOrder(q))'
<1>1. /\ pc'[r] = "exit" /\ \A q \in Requests \ {r} : pc'[q] = pc[q]
      /\ loop' = [loop EXCEPT ![ServedBy[r]] = Nobody]
  BY LeavesLemma DEF Leaves
<1>2. loop[ServedBy[r]] \in {r, Nobody} /\ ServedBy[r] \in Processes
  BY DEF InOrder, LoopIsFree
<1>3. Alone(r)
  BY <1>1, <1>2 DEF Alone, EndTransaction, locks, TypeOK
<1>4. InOrder(r)
  OBVIOUS
<1>5. \A p \in Processes : loop'[p] # r
  BY <1>1, <1>2, <1>4 DEF InOrder, TypeOK
<1>6. InOrder(r)'
  BY <1>1, <1>4, <1>5 DEF InOrder, Holding, Started, InBody, EndTransaction, locks, TypeOK
<1> QED
  BY <1>3, <1>6, AloneStep

LEMMA HandlerInOrder ==
  ASSUME IInv, \A q \in Requests : InOrder(q), NEW r \in Requests, Handler(r)
  PROVE  (\A q \in Requests : InOrder(q))'
<1> TypeOK /\ InOrder(r) /\ ServedBy[r] \in Processes
  BY DEF IInv
<1>1. CASE LookUp(r)
  <2>1. CASE Reuse(r)
    BY <1>1, <2>1, ReuseLeaves, LeavesInOrder DEF LookUp
  <2>2. CASE /\ pc' = [pc EXCEPT ![r] = "insert"]
             /\ loop' = [loop EXCEPT ![ServedBy[r]] = r]
    <3>1. pc[r] = "ready" /\ LoopIsFree(r) /\ UNCHANGED <<locks, todo>>
      BY <1>1 DEF LookUp
    <3>2. Alone(r)
      BY <2>2, <3>1 DEF Alone, LoopIsFree, locks, TypeOK
    <3>3. InOrder(r)'
      BY <2>2, <3>1 DEF InOrder, LoopIsFree, Holding, Started, InBody, locks, TypeOK
    <3> QED
      BY <3>2, <3>3, AloneStep
  <2> QED
    BY <1>1, <2>1, <2>2 DEF LookUp
<1>2. CASE InsertRun(r)
  <2>1. CASE Reuse(r) /\ UNCHANGED todo
    BY <1>2, <2>1, ReuseLeaves, LeavesInOrder DEF InsertRun, InBody
  <2>2. CASE /\ pc' = [pc EXCEPT ![r] = "load"]
             /\ todo' = [todo EXCEPT ![r] = ScopeOf[r]]
             /\ UNCHANGED loop
    <3>1. pc[r] = "insert" /\ UNCHANGED locks
      BY <1>2 DEF InsertRun
    <3>2. Alone(r)
      BY <2>2, <3>1 DEF Alone, locks, TypeOK
    <3>3. InOrder(r)'
      BY <2>2, <3>1 DEF InOrder, Holding, Started, InBody, locks, TypeOK
    <3> QED
      BY <3>2, <3>3, AloneStep
  <2> QED
    BY <1>2, <2>1, <2>2 DEF InsertRun
<1>3. CASE LoadTarget(r)
  <2>1. Alone(r)
    BY <1>3 DEF LoadTarget, Alone, locks, TypeOK
  <2>2. InOrder(r)'
    BY <1>3 DEF LoadTarget, InOrder, Holding, Started, InBody, locks, TypeOK
  <2> QED
    BY <2>1, <2>2, AloneStep
<1>4. CASE LockTarget(r)
  <2>1. PICK s \in Segments : /\ IsFirst(s, todo[r])
                              /\ targetLock[s] = Nobody
                              /\ targetLock' = [targetLock EXCEPT ![s] = r]
    BY <1>4 DEF LockTarget
  <2>2. /\ pc[r] = "target" /\ pc' = [pc EXCEPT ![r] = "plan"]
        /\ UNCHANGED <<planLock, todo, loop>>
    BY <1>4 DEF LockTarget
  <2>3. Alone(r)
    BY <2>1, <2>2 DEF Alone, TypeOK
  <2>4. s \in ScopeOf[r]
    BY <2>1, <2>2 DEF InOrder, Started, IsFirst
  <2>5. InOrder(r)'
    BY <2>1, <2>2, <2>4 DEF InOrder, Holding, Started, InBody, IsFirst, TypeOK
  <2> QED
    BY <2>3, <2>5, AloneStep
<1>5. CASE LockPlan(r)
  <2>1. PICK s \in Segments :
          /\ IsFirst(s, todo[r])
          /\ \/ /\ todo' = [todo EXCEPT ![r] = @ \ {s}]
                /\ pc' = [pc EXCEPT ![r] = IF todo[r] = {s} THEN "consume" ELSE "load"]
                /\ UNCHANGED loop
             \/ Leaves(r, "conflict") /\ UNCHANGED todo
    BY <1>5 DEF LockPlan
  <2>2. pc[r] = "plan" /\ planLock \in {Nobody, r} /\ planLock' = r /\ UNCHANGED targetLock
    BY <1>5 DEF LockPlan
  <2>3. todo[r] \subseteq ScopeOf[r] /\ todo[r] \subseteq Segments /\ s \in todo[r]
        /\ \A x \in ScopeOf[r] \ todo[r] : \A t \in todo[r] : x <= t
    BY <2>1, <2>2 DEF InOrder, Started, IsFirst, TypeOK
  <2>4. CASE /\ todo' = [todo EXCEPT ![r] = @ \ {s}]
             /\ pc' = [pc EXCEPT ![r] = IF todo[r] = {s} THEN "consume" ELSE "load"]
             /\ UNCHANGED loop
    <3>1. Alone(r)
      BY <2>2, <2>4 DEF Alone, TypeOK
    <3>2. pc'[r] \in {"consume", "load"} /\ todo'[r] = todo[r] \ {s}
      BY <2>4 DEF TypeOK
    <3>3. \A x \in ScopeOf[r] \ todo'[r] : \A t \in todo'[r] : x <= t
      BY <2>1, <2>3, <3>2 DEF IsFirst
    <3>4. \A x \in Segments : targetLock[x] = r => x \in ScopeOf[r] /\ x \notin todo'[r]
      <4>1. SUFFICES ASSUME NEW x \in Segments, targetLock[x] = r
                     PROVE  x \in ScopeOf[r] /\ x \notin todo'[r]
        OBVIOUS
      <4>2. x \in ScopeOf[r] /\ (x \notin todo[r] \/ IsFirst(x, todo[r]))
        BY <2>2, <4>1 DEF InOrder, Started
      <4>3. IsFirst(x, todo[r]) => x = s
        BY <2>1, <2>3, FirstIsUnique
      <4> QED
        BY <3>2, <4>2, <4>3
    <3>5. \A p \in Processes : loop'[p] = r <=> ServedBy[r] = p /\ pc'[r] \in InBody
      BY <2>2, <2>4, <3>2 DEF InOrder, InBody
    <3>6. InOrder(r)'
      BY <2>2, <2>3, <3>2, <3>3, <3>4, <3>5 DEF InOrder, Holding, Started
    <3> QED
      BY <3>1, <3>6, AloneStep
  <2>5. CASE Leaves(r, "conflict") /\ UNCHANGED todo
    <3>1. /\ pc'[r] = "exit" /\ \A q \in Requests \ {r} : pc'[q] = pc[q]
          /\ loop' = [loop EXCEPT ![ServedBy[r]] = Nobody]
      BY <2>5, LeavesLemma DEF Leaves
    <3>2. loop[ServedBy[r]] = r
      BY <2>2 DEF InOrder, InBody
    <3>3. Alone(r)
      BY <2>2, <2>5, <3>1, <3>2 DEF Alone, TypeOK
    <3>4. \A p \in Processes : loop'[p] # r
      BY <3>1, <3>2 DEF InOrder, TypeOK
    <3>5. InOrder(r)'
      BY <2>2, <3>1, <3>4 DEF InOrder, Holding, Started, InBody
    <3> QED
      BY <3>3, <3>5, AloneStep
  <2> QED
    BY <2>1, <2>4, <2>5
<1>6. CASE ConsumeReservations(r)
  BY <1>6, LeavesInOrder DEF ConsumeReservations, InBody
<1> QED
  BY <1>1, <1>2, <1>3, <1>4, <1>5, <1>6 DEF Handler

LEMMA OtherInOrder ==
  ASSUME IInv, \A q \in Requests : InOrder(q), NEW r \in Requests,
         \/ Send(r) \/ BodyRaises(r) \/ DeadlockVictim(r) \/ Closing(r) \/ CommitFails(r)
  PROVE  (\A q \in Requests : InOrder(q))'
<1> TypeOK /\ InOrder(r) /\ ServedBy[r] \in Processes
  BY DEF IInv
<1>1. CASE Send(r)
  <2>1. Alone(r)
    BY <1>1 DEF Send, Alone, locks, TypeOK
  <2>2. InOrder(r)'
    BY <1>1 DEF Send, InOrder, Holding, Started, InBody, locks, TypeOK
  <2> QED
    BY <2>1, <2>2, AloneStep
<1>2. CASE BodyRaises(r)
  <2>1. pc[r] \in {"ready", "insert"} => UNCHANGED locks
    <3>1. CASE pc[r] = "insert" /\ EndTransaction(r)
      BY <3>1 DEF EndTransaction, InOrder, Holding, Started, locks, TypeOK
    <3> QED
      BY <1>2, <3>1 DEF BodyRaises, InBody
  <2> QED
    BY <1>2, <2>1, LeavesInOrder DEF BodyRaises
<1>3. CASE DeadlockVictim(r)
  <2>1. pc[r] \in InBody
    BY <1>3, VictimWaits DEF InBody
  <2>2. pc[r] \in {"ready", "insert"} => UNCHANGED locks
    <3>1. CASE pc[r] = "insert" /\ EndTransaction(r)
      BY <3>1 DEF EndTransaction, InOrder, Holding, Started, locks, TypeOK
    <3> QED
      BY <1>3, <2>1, <3>1 DEF DeadlockVictim, InBody
  <2> QED
    BY <1>3, <2>1, <2>2, LeavesInOrder DEF DeadlockVictim
<1>4. CASE CloseDependency(r)
  <2>1. Alone(r)
    BY <1>4 DEF CloseDependency, Alone, locks, TypeOK
  <2>2. InOrder(r)'
    BY <1>4 DEF CloseDependency, InOrder, Holding, Started, InBody, locks, TypeOK
  <2> QED
    BY <2>1, <2>2, AloneStep
<1>5. CASE Commit(r) \/ Rollback(r) \/ CommitFails(r)
  <2>1. /\ pc[r] = "closing" /\ pc' = [pc EXCEPT ![r] = "reply"]
        /\ EndTransaction(r) /\ UNCHANGED loop
    BY <1>5 DEF Commit, Rollback, CommitFails
  <2>2. Alone(r)
    BY <2>1 DEF Alone, EndTransaction, TypeOK
  <2>3. InOrder(r)'
    BY <2>1 DEF InOrder, EndTransaction, Holding, Started, InBody, TypeOK
  <2> QED
    BY <2>2, <2>3, AloneStep
<1>6. CASE Reply(r)
  <2>1. Alone(r)
    BY <1>6 DEF Reply, Alone, locks, TypeOK
  <2>2. InOrder(r)'
    BY <1>6 DEF Reply, InOrder, Holding, Started, InBody, locks, TypeOK
  <2> QED
    BY <2>1, <2>2, AloneStep
<1> QED
  BY <1>1, <1>2, <1>3, <1>4, <1>5, <1>6 DEF Closing

LEMMA CrashInOrder ==
  ASSUME IInv, \A q \in Requests : InOrder(q), NEW d \in Processes, Crash(d)
  PROVE  (\A q \in Requests : InOrder(q))'
<1> DEFINE gone == {r \in Requests : ServedBy[r] = d /\ pc[r] \notin {"idle", "done"}}
<1> TypeOK
  BY DEF IInv
<1>1. /\ pc' = [r \in Requests |-> IF r \in gone THEN "done" ELSE pc[r]]
      /\ todo' = [r \in Requests |-> IF r \in gone THEN {} ELSE todo[r]]
      /\ targetLock' = [s \in Segments |-> IF targetLock[s] \in gone
                                           THEN Nobody ELSE targetLock[s]]
      /\ planLock' = IF planLock \in gone THEN Nobody ELSE planLock
      /\ loop' = [loop EXCEPT ![d] = Nobody]
  BY DEF Crash
<1> HIDE DEF gone
<1>2. ASSUME NEW q \in Requests PROVE InOrder(q)'
  <2>1. InOrder(q) /\ ServedBy[q] \in Processes
    OBVIOUS
  <2>2. CASE q \in gone
    <3>1. /\ pc'[q] = "done" /\ planLock' # q
          /\ \A s \in Segments : targetLock'[s] # q
      BY <1>1, <2>2
    <3>2. \A p \in Processes : loop'[p] # q
      BY <1>1, <2>1, <2>2 DEF gone, InOrder, TypeOK
    <3> QED
      BY <3>1, <3>2 DEF InOrder, Started, InBody
  <2>3. CASE q \notin gone
    <3>1. /\ pc'[q] = pc[q] /\ todo'[q] = todo[q]
          /\ planLock' = q <=> planLock = q
          /\ \A s \in Segments : targetLock'[s] = q <=> targetLock[s] = q
      BY <1>1, <2>3
    <3>2. loop[d] # q
      BY <2>1, <2>3 DEF gone, InOrder, InBody
    <3>3. \A p \in Processes : loop'[p] = q <=> loop[p] = q
      BY <1>1, <3>2 DEF TypeOK
    <3> QED
      BY <2>1, <3>1, <3>3 DEF InOrder, Holding, Started, IsFirst
  <2> QED
    BY <2>2, <2>3
<1> QED
  BY <1>2

LEMMA OrderInvariance == Spec => [](IInv /\ \A r \in Requests : InOrder(r))
<1>1. Init => \A r \in Requests : InOrder(r)
  BY DEF Init, InOrder, Started, InBody
<1>2. IInv /\ (\A r \in Requests : InOrder(r)) /\ [Next]_vars =>
        (\A r \in Requests : InOrder(r))'
  <2>1. SUFFICES ASSUME IInv, \A r \in Requests : InOrder(r), [Next]_vars
                 PROVE  (\A r \in Requests : InOrder(r))'
    OBVIOUS
  <2>2. CASE UNCHANGED vars
    BY <2>1, <2>2 DEF vars, locks, request, InOrder, Holding, Started, IsFirst
  <2> QED
    BY <2>1, <2>2, HandlerInOrder, OtherInOrder, CrashInOrder DEF Next
<1> QED
  BY <1>1, <1>2, Invariance, PTL DEF Spec

(* Overlapping scopes begin with the same segment, as equal ones do.        *)
CommonFirst ==
  \A q, r \in Requests :
    ScopeOf[q] \cap ScopeOf[r] # {} =>
      \E s \in Segments : IsFirst(s, ScopeOf[q]) /\ IsFirst(s, ScopeOf[r])

(* A request that has locked a target after its first one has the first too.*)
LEMMA FirstIsLocked ==
  ASSUME IInv, NEW r \in Requests, InOrder(r), Started(r),
         NEW f \in Segments, IsFirst(f, ScopeOf[r]),
         NEW s \in Segments, targetLock[s] = r
  PROVE  targetLock[f] = r
<1>1. /\ ScopeOf[r] \subseteq Segments /\ f \in ScopeOf[r] /\ s \in ScopeOf[r]
      /\ f <= s /\ f \in Nat /\ s \in Nat
  BY DEF InOrder, IsFirst
<1>2. \A t \in ScopeOf[r] \ todo[r] : targetLock[t] = r
  BY DEF IInv, Orderly, ChecksHold, Kept
<1>3. CASE f \notin todo[r]
  BY <1>1, <1>2, <1>3
<1>4. CASE f \in todo[r]
  <2>1. s <= f
    BY <1>1, <1>4 DEF InOrder, IsFirst
  <2>2. s = f
    BY <1>1, <2>1
  <2> QED
    BY <2>2
<1> QED
  BY <1>3, <1>4

(* A request that waits for a target although it has the plan waits for one *)
(* whose scope begins with another segment.                                 *)
LEMMA PlanOwnerWaits ==
  ASSUME IInv, \A q \in Requests : InOrder(q), NEW h \in Requests, planLock = h,
         pc[h] = "target", NEW k \in WaitsFor(h), Started(k)
  PROVE  ~ CommonFirst
<1>1. SUFFICES ASSUME CommonFirst PROVE FALSE
  OBVIOUS
<1>2. PICK s \in Segments : IsFirst(s, todo[h]) /\ targetLock[s] = k
  BY DEF WaitsFor
<1>3. k \in Requests /\ k # h /\ s \in ScopeOf[k]
  BY <1>2 DEF WaitsFor, InOrder
<1>4. todo[h] \subseteq ScopeOf[h] /\ todo[h] # ScopeOf[h] /\ s \in ScopeOf[h]
  BY <1>2 DEF InOrder, Started, IsFirst
<1>5. PICK f \in Segments : IsFirst(f, ScopeOf[h]) /\ IsFirst(f, ScopeOf[k])
  BY <1>1, <1>3, <1>4 DEF CommonFirst
<1>6. PICK t \in ScopeOf[h] : t \notin todo[h]
  BY <1>4
<1>7. targetLock[t] = h /\ t \in Segments
  BY <1>6 DEF IInv, Orderly, ChecksHold, Started, Kept
<1>8. targetLock[f] = h
  BY <1>5, <1>7, FirstIsLocked DEF Started
<1>9. targetLock[f] = k
  BY <1>2, <1>3, <1>5, FirstIsLocked
<1> QED
  BY <1>3, <1>8, <1>9

(* Whoever has locked a target and waits for another has the plan.          *)
LEMMA TargetOwnerHasPlan ==
  ASSUME \A q \in Requests : InOrder(q), NEW k \in Requests, pc[k] = "target",
         NEW s \in Segments, targetLock[s] = k
  PROVE  planLock = k
BY DEF InOrder, Started

(* PostgreSQL has no victim to choose.                                      *)
NoVictim == \A S \in SUBSET Requests : Deadlocked(S) => S = {}

(* No deadlock between scopes that begin with the same segment, whatever    *)
(* fails, is sent again or shares a process (_load_binding_target,          *)
(* bind_run_targets).                                                       *)
THEOREM NoVictimIfCommonFirst == ASSUME CommonFirst PROVE Spec => []NoVictim
<1>1. ASSUME IInv, \A r \in Requests : InOrder(r) PROVE NoVictim
  <2>1. SUFFICES ASSUME NEW S \in SUBSET Requests, Deadlocked(S), NEW r \in S
                 PROVE  FALSE
    BY DEF NoVictim
  <2>2. ASSUME NEW q \in S
        PROVE  /\ pc[q] \in {"insert", "target", "plan"}
               /\ \E o \in S : o \in WaitsFor(q)
               /\ \E o \in S : q \in WaitsFor(o)
    BY <2>1 DEF Deadlocked, WaitsFor
  <2>3. ASSUME NEW q \in S PROVE pc[q] # "insert"
    <3>1. SUFFICES ASSUME pc[q] = "insert" PROVE FALSE
      OBVIOUS
    <3>2. own[q] = "nothing" /\ planLock # q /\ \A s \in Segments : targetLock[s] # q
      BY <1>1, <3>1 DEF IInv, Orderly, WritesFollow, InOrder, Holding, Started
    <3> QED
      BY <2>2, <3>2 DEF WaitsFor, Inserters
  <2>4. ASSUME NEW h \in S, planLock = h PROVE FALSE
    <3>1. PICK k \in S : k \in WaitsFor(h)
      BY <2>2
    <3>2. pc[h] = "target" /\ Started(k)
      BY <2>2, <2>3, <2>4, <3>1 DEF WaitsFor, Started
    <3> QED
      BY <1>1, <2>4, <3>1, <3>2, PlanOwnerWaits
  <2>5. ASSUME NEW q \in S PROVE pc[q] = "target"
    BY <2>2, <2>3, <2>4 DEF WaitsFor
  <2>6. PICK o \in S : r \in WaitsFor(o)
    BY <2>2
  <2>7. PICK s \in Segments : targetLock[s] = r
    BY <2>5, <2>6 DEF WaitsFor
  <2>8. planLock = r
    BY <1>1, <2>5, <2>7, TargetOwnerHasPlan
  <2> QED
    BY <2>4, <2>8
<1> QED
  BY <1>1, OrderInvariance, PTL

(* RCG-12 for such scopes: as long as nothing fails, every request is       *)
(* answered with its run or with the conflict of the API, and none with an  *)
(* error (create_promotion_run).                                            *)
THEOREM OverlapAnsweredIfCommonFirst ==
  ASSUME CommonFirst, Faults = {} PROVE Spec => []OverlapIsAnswered
<1>1. Init => OverlapIsAnswered
  BY DEF Init, OverlapIsAnswered
<1>2. IInv /\ NoVictim /\ OverlapIsAnswered /\ [Next]_vars => OverlapIsAnswered'
  <2>1. SUFFICES ASSUME IInv, NoVictim, OverlapIsAnswered, [Next]_vars
                 PROVE  OverlapIsAnswered'
    OBVIOUS
  <2> TypeOK
    BY <2>1 DEF IInv
  <2>2. ASSUME NEW r \in Requests, DeadlockVictim(r) PROVE FALSE
    BY <2>1, <2>2 DEF DeadlockVictim, NoVictim
  <2>3. ASSUME NEW r \in Requests, Handler(r) PROVE OverlapIsAnswered'
    <3>1. CASE UNCHANGED outcome
      BY <2>1, <3>1 DEF OverlapIsAnswered
    <3>2. CASE Leaves(r, "ok") \/ Leaves(r, "conflict")
      BY <2>1, <3>2, LeavesLemma DEF OverlapIsAnswered
    <3> QED
      BY <2>3, <3>1, <3>2, ReuseLeaves
         DEF Handler, LookUp, InsertRun, LoadTarget, LockTarget, LockPlan,
             ConsumeReservations
  <2>4. ASSUME NEW r \in Requests, Send(r) \/ Closing(r) PROVE OverlapIsAnswered'
    BY <2>1, <2>4 DEF Send, Closing, CloseDependency, Commit, Rollback, Reply,
                      OverlapIsAnswered, TypeOK
  <2>5. ASSUME NEW r \in Requests, BodyRaises(r) \/ CommitFails(r) PROVE FALSE
    BY <2>5 DEF BodyRaises, CommitFails
  <2>6. ASSUME NEW p \in Processes, Crash(p) PROVE FALSE
    BY <2>6 DEF Crash
  <2>7. CASE UNCHANGED vars
    BY <2>1, <2>7 DEF vars, request, OverlapIsAnswered
  <2> QED
    BY <2>1, <2>2, <2>3, <2>4, <2>5, <2>6, <2>7 DEF Next
<1> QED
  BY <1>1, <1>2, Invariance, NoVictimIfCommonFirst, PTL DEF Spec

-----------------------------------------------------------------------------
(* Standstill.                                                              *)
Open(r) == pc[r] \notin {"idle", "done"}

(* A request that cannot go on: it needs the event loop of its process, or  *)
(* its statement waits for another transaction.                             *)
Blocked(r) == \/ pc[r] \in {"ready", "exit", "reply"} /\ ~ LoopIsFree(r)
              \/ WaitsFor(r) # {}

Victim(r) == \E S \in SUBSET Requests : r \in S /\ Deadlocked(S)

(* While no two open requests share a process, one of them can go on, or is *)
(* aborted by PostgreSQL.                                                   *)
NoStandstill ==
  /\ \E r \in Requests : Open(r)
  /\ \A q, r \in Requests : Open(q) /\ Open(r) /\ q # r => ServedBy[q] # ServedBy[r]
  => \E r \in Requests : Open(r) /\ (~ Blocked(r) \/ Victim(r))

(* What stops a process for good is a second request on its event loop, and *)
(* nothing else (create_promotion_run and the closing of its dependency).   *)
THEOREM NeverAtStandstill == Spec => []NoStandstill
<1>1. ASSUME IInv, \A r \in Requests : InOrder(r) PROVE NoStandstill
  <2>1. SUFFICES ASSUME NEW r \in Requests, Open(r),
                        \A p, q \in Requests :
                          Open(p) /\ Open(q) /\ p # q => ServedBy[p] # ServedBy[q],
                        \A q \in Requests : Open(q) => Blocked(q) /\ ~ Victim(q)
                 PROVE  FALSE
    BY DEF NoStandstill
  <2> TypeOK
    BY <1>1 DEF IInv
  <2>2. ASSUME NEW q \in Requests, Open(q)
        PROVE  pc[q] \in {"insert", "target", "plan"} /\ WaitsFor(q) # {}
    <3>1. CASE pc[q] \in {"ready", "exit", "reply"}
      <4>1. PICK p \in Requests : loop[ServedBy[q]] = p
        BY <2>1, <2>2, <3>1 DEF Blocked, LoopIsFree, WaitsFor, TypeOK
      <4>2. ServedBy[p] = ServedBy[q] /\ pc[p] \in InBody
        BY <1>1, <4>1 DEF InOrder
      <4>3. Open(p) /\ p # q
        BY <3>1, <4>2 DEF Open, InBody
      <4> QED
        BY <2>1, <2>2, <4>2, <4>3
    <3>2. CASE pc[q] \notin {"ready", "exit", "reply"}
      BY <2>1, <2>2, <3>2 DEF Blocked, WaitsFor
    <3> QED
      BY <3>1, <3>2
  <2>3. ASSUME NEW k \in Requests, Holding(k)
        PROVE  pc[k] \in {"target", "plan"} /\ WaitsFor(k) # {} /\ Started(k)
    BY <2>2, <2>3 DEF Holding, Started, Open
  <2>4. ASSUME NEW h \in Requests, planLock = h PROVE FALSE
    <3>1. pc[h] = "target" /\ WaitsFor(h) # {}
      BY <1>1, <2>3, <2>4 DEF InOrder, WaitsFor
    <3>2. PICK k \in Requests \ {h} : k \in WaitsFor(h) /\
                 \E s \in Segments : targetLock[s] = k
      BY <3>1 DEF WaitsFor
    <3>3. Holding(k)
      BY <1>1, <3>2 DEF InOrder
    <3>4. pc[k] = "plan"
      BY <1>1, <2>3, <2>4, <3>2, <3>3, TargetOwnerHasPlan
    <3>5. h \in WaitsFor(k)
      BY <2>4, <3>2, <3>4 DEF WaitsFor
    <3>6. Deadlocked({h, k})
      BY <3>2, <3>5 DEF Deadlocked
    <3> QED
      BY <2>1, <3>1, <3>6 DEF Victim, Open
  <2>5. \A q \in Requests : Open(q) => pc[q] # "plan"
    BY <2>2, <2>4 DEF WaitsFor, TypeOK
  <2>6. \A q \in Requests : ~ Holding(q)
    <3>1. SUFFICES ASSUME NEW q \in Requests, Holding(q) PROVE FALSE
      OBVIOUS
    <3>2. pc[q] = "target" /\ WaitsFor(q) # {}
      BY <2>3, <2>5, <3>1 DEF Open
    <3>3. PICK k \in Requests : \E s \in Segments : targetLock[s] = k
      BY <3>2 DEF WaitsFor
    <3>4. pc[k] = "target"
      BY <1>1, <2>3, <2>5, <3>3 DEF InOrder, Open
    <3> QED
      BY <1>1, <2>4, <3>3, <3>4, TargetOwnerHasPlan
  <2>7. pc[r] = "insert" /\ WaitsFor(r) # {}
    BY <2>1, <2>2, <2>6 DEF Holding, Started
  <2>8. PICK q \in Requests : own[q] # "nothing"
    BY <2>7 DEF WaitsFor, Inserters
  <2>9. Holding(q)
    BY <1>1, <2>8 DEF IInv, Orderly, WritesFollow, Holding, Started, TypeOK, Places,
                     InBody
  <2> QED
    BY <2>6, <2>9
<1> QED
  BY <1>1, OrderInvariance, PTL
=============================================================================
