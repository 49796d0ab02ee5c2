----------------------- MODULE AudienceAllocationProofs -----------------------
(***************************************************************************)
(* The inductive invariant of AudienceAllocation, and that its transactions *)
(* implement ExclusionLedger, for any number of users, segments,            *)
(* confirmations and sessions.                                              *)
(***************************************************************************)
EXTENDS AudienceAllocation, TLAPS

(* The targets of a confirmation all name one plan, which was made for it,  *)
(* or none.                                                                 *)
TargetsOK ==
  \A c \in Confirmations :
    /\ \A s \in Segments \ Chosen[c] : target[c][s] = NoTarget
    /\ \A s, r \in Chosen[c] : target[c][r].plan = target[c][s].plan
    /\ \A s \in Chosen[c] :
         /\ target[c][s].plan = 0 <=> target[c][s].state = "none"
         /\ target[c][s].plan # 0 => /\ target[c][s].plan <= revision
                                     /\ plans[target[c][s].plan].of = c

PlansOK ==
  \A p \in Plan :
    /\ plans[p].status = "none" => plans[p] = NoPlan
    /\ plans[p].status # "none" =>
         /\ p <= revision
         /\ plans[p].of \in Confirmations
         /\ \A u \in Users : plans[p].won[u] \in Chosen[plans[p].of] \cup {None}

(* A run is no older than the revision, and what it is bound to is locked.  *)
BoundOK ==
  /\ \A r \in ended : r <= revision
  /\ \A c \in Confirmations, s \in Segments : bound[c][s] # 0 =>
       /\ s \in Chosen[c]
       /\ bound[c][s] <= revision
       /\ target[c][s].plan # 0
  /\ ReleaseSparesRuns

(* A target is stopped only after it was confirmed.                         *)
StatusOK == \A c \in Confirmations, s \in Segments :
              target[c][s].plan = 0 => status[c][s] = "open"

(* The row of a user is that of its plan.                                   *)
MembersOK ==
  \A u \in Users :
    LET p == member[u].plan
        s == member[u].segment
    IN  /\ p = 0 => member[u] = NoMember
        /\ p # 0 =>
             /\ plans[p].status # "none"
             /\ s # None /\ plans[p].won[u] = s
             /\ member[u].state # "none"

RowsOK == /\ TargetsOK /\ PlansOK /\ BoundOK /\ StatusOK /\ MembersOK
          /\ PlanKeepsUsers /\ SourceConfirmedOnce

Confirming == {"segments", "context", "winners", "reserve"}
Releasing == {"look", "row", "revision", "release"}

(* What a session goes by stays true until it writes: the lock on the       *)
(* promotion keeps other confirmations and releases away, the lock on the   *)
(* rows of the plan keeps runs away.                                        *)
SessionOK(t) ==
  LET c == of[t]
  IN  /\ pc[t] # "idle" => c \in Confirmations
      /\ pc[t] \in {"find"} \cup Confirming \cup Releasing => advisory = t
      /\ pc[t] \in Confirming => SourcesFree(c)
      /\ pc[t] = "reserve" => \A u \in Users : won[t][u] \in Chosen[c] \cup {None}
      /\ pc[t] \in Releasing \ {"look"} =>
           \A s \in Chosen[c] : target[c][s].plan # 0
      /\ pc[t] \in {"revision", "release"} =>
           \A s \in Chosen[c] : /\ rowLock[target[c][s].plan] = t
                                /\ plans[target[c][s].plan].status # "locked"
      /\ pc[t] \in {"bind", "consume"} =>
           /\ scope[t] # {} /\ scope[t] \subseteq Chosen[c]
           /\ \A s \in Chosen[c] : target[c][s].plan # 0
      /\ pc[t] = "consume" =>
           /\ \A s \in Chosen[c] : rowLock[target[c][s].plan] = t
           /\ \A s \in scope[t] : Live(target[c][s].plan) /\ bound[c][s] = 0
SessionsOK == \A t \in Sessions : SessionOK(t)

IInv == TypeOK /\ RowsOK /\ SessionsOK

-----------------------------------------------------------------------------
LEMMA InitIInv == Init => IInv
<1> SUFFICES ASSUME Init PROVE IInv
  OBVIOUS
<1> USE AllocationAssumption DEF Init
<1>1. TypeOK
  BY DEF TypeOK, Member, NoMember, Target, NoTarget, Allotment, Nobody, PlanRow,
         NoPlan, Plan
<1>2. TargetsOK
  BY DEF TargetsOK, NoTarget
<1>3. PlansOK
  BY DEF PlansOK, NoPlan
<1>4. BoundOK
  BY DEF BoundOK, ReleaseSparesRuns
<1>5. MembersOK /\ StatusOK
  BY DEF MembersOK, NoMember, StatusOK
<1>6. PlanKeepsUsers /\ SourceConfirmedOnce
  BY DEF PlanKeepsUsers, SourceConfirmedOnce, Holds, Live, NoPlan, Nobody
<1>7. SessionsOK
  BY DEF SessionsOK, SessionOK, Confirming, Releasing
<1> QED
  BY <1>1, <1>2, <1>3, <1>4, <1>5, <1>6, <1>7 DEF IInv, RowsOK

LEMMA ChosenType ==
  ASSUME NEW c \in Confirmations
  PROVE  Chosen[c] # {} /\ Chosen[c] \subseteq Segments
<1>1. Chosen \in [Confirmations -> (SUBSET Segments) \ {{}}]
  BY AllocationAssumption
<1>2. Chosen[c] \in (SUBSET Segments) \ {{}}
  BY <1>1
<1> QED
  BY <1>2

(* Targets name the plan that an action goes by.                            *)
LEMMA PlanIsNamed ==
  ASSUME TypeOK, TargetsOK, NEW t \in Sessions, of[t] \in Confirmations,
         NEW s \in Chosen[of[t]], target[of[t]][s].plan # 0
  PROVE  /\ PlanOf(t) \in Plan
         /\ \A r \in Chosen[of[t]] : target[of[t]][r].plan = PlanOf(t)
         /\ plans[PlanOf(t)].of = of[t]
         /\ PlanOf(t) <= revision
<1> DEFINE c == of[t]
           q == target[c][s].plan
<1>1. Chosen[c] \subseteq Segments /\ s \in Segments
  BY AllocationAssumption
<1>2. q \in Plan
  BY <1>1, AllocationAssumption DEF TypeOK, Target, Plan
<1>3. \A r \in Chosen[c] : target[c][r].plan = q
  BY DEF TargetsOK
<1>4. PlanOf(t) = q
  <2>1. \E p \in Plan : \E r \in Chosen[c] : target[c][r].plan = p
    BY <1>2
  <2>2. PlanOf(t) \in Plan /\ \E r \in Chosen[c] : target[c][r].plan = PlanOf(t)
    BY <2>1 DEF PlanOf
  <2> QED
    BY <1>3, <2>2
<1> QED
  BY <1>2, <1>3, <1>4 DEF TargetsOK

LEMMA WinnerType ==
  ASSUME NEW c \in Confirmations, NEW u \in Users
  PROVE  Winner(c, u) \in Chosen[c] \cup {None}
<1>1. CASE Excluded(u) \/ Fits(c, u) = {}
  BY <1>1 DEF Winner
<1>2. CASE ~(Excluded(u) \/ Fits(c, u) = {})
  <2>1. Fits(c, u) \in (SUBSET Segments) \ {{}}
    BY <1>2, AllocationAssumption DEF Fits
  <2>2. \E s \in Fits(c, u) : \A r \in Fits(c, u) \ {s} : Rank[u][s] < Rank[u][r]
    BY <2>1, AllocationAssumption
  <2>3. Winner(c, u) \in Fits(c, u)
    BY <1>2, <2>2 DEF Winner
  <2> QED
    BY <2>3 DEF Fits
<1> QED
  BY <1>1, <1>2

-----------------------------------------------------------------------------
(* All rows but the status of the targets; that only leaves "open", and    *)
(* only where a plan is named.                                              *)
tables == <<revision, member, target, plans, bound, ended>>
Restopped ==
  \A c \in Confirmations, s \in Segments :
    \/ status'[c][s] = status[c][s]
    \/ status'[c][s] # "open" /\ target[c][s].plan # 0

(* A session that keeps its place and its locks, while no row changes.      *)
LEMMA SessionStays ==
  ASSUME SessionsOK, UNCHANGED tables, NEW x \in Sessions,
         pc'[x] = pc[x], of'[x] = of[x], scope'[x] = scope[x], won'[x] = won[x],
         advisory = x => advisory' = x,
         TypeOK, \A p \in Plan : rowLock[p] = x => rowLock'[p] = x
  PROVE  SessionOK(x)'
<1>1. SessionOK(x)
  BY DEF SessionsOK
<1>2. \A s \in Segments : of[x] \in Confirmations /\ target[of[x]][s].plan # 0
                            => target[of[x]][s].plan \in Plan
  BY AllocationAssumption DEF TypeOK, Target, Plan
<1>3. of[x] \in Confirmations => Chosen[of[x]] \subseteq Segments
  BY AllocationAssumption
<1>4. SourcesFree(of[x]) => SourcesFree(of[x])'
  BY DEF SourcesFree, Live, Sources, tables
<1> QED
  BY <1>1, <1>2, <1>3, <1>4 DEF SessionOK, Live, tables, Confirming, Releasing

(* A session that is done.                                                  *)
LEMMA SessionDone ==
  ASSUME TypeOK, NEW t \in Sessions, End(t)
  PROVE  SessionOK(t)'
BY DEF End, GoTo, TypeOK, SessionOK, Confirming, Releasing

(* A plan that holds its users held them before: a target that is open was  *)
(* never stopped.                                                           *)
LEMMA HeldBefore ==
  ASSUME RowsOK, Restopped, NEW p \in Plan, NEW u \in Users,
         plans'[p].of = plans[p].of, plans'[p].won = plans[p].won, Live(p),
         UNCHANGED ended, plans[p].won[u] # None,
         \/ bound'[plans[p].of][plans[p].won[u]] = bound[plans[p].of][plans[p].won[u]]
         \/ bound[plans[p].of][plans[p].won[u]] = 0,
         Holds(p, plans[p].won[u])'
  PROVE  Holds(p, plans[p].won[u])
<1> DEFINE c == plans[p].of
           s == plans[p].won[u]
<1>1. c \in Confirmations /\ s \in Chosen[c]
  BY DEF RowsOK, PlansOK, Live
<1>2. s \in Segments
  BY <1>1, ChosenType
<1>3. /\ status'[c][s] = "open"
      /\ bound'[c][s] = 0 \/ (bound'[c][s] # 0 /\ bound'[c][s] \notin ended)
  BY DEF Holds, TargetActive, Running
<1>4. status[c][s] = "open"
  BY <1>1, <1>2, <1>3 DEF Restopped
<1> QED
  BY <1>3, <1>4 DEF Holds, TargetActive, Running

(* Whatever depends on the rows alone.                                      *)
LEMMA RowsFrame ==
  ASSUME RowsOK, UNCHANGED tables, Restopped
  PROVE  RowsOK'
<1> USE DEF tables
<1>1. TargetsOK'
  BY DEF RowsOK, TargetsOK
<1>2. PlansOK'
  BY DEF RowsOK, PlansOK
<1>3. BoundOK'
  BY DEF RowsOK, BoundOK, ReleaseSparesRuns
<1>4. MembersOK'
  BY DEF RowsOK, MembersOK
<1>5. PlanKeepsUsers'
  <2>1. ASSUME NEW p \in Plan, NEW u \in Users,
               plans'[p].won[u] # None, Holds(p, plans[p].won[u])'
        PROVE  Holds(p, plans[p].won[u])
    <3>1. Live(p)
      BY <2>1 DEF Holds, Live
    <3> QED
      BY <2>1, <3>1, HeldBefore
  <2> QED
    BY <2>1 DEF RowsOK, PlanKeepsUsers
<1>6. SourceConfirmedOnce'
  BY DEF RowsOK, SourceConfirmedOnce, Live, Sources
<1>7. StatusOK'
  BY DEF RowsOK, StatusOK, Restopped
<1> QED
  BY <1>1, <1>2, <1>3, <1>4, <1>5, <1>6, <1>7 DEF RowsOK

(* Approving a confirmation brings back targets that were stopped.          *)
LEMMA ApproveFacts ==
  ASSUME TypeOK, NEW c \in Confirmations, Approve(c)
  PROVE  /\ status' \in [Confirmations -> [Segments -> {"open", "stopped", "reopened"}]]
         /\ \A d \in Confirmations, s \in Segments :
              \/ status'[d][s] = status[d][s]
              \/ d = c /\ status[d][s] = "stopped" /\ status'[d][s] = "reopened"
         /\ StatusOK => Restopped
<1>1. /\ status' \in [Confirmations -> [Segments -> {"open", "stopped", "reopened"}]]
      /\ \A d \in Confirmations, s \in Segments :
           \/ status'[d][s] = status[d][s]
           \/ d = c /\ status[d][s] = "stopped" /\ status'[d][s] = "reopened"
  BY DEF Approve, TypeOK
<1> QED
  BY <1>1 DEF StatusOK, Restopped

LEMMA StopFacts ==
  ASSUME TypeOK, NEW c \in Confirmations, NEW s \in Segments, StopTarget(c, s)
  PROVE  /\ status' \in [Confirmations -> [Segments -> {"open", "stopped", "reopened"}]]
         /\ \A d \in Confirmations, r \in Segments :
              status'[d][r] = status[d][r] \/ status'[d][r] = "stopped"
         /\ UNCHANGED tables /\ Restopped
<1>1. target[c][s].plan # 0 /\ status' = [status EXCEPT ![c][s] = "stopped"]
  BY AllocationAssumption DEF StopTarget, Plan
<1>2. /\ status' \in [Confirmations -> [Segments -> {"open", "stopped", "reopened"}]]
      /\ \A d \in Confirmations, r \in Segments :
           \/ status'[d][r] = status[d][r]
           \/ d = c /\ r = s /\ status'[d][r] = "stopped"
  BY <1>1 DEF TypeOK
<1> QED
  BY <1>1, <1>2 DEF Restopped, StopTarget, tables

LEMMA ReplayFacts ==
  ASSUME IInv, NEW t \in Sessions, Replay(t)
  PROVE  /\ UNCHANGED tables /\ Restopped
         /\ \A d \in Confirmations, s \in Segments :
              \/ status'[d][s] = status[d][s]
              \/ status[d][s] = "stopped" /\ status'[d][s] = "reopened"
<1>1. of[t] \in Confirmations
  BY DEF IInv, SessionsOK, SessionOK, Replay
<1> QED
  BY <1>1, ApproveFacts DEF Replay, tables, IInv, RowsOK

-----------------------------------------------------------------------------
(* What the three transactions find when they write.                        *)
LEMMA ReserveFacts ==
  ASSUME IInv, NEW t \in Sessions, ConfirmReserve(t)
  PROVE  LET c == of[t]
             p == revision + 1
         IN  /\ c \in Confirmations /\ advisory = t
             /\ p \in Plan /\ revision' = p
             /\ Chosen[c] # {} /\ Chosen[c] \subseteq Segments
             /\ plans[p] = NoPlan
             /\ \A u \in Users : won[t][u] \in Chosen[c] \cup {None}
             /\ \A q \in Plan : Live(q) =>
                  plans[q].of # c /\ Sources(plans[q].of) \cap Sources(c) = {}
             /\ \A s \in Segments : bound[c][s] = 0
             /\ \/ \A s \in Chosen[c] : target[c][s] = NoTarget
                \/ \A s \in Chosen[c] : target[c][s].plan # 0
<1> DEFINE c == of[t]
           p == revision + 1
<1>1. SessionOK(t) /\ pc[t] = "reserve"
  BY DEF IInv, SessionsOK, ConfirmReserve
<1>2. c \in Confirmations /\ advisory = t /\ SourcesFree(c)
      /\ \A u \in Users : won[t][u] \in Chosen[c] \cup {None}
  BY <1>1 DEF SessionOK, Confirming
<1>3. p \in Plan /\ revision' = p
  BY AllocationAssumption DEF ConfirmReserve, AdvanceFrom, Advance, Plan, IInv, TypeOK
<1>4. Chosen[c] # {} /\ Chosen[c] \subseteq Segments
  BY <1>2, ChosenType
<1>5. plans[p] = NoPlan
  <2>1. revision \in Nat /\ ~(p <= revision)
    BY AllocationAssumption DEF IInv, TypeOK
  <2>2. plans[p].status # "none" => p <= revision
    BY <1>3 DEF IInv, RowsOK, PlansOK
  <2> QED
    BY <1>3, <2>1, <2>2 DEF IInv, RowsOK, PlansOK
<1>6. Sources(c) # {}
  BY <1>4 DEF Sources
<1>7. \A q \in Plan : Live(q) =>
        plans[q].of # c /\ Sources(plans[q].of) \cap Sources(c) = {}
  BY <1>2, <1>6 DEF SourcesFree
<1>8. ASSUME NEW s \in Segments PROVE bound[c][s] = 0
  <2>1. SUFFICES ASSUME bound[c][s] # 0 PROVE FALSE
    OBVIOUS
  <2>2. s \in Chosen[c] /\ target[c][s].plan # 0
        /\ plans[target[c][s].plan].status = "locked"
    BY <1>2, <2>1 DEF IInv, RowsOK, BoundOK, ReleaseSparesRuns
  <2>3. target[c][s].plan \in Plan /\ plans[target[c][s].plan].of = c
    BY <1>2, <2>2, AllocationAssumption
       DEF IInv, TypeOK, Target, Plan, RowsOK, TargetsOK
  <2> QED
    BY <1>7, <2>2, <2>3 DEF Live
<1>9. \/ \A s \in Chosen[c] : target[c][s] = NoTarget
      \/ \A s \in Chosen[c] : target[c][s].plan # 0
  <2>1. \A s \in Chosen[c] : target[c][s].plan = 0 => target[c][s] = NoTarget
    BY <1>2, <1>4 DEF IInv, TypeOK, Target, NoTarget, RowsOK, TargetsOK
  <2> QED
    BY <1>2, <2>1 DEF IInv, RowsOK, TargetsOK
<1> QED
  BY <1>2, <1>3, <1>4, <1>5, <1>7, <1>8, <1>9

LEMMA ReleaseFacts ==
  ASSUME IInv, NEW t \in Sessions, ReleaseCommit(t)
  PROVE  LET c == of[t]
             p == PlanOf(t)
         IN  /\ c \in Confirmations /\ advisory = t
             /\ Chosen[c] # {} /\ Chosen[c] \subseteq Segments
             /\ p \in Plan /\ rowLock[p] = t /\ plans[p].of = c
             /\ plans[p].status \in {"finalized", "released"}
             /\ \A s \in Chosen[c] : target[c][s].plan = p /\ bound[c][s] = 0
             /\ \A s \in Segments \ Chosen[c] : target[c][s].plan # p
             /\ revision' = revision + 1 /\ revision' \in Plan
<1> DEFINE c == of[t]
           p == PlanOf(t)
<1>1. SessionOK(t) /\ pc[t] = "release"
  BY DEF IInv, SessionsOK, ReleaseCommit
<1>2. /\ c \in Confirmations /\ advisory = t
      /\ \A s \in Chosen[c] : /\ target[c][s].plan # 0
                              /\ rowLock[target[c][s].plan] = t
                              /\ plans[target[c][s].plan].status # "locked"
  BY <1>1 DEF SessionOK, Releasing
<1>3. Chosen[c] # {} /\ Chosen[c] \subseteq Segments
  BY <1>2, ChosenType
<1>4. p \in Plan /\ plans[p].of = c /\ \A s \in Chosen[c] : target[c][s].plan = p
  BY <1>2, <1>3, PlanIsNamed DEF IInv, RowsOK
<1>5. rowLock[p] = t /\ plans[p].status # "locked"
  BY <1>2, <1>3, <1>4
<1>6. plans[p].status # "none"
  BY <1>2, <1>4, AllocationAssumption DEF IInv, RowsOK, PlansOK, NoPlan
<1>7. plans[p].status \in {"finalized", "released"}
  BY <1>4, <1>5, <1>6 DEF IInv, TypeOK, PlanRow
<1>8. \A s \in Chosen[c] : bound[c][s] = 0
  BY <1>2, <1>3, <1>4, <1>5 DEF IInv, RowsOK, BoundOK, ReleaseSparesRuns
<1>9. \A s \in Segments \ Chosen[c] : target[c][s].plan # p
  BY <1>2, <1>4, AllocationAssumption DEF IInv, RowsOK, TargetsOK, NoTarget, Plan
<1>10. revision' = revision + 1 /\ revision' \in Plan
  BY AllocationAssumption DEF ReleaseCommit, AdvanceFrom, Advance, IInv, TypeOK, Plan
<1> QED
  BY <1>2, <1>3, <1>4, <1>5, <1>7, <1>8, <1>9, <1>10

LEMMA BindFacts ==
  ASSUME IInv, NEW t \in Sessions, BindCommit(t)
  PROVE  LET c == of[t]
             p == PlanOf(t)
         IN  /\ c \in Confirmations
             /\ scope[t] # {} /\ scope[t] \subseteq Chosen[c]
             /\ Chosen[c] \subseteq Segments
             /\ p \in Plan /\ rowLock[p] = t /\ plans[p].of = c /\ Live(p)
             /\ \A s \in Chosen[c] : target[c][s].plan = p
             /\ \A s \in scope[t] : bound[c][s] = 0
             /\ \A q \in Plan : q # p /\ Live(q) => plans[q].of # c
             /\ revision' = revision + 1 /\ revision' \in Plan
<1> DEFINE c == of[t]
           p == PlanOf(t)
<1>1. SessionOK(t) /\ pc[t] = "consume"
  BY DEF IInv, SessionsOK, BindCommit
<1>2. /\ c \in Confirmations
      /\ scope[t] # {} /\ scope[t] \subseteq Chosen[c]
      /\ \A s \in Chosen[c] : /\ target[c][s].plan # 0
                              /\ rowLock[target[c][s].plan] = t
      /\ \A s \in scope[t] : Live(target[c][s].plan) /\ bound[c][s] = 0
  BY <1>1 DEF SessionOK
<1>3. Chosen[c] # {} /\ Chosen[c] \subseteq Segments
  BY <1>2, ChosenType
<1>4. p \in Plan /\ plans[p].of = c /\ \A s \in Chosen[c] : target[c][s].plan = p
  BY <1>2, <1>3, PlanIsNamed DEF IInv, RowsOK
<1>5. rowLock[p] = t
  BY <1>2, <1>3, <1>4
<1>6. PICK s \in scope[t] : TRUE
  BY <1>2
<1>7. Live(p)
  BY <1>2, <1>4, <1>6
<1>8. ASSUME NEW q \in Plan, q # p, Live(q) PROVE plans[q].of # c
  <2>1. Sources(plans[q].of) \cap Sources(plans[p].of) = {}
    BY <1>4, <1>7, <1>8 DEF IInv, RowsOK, SourceConfirmedOnce
  <2> QED
    BY <1>3, <1>4, <2>1 DEF Sources
<1>9. revision' = revision + 1 /\ revision' \in Plan
  BY AllocationAssumption DEF BindCommit, Advance, IInv, TypeOK, Plan
<1> QED
  BY <1>2, <1>3, <1>4, <1>5, <1>7, <1>8, <1>9

-----------------------------------------------------------------------------
LEMMA StatusType ==
  ASSUME NEW r \in PlanRow, NEW x \in {"locked", "released"}
  PROVE  [r EXCEPT !.status = x] \in PlanRow
BY DEF PlanRow

LEMMA MovedType ==
  ASSUME TypeOK, NEW u \in Users, NEW x \in {"consumed", "released"},
         revision' \in Plan
  PROVE  /\ Moved(u, x) \in Member
         /\ Moved(u, x).plan = member[u].plan
         /\ Moved(u, x).segment = member[u].segment
         /\ Moved(u, x).state = x
         /\ Moved(u, x).revision = revision'
<1>1. member[u] \in Member
  BY DEF TypeOK
<1>2. revision' \in 0 .. MaxRevision
  BY AllocationAssumption DEF Plan
<1> QED
  BY <1>1, <1>2 DEF Member, Moved

LEMMA TypeStep == IInv /\ [Next]_vars => TypeOK'
<1> SUFFICES ASSUME IInv, [Next]_vars PROVE TypeOK'
  OBVIOUS
<1> USE AllocationAssumption
<1>0. TypeOK
  BY DEF IInv
<1>1. CASE UNCHANGED vars
  BY <1>0, <1>1 DEF TypeOK, vars, rows, local
<1>2. ASSUME NEW t \in Sessions, End(t)
      PROVE  /\ advisory' \in Sessions \cup {None}
             /\ rowLock' \in [Plan -> Sessions \cup {None}]
             /\ pc' \in [Sessions -> {"idle", "find", "segments", "context", "winners",
                          "reserve", "look", "row", "revision", "release",
                          "bind", "consume"}]
             /\ of' \in [Sessions -> Confirmations \cup {None}]
             /\ scope' \in [Sessions -> SUBSET Segments]
             /\ read' \in [Sessions -> 0 .. MaxRevision]
             /\ won' \in [Sessions -> Allotment]
             /\ unbound' \in [Sessions -> BOOLEAN]
  BY <1>0, <1>2 DEF TypeOK, End, GoTo, Allotment, Nobody
<1>3. ASSUME NEW t \in Sessions, NEW c \in Confirmations,
             ConfirmBegin(t, c) \/ ReleaseBegin(t, c) \/ BindBegin(t, c)
      PROVE  TypeOK'
  <2>1. CASE ConfirmBegin(t, c)
    BY <1>0, <2>1 DEF TypeOK, ConfirmBegin, LockPromotion, Start, GoTo, rows
  <2>2. CASE ReleaseBegin(t, c)
    BY <1>0, <2>2 DEF TypeOK, ReleaseBegin, LockPromotion, Start, GoTo, rows
  <2>3. CASE BindBegin(t, c)
    <3>1. Chosen[c] \subseteq Segments
      BY ChosenType
    <3> QED
      BY <1>0, <2>3, <3>1 DEF TypeOK, BindBegin, Start, GoTo, rows
  <2> QED
    BY <1>3, <2>1, <2>2, <2>3
<1>4. ASSUME NEW t \in Sessions, Replay(t) \/ Rollback(t)
      PROVE  TypeOK'
  <2>1. CASE Rollback(t)
    BY <1>0, <1>2, <2>1 DEF TypeOK, Rollback, rows
  <2>2. CASE Replay(t)
    <3>1. of[t] \in Confirmations
      BY <2>2 DEF IInv, SessionsOK, SessionOK, Replay
    <3>2. status' \in [Confirmations -> [Segments -> {"open", "stopped", "reopened"}]]
      BY <1>0, <2>2, <3>1, ApproveFacts DEF Replay
    <3> QED
      BY <1>0, <1>2, <2>2, <3>2 DEF TypeOK, Replay
  <2> QED
    BY <1>4, <2>1, <2>2
<1>5. ASSUME NEW t \in Sessions, ConfirmSources(t) \/ ConfirmSegments(t) \/ ConfirmContext(t)
      PROVE  TypeOK'
  <2>1. CASE ConfirmSources(t)
    BY <1>0, <2>1 DEF TypeOK, ConfirmSources, GoTo, rows
  <2>2. CASE ConfirmSegments(t)
    BY <1>0, <2>2 DEF TypeOK, ConfirmSegments, GoTo, rows
  <2>3. CASE ConfirmContext(t)
    BY <1>0, <2>3 DEF TypeOK, ConfirmContext, ReadRevision, GoTo, rows
  <2> QED
    BY <1>5, <2>1, <2>2, <2>3
<1>6. ASSUME NEW t \in Sessions, ConfirmWinners(t)
      PROVE  TypeOK'
  <2>1. of[t] \in Confirmations
    BY <1>6 DEF IInv, SessionsOK, SessionOK, ConfirmWinners
  <2>2. [u \in Users |-> Winner(of[t], u)] \in Allotment
    BY <2>1, WinnerType, ChosenType DEF Allotment
  <2> QED
    BY <1>0, <1>6, <2>2 DEF TypeOK, ConfirmWinners, GoTo, rows
<1>7. ASSUME NEW t \in Sessions, ConfirmReserve(t)
      PROVE  TypeOK'
  <2> DEFINE c == of[t]
             p == revision + 1
  <2>1. /\ c \in Confirmations /\ p \in Plan /\ revision' = p
        /\ won[t] \in Allotment
    BY <1>0, <1>7, ReserveFacts DEF TypeOK
  <2>2. plans' \in [Plan -> PlanRow]
    BY <1>0, <1>7, <2>1 DEF TypeOK, ConfirmReserve, PlanRow
  <2>3. target' \in [Confirmations -> [Segments -> Target]]
    BY <1>0, <1>7, <2>1 DEF TypeOK, ConfirmReserve, Target, Plan
  <2>4. member' \in [Users -> Member]
    BY <1>0, <1>7, <2>1 DEF TypeOK, ConfirmReserve, Member, Plan, Allotment
  <2>5. revision' \in 0 .. MaxRevision /\ UNCHANGED <<bound, ended>> /\ End(t)
    BY <1>7, <2>1 DEF ConfirmReserve, Plan
  <2>6. status' \in [Confirmations -> [Segments -> {"open", "stopped", "reopened"}]]
    BY <1>0, <1>7, <2>1, ApproveFacts DEF ConfirmReserve
  <2> QED
    BY <1>0, <1>2, <2>2, <2>3, <2>4, <2>5, <2>6 DEF TypeOK
<1>8. ASSUME NEW t \in Sessions, ReleaseLook(t)
      PROVE  TypeOK'
  BY <1>0, <1>8 DEF TypeOK, ReleaseLook, NoneConsumed, GoTo, rows
<1>9. ASSUME NEW t \in Sessions, ReleaseRow(t) \/ ReleaseContext(t) \/ BindRows(t)
      PROVE  TypeOK'
  <2>1. CASE ReleaseRow(t)
    BY <1>0, <2>1 DEF TypeOK, ReleaseRow, LockRow, GoTo, rows
  <2>2. CASE ReleaseContext(t)
    BY <1>0, <2>2 DEF TypeOK, ReleaseContext, ReadRevision, GoTo, rows
  <2>3. CASE BindRows(t)
    BY <1>0, <2>3 DEF TypeOK, BindRows, LockRow, GoTo, rows
  <2> QED
    BY <1>9, <2>1, <2>2, <2>3
<1>10. ASSUME NEW t \in Sessions, ReleaseCommit(t)
       PROVE  TypeOK'
  <2> DEFINE c == of[t]
             p == PlanOf(t)
  <2>1. c \in Confirmations /\ p \in Plan /\ revision' \in Plan
    BY <1>10, ReleaseFacts
  <2>2. plans' \in [Plan -> PlanRow]
    <3>1. [plans[p] EXCEPT !.status = "released"] \in PlanRow
      BY <1>0, <2>1, StatusType DEF TypeOK
    <3> QED
      BY <1>0, <1>10, <2>1, <3>1 DEF TypeOK, ReleaseCommit
  <2>3. target' \in [Confirmations -> [Segments -> Target]]
    BY <1>0, <1>10, <2>1 DEF TypeOK, ReleaseCommit, Target, Plan
  <2>4. member' \in [Users -> Member]
    BY <1>0, <1>10, <2>1, MovedType DEF TypeOK, ReleaseCommit
  <2>5. revision' \in 0 .. MaxRevision /\ UNCHANGED <<bound, ended, status>> /\ End(t)
    BY <1>10, <2>1 DEF ReleaseCommit, Plan
  <2> QED
    BY <1>0, <1>2, <2>2, <2>3, <2>4, <2>5 DEF TypeOK
<1>11. ASSUME NEW t \in Sessions, BindCommit(t)
       PROVE  TypeOK'
  <2> DEFINE c == of[t]
             p == PlanOf(t)
  <2>1. c \in Confirmations /\ p \in Plan /\ revision' \in Plan
    BY <1>11, BindFacts
  <2>2. plans' \in [Plan -> PlanRow]
    <3>1. [plans[p] EXCEPT !.status = "locked"] \in PlanRow
      BY <1>0, <2>1, StatusType DEF TypeOK
    <3> QED
      BY <1>0, <1>11, <2>1, <3>1 DEF TypeOK, BindCommit
  <2>3. target' \in [Confirmations -> [Segments -> Target]]
    BY <1>0, <1>11, <2>1 DEF TypeOK, BindCommit, Target, Plan
  <2>4. member' \in [Users -> Member]
    BY <1>0, <1>11, <2>1, MovedType DEF TypeOK, BindCommit
  <2>5. bound' \in [Confirmations -> [Segments -> 0 .. MaxRevision]]
    BY <1>0, <1>11, <2>1 DEF TypeOK, BindCommit, Plan
  <2>6. revision' \in 0 .. MaxRevision /\ UNCHANGED <<ended, status>> /\ End(t)
    BY <1>11, <2>1 DEF BindCommit, Plan
  <2> QED
    BY <1>0, <1>2, <2>2, <2>3, <2>4, <2>5, <2>6 DEF TypeOK
<1>12. ASSUME NEW r \in Plan, EndRun(r)
       PROVE  TypeOK'
  BY <1>0, <1>12 DEF TypeOK, EndRun, local
<1>13. ASSUME NEW c \in Confirmations, NEW s \in Segments, StopTarget(c, s)
       PROVE  TypeOK'
  <2>1. status' \in [Confirmations -> [Segments -> {"open", "stopped", "reopened"}]]
    BY <1>0, <1>13, StopFacts
  <2> QED
    BY <1>0, <1>13, <2>1 DEF TypeOK, StopTarget, local
<1> QED
  BY <1>1, <1>3, <1>4, <1>5, <1>6, <1>7, <1>8, <1>9, <1>10, <1>11, <1>12, <1>13
     DEF Next

-----------------------------------------------------------------------------
(* A confirmation takes no user from a plan that still holds it.            *)
LEMMA HeldIsNotTakeable ==
  ASSUME IInv, NEW q \in Plan, NEW u \in Users,
         plans[q].won[u] # None, Holds(q, plans[q].won[u])
  PROVE  ~Takeable(u)
<1> DEFINE s == plans[q].won[u]
<1>1. /\ member[u].plan = q /\ member[u].segment = s
      /\ member[u].state \in {"reserved", "consumed"}
  BY DEF IInv, RowsOK, PlanKeepsUsers
<1>2. MemberTargetActive(u)
  BY <1>1 DEF MemberTargetActive, Holds
<1> QED
  BY <1>1, <1>2 DEF Takeable

LEMMA ReserveRows ==
  ASSUME IInv, NEW t \in Sessions, ConfirmReserve(t)
  PROVE  RowsOK'
<1> DEFINE c == of[t]
           p == revision + 1
           winners == {u \in Users : won[t][u] # None}
<1>0. TypeOK /\ RowsOK
  BY DEF IInv
<1>1. /\ c \in Confirmations /\ p \in Plan /\ revision' = p
      /\ Chosen[c] # {} /\ Chosen[c] \subseteq Segments
      /\ plans[p] = NoPlan
      /\ \A u \in Users : won[t][u] \in Chosen[c] \cup {None}
      /\ \A q \in Plan : Live(q) =>
           plans[q].of # c /\ Sources(plans[q].of) \cap Sources(c) = {}
      /\ \A s \in Segments : bound[c][s] = 0
      /\ \/ \A s \in Chosen[c] : target[c][s] = NoTarget
         \/ \A s \in Chosen[c] : target[c][s].plan # 0
  BY ReserveFacts
<1>2. /\ plans'[p] = [of |-> c, won |-> won[t], status |-> "finalized"]
      /\ \A q \in Plan \ {p} : plans'[q] = plans[q]
  BY <1>0, <1>1 DEF ConfirmReserve, TypeOK
<1>3. /\ \A d \in Confirmations \ {c} : target'[d] = target[d]
      /\ \A s \in Segments : target'[c][s] =
           IF s \in Chosen[c] /\ target[c][s] = NoTarget
           THEN [plan |-> p, state |-> "reserved"] ELSE target[c][s]
  BY <1>0, <1>1 DEF ConfirmReserve, TypeOK
<1>4. /\ UNCHANGED <<bound, ended>>
      /\ \A u \in Users : won[t][u] # None =>
           /\ Takeable(u)
           /\ member'[u].plan = p /\ member'[u].segment = won[t][u]
           /\ member'[u].state = "reserved"
      /\ \A u \in Users \ winners : member'[u] = member[u]
  BY DEF ConfirmReserve
<1>5. revision \in Nat /\ p # 0 /\ ~(p <= revision) /\ \A n \in Nat : n <= revision => n <= p
  BY <1>0, AllocationAssumption DEF TypeOK
<1>6. \A d \in Confirmations, s \in Segments : target[d][s].plan # 0 =>
        /\ s \in Chosen[d]
        /\ target[d][s].plan \in Plan \ {p} /\ target[d][s].plan <= revision
        /\ plans[target[d][s].plan].of = d
  BY <1>0, <1>5, AllocationAssumption DEF TypeOK, Target, Plan, RowsOK, TargetsOK, NoTarget
<1>7. \A u \in Users : member[u].plan # 0 =>
        member[u].plan \in Plan \ {p} /\ member[u].segment \in Segments
  BY <1>0, <1>1, AllocationAssumption
     DEF TypeOK, Member, Plan, RowsOK, MembersOK, NoPlan
<1>8. TargetsOK'
  <2>1. ASSUME NEW d \in Confirmations \ {c}
        PROVE  /\ \A s \in Segments \ Chosen[d] : target'[d][s] = NoTarget
               /\ \A s, r \in Chosen[d] : target'[d][r].plan = target'[d][s].plan
               /\ \A s \in Chosen[d] :
                    /\ target'[d][s].plan = 0 <=> target'[d][s].state = "none"
                    /\ target'[d][s].plan # 0 => /\ target'[d][s].plan <= revision'
                                                 /\ plans'[target'[d][s].plan].of = d
    <3>1. Chosen[d] \subseteq Segments
      BY ChosenType
    <3>2. \A s \in Chosen[d] : target[d][s].plan # 0 =>
            target[d][s].plan <= p /\ plans'[target[d][s].plan].of = d
      BY <1>2, <1>5, <1>6, <3>1 DEF Plan
    <3> QED
      BY <1>0, <1>1, <1>3, <3>2 DEF RowsOK, TargetsOK
  <2>2. /\ \A s \in Segments \ Chosen[c] : target'[c][s] = NoTarget
        /\ \A s, r \in Chosen[c] : target'[c][r].plan = target'[c][s].plan
        /\ \A s \in Chosen[c] :
             /\ target'[c][s].plan = 0 <=> target'[c][s].state = "none"
             /\ target'[c][s].plan # 0 => /\ target'[c][s].plan <= revision'
                                          /\ plans'[target'[c][s].plan].of = c
    <3>1. CASE \A s \in Chosen[c] : target[c][s] = NoTarget
      <4>1. \A s \in Chosen[c] : target'[c][s] = [plan |-> p, state |-> "reserved"]
        BY <1>1, <1>3, <3>1
      <4> QED
        BY <1>0, <1>1, <1>2, <1>3, <1>5, <4>1 DEF RowsOK, TargetsOK
    <3>2. CASE \A s \in Chosen[c] : target[c][s].plan # 0
      <4>1. \A s \in Segments : target'[c][s] = target[c][s]
        BY <1>3, <3>2 DEF NoTarget
      <4>2. \A s \in Chosen[c] :
              target[c][s].plan <= p /\ plans'[target[c][s].plan].of = c
        BY <1>1, <1>2, <1>5, <1>6, <3>2 DEF Plan
      <4> QED
        BY <1>0, <1>1, <4>1, <4>2 DEF RowsOK, TargetsOK
    <3> QED
      BY <1>1, <3>1, <3>2
  <2> QED
    BY <2>1, <2>2 DEF TargetsOK
<1>9. PlansOK'
  BY <1>0, <1>1, <1>2, <1>5 DEF RowsOK, PlansOK, Plan
<1>10. BoundOK'
  <2>1. \A d \in Confirmations, s \in Segments : bound[d][s] # 0 =>
          d # c /\ target'[d][s] = target[d][s]
    BY <1>1, <1>3
  <2>2. \A r \in ended : r <= revision'
    BY <1>0, <1>1, <1>5, AllocationAssumption DEF TypeOK, Plan, RowsOK, BoundOK
  <2>3. \A d \in Confirmations, s \in Segments :
          bound[d][s] # 0 => bound[d][s] <= revision'
    BY <1>0, <1>1, <1>5, AllocationAssumption DEF TypeOK, RowsOK, BoundOK
  <2>4. \A d \in Confirmations, s \in Segments : bound[d][s] # 0 =>
          /\ s \in Chosen[d] /\ target[d][s].plan # 0
          /\ target[d][s].state = "consumed"
          /\ plans'[target[d][s].plan].status = "locked"
    BY <1>0, <1>2, <1>6 DEF RowsOK, BoundOK, ReleaseSparesRuns
  <2> QED
    BY <1>4, <2>1, <2>2, <2>3, <2>4 DEF BoundOK, ReleaseSparesRuns
<1>11. MembersOK'
  <2>1. SUFFICES ASSUME NEW u \in Users
                 PROVE  LET q == member'[u].plan
                            s == member'[u].segment
                        IN  /\ q = 0 => member'[u] = NoMember
                            /\ q # 0 =>
                                 /\ plans'[q].status # "none"
                                 /\ s # None /\ plans'[q].won[u] = s
                                 /\ member'[u].state # "none"
    BY DEF MembersOK
  <2>2. CASE u \in winners
    <3>1. /\ member'[u].plan = p /\ member'[u].segment = won[t][u]
          /\ member'[u].state = "reserved"
      BY <1>4, <2>2
    <3>2. won[t][u] \in Segments /\ won[t][u] # None
      BY <1>1, <2>2
    <3>3. plans'[p].won = won[t] /\ plans'[p].status = "finalized"
      BY <1>2
    <3> QED
      BY <1>5, <3>1, <3>2, <3>3
  <2>3. CASE u \notin winners
    <3>1. member'[u] = member[u]
      BY <1>4, <2>3
    <3>2. CASE member[u].plan = 0
      BY <1>0, <3>1, <3>2 DEF RowsOK, MembersOK
    <3>3. CASE member[u].plan # 0
      <4>1. plans'[member[u].plan] = plans[member[u].plan]
        BY <1>2, <1>7, <3>3
      <4> QED
        BY <1>0, <3>1, <3>3, <4>1 DEF RowsOK, MembersOK
    <3> QED
      BY <3>2, <3>3
  <2> QED
    BY <2>2, <2>3
<1>12. Restopped
  BY <1>0, <1>1, ApproveFacts DEF ConfirmReserve, RowsOK
<1>13. StatusOK'
  <2>1. \A d \in Confirmations, s \in Segments :
          target'[d][s].plan = 0 => target[d][s].plan = 0
    BY <1>3, <1>5 DEF NoTarget
  <2> QED
    BY <1>0, <1>12, <2>1 DEF RowsOK, StatusOK, Restopped
<1>14. PlanKeepsUsers'
  <2>1. SUFFICES ASSUME NEW q \in Plan, NEW u \in Users,
                        plans'[q].won[u] # None, Holds(q, plans[q].won[u])'
                 PROVE  /\ member'[u].plan = q /\ member'[u].segment = plans'[q].won[u]
                        /\ member'[u].state =
                             IF bound'[plans'[q].of][plans'[q].won[u]] = 0
                             THEN "reserved" ELSE "consumed"
    BY DEF PlanKeepsUsers
  <2>2. CASE q = p
    <3>1. plans'[q].of = c /\ plans'[q].won[u] = won[t][u]
      BY <1>2, <2>2
    <3>2. u \in winners /\ won[t][u] \in Segments
      BY <1>1, <2>1, <3>1
    <3>3. bound'[c][won[t][u]] = 0
      BY <1>1, <1>4, <3>2
    <3>4. /\ member'[u].plan = p /\ member'[u].segment = won[t][u]
          /\ member'[u].state = "reserved"
      BY <1>4, <3>2
    <3> QED
      BY <2>2, <3>1, <3>3, <3>4
  <2>3. CASE q # p
    <3>1. plans'[q] = plans[q] /\ Live(q)
      BY <1>2, <2>1, <2>3 DEF Holds, Live
    <3>2. Holds(q, plans[q].won[u])
      BY <1>0, <1>4, <1>12, <2>1, <3>1, HeldBefore
    <3>3. member'[u] = member[u]
      BY <1>4, <2>1, <3>1, <3>2, HeldIsNotTakeable
    <3> QED
      BY <1>0, <1>4, <2>1, <3>1, <3>2, <3>3 DEF RowsOK, PlanKeepsUsers
  <2> QED
    BY <2>2, <2>3
<1>15. SourceConfirmedOnce'
  BY <1>0, <1>1, <1>2 DEF RowsOK, SourceConfirmedOnce, Live, Sources
<1> QED
  BY <1>8, <1>9, <1>10, <1>11, <1>14, <1>15, <1>13 DEF RowsOK

LEMMA ReleaseRows ==
  ASSUME IInv, NEW t \in Sessions, ReleaseCommit(t)
  PROVE  RowsOK'
<1> DEFINE c == of[t]
           p == PlanOf(t)
<1>0. TypeOK /\ RowsOK
  BY DEF IInv
<1>1. /\ c \in Confirmations
      /\ Chosen[c] \subseteq Segments
      /\ p \in Plan /\ plans[p].of = c
      /\ plans[p].status \in {"finalized", "released"}
      /\ \A s \in Chosen[c] : target[c][s].plan = p /\ bound[c][s] = 0
      /\ \A s \in Segments \ Chosen[c] : target[c][s].plan # p
      /\ revision' = revision + 1 /\ revision' \in Plan
  BY ReleaseFacts
<1>2. /\ plans'[p].of = c /\ plans'[p].won = plans[p].won
      /\ plans'[p].status = "released"
      /\ \A q \in Plan \ {p} : plans'[q] = plans[q]
  BY <1>0, <1>1 DEF ReleaseCommit, TypeOK, PlanRow
<1>3. /\ \A d \in Confirmations \ {c} : target'[d] = target[d]
      /\ \A s \in Chosen[c] : target'[c][s] = [plan |-> p, state |-> "released"]
      /\ \A s \in Segments \ Chosen[c] : target'[c][s] = target[c][s]
  BY <1>0, <1>1 DEF ReleaseCommit, TypeOK
<1>4. /\ UNCHANGED <<bound, ended, status>>
      /\ \A u \in Users : \/ member'[u] = member[u]
                          \/ /\ member[u].plan = p /\ member[u].state = "reserved"
                             /\ member'[u].plan = p
                             /\ member'[u].segment = member[u].segment
                             /\ member'[u].state = "released"
  BY <1>0, <1>1, MovedType DEF ReleaseCommit
<1>5. revision \in Nat /\ p # 0 /\ \A n \in Nat : n <= revision => n <= revision'
  BY <1>0, <1>1, AllocationAssumption DEF TypeOK, Plan
<1>6. \A d \in Confirmations, s \in Segments : target'[d][s].plan = target[d][s].plan
  BY <1>1, <1>3
<1>7. \A d \in Confirmations, s \in Segments : target[d][s].plan # 0 =>
        /\ target[d][s].plan \in Plan /\ target[d][s].plan <= revision
        /\ s \in Chosen[d] /\ plans'[target[d][s].plan].of = d
  <2>1. \A q \in Plan : plans'[q].of = plans[q].of
    BY <1>1, <1>2
  <2>2. ASSUME NEW d \in Confirmations, NEW s \in Segments, target[d][s].plan # 0
        PROVE  /\ target[d][s].plan \in Plan /\ target[d][s].plan <= revision
               /\ s \in Chosen[d] /\ plans[target[d][s].plan].of = d
    <3>1. s \in Chosen[d]
      BY <1>0, <2>2 DEF RowsOK, TargetsOK, NoTarget
    <3>2. target[d][s].plan \in Plan
      BY <1>0, <2>2, AllocationAssumption DEF TypeOK, Target, Plan
    <3> QED
      BY <1>0, <2>2, <3>1, <3>2 DEF RowsOK, TargetsOK
  <2> QED
    BY <2>1, <2>2
<1>8. TargetsOK'
  <2>1. \A d \in Confirmations, s \in Segments : target[d][s].plan # 0 =>
          target[d][s].plan <= revision' /\ plans'[target[d][s].plan].of = d
    BY <1>5, <1>7 DEF Plan
  <2>2. \A d \in Confirmations : Chosen[d] \subseteq Segments
    BY ChosenType
  <2>3. \A d \in Confirmations : \A s \in Segments \ Chosen[d] : target'[d][s] = NoTarget
    BY <1>0, <1>3 DEF RowsOK, TargetsOK
  <2>4. \A d \in Confirmations : \A s \in Chosen[d] :
          target'[d][s].plan = 0 <=> target'[d][s].state = "none"
    BY <1>0, <1>3, <1>5 DEF RowsOK, TargetsOK
  <2>5. \A d \in Confirmations : \A s, r \in Chosen[d] :
          target'[d][r].plan = target'[d][s].plan
    BY <1>0, <1>6, <2>2 DEF RowsOK, TargetsOK
  <2> QED
    BY <1>6, <2>1, <2>2, <2>3, <2>4, <2>5 DEF TargetsOK
<1>9. PlansOK'
  <2>1. ASSUME NEW q \in Plan
        PROVE  /\ plans'[q].status = "none" => plans'[q] = NoPlan
               /\ plans'[q].status # "none" =>
                    /\ q <= revision'
                    /\ plans'[q].of \in Confirmations
                    /\ \A u \in Users : plans'[q].won[u] \in Chosen[plans'[q].of] \cup {None}
    <3>1. CASE q = p
      BY <1>0, <1>1, <1>2, <1>5, <3>1 DEF RowsOK, PlansOK, Plan
    <3>2. CASE q # p
      BY <1>0, <1>2, <1>5, <3>2 DEF RowsOK, PlansOK, Plan
    <3> QED
      BY <3>1, <3>2
  <2> QED
    BY <2>1 DEF PlansOK
<1>10. BoundOK'
  <2>1. \A d \in Confirmations, s \in Segments : bound[d][s] # 0 =>
          d # c /\ target'[d][s] = target[d][s]
    BY <1>0, <1>1, <1>3 DEF RowsOK, BoundOK
  <2>2. \A r \in ended : r <= revision'
    BY <1>0, <1>5, AllocationAssumption DEF TypeOK, Plan, RowsOK, BoundOK
  <2>3. \A d \in Confirmations, s \in Segments :
          bound[d][s] # 0 => bound[d][s] <= revision'
    BY <1>0, <1>5, AllocationAssumption DEF TypeOK, RowsOK, BoundOK
  <2>4. \A d \in Confirmations, s \in Segments : bound[d][s] # 0 =>
          /\ s \in Chosen[d] /\ target[d][s].plan # 0
          /\ target[d][s].state = "consumed"
          /\ plans'[target[d][s].plan].status = "locked"
    <3>1. \A q \in Plan : plans[q].status = "locked" => plans'[q].status = "locked"
      BY <1>1, <1>2
    <3> QED
      BY <1>0, <1>7, <3>1 DEF RowsOK, BoundOK, ReleaseSparesRuns
  <2> QED
    BY <1>4, <2>1, <2>2, <2>3, <2>4 DEF BoundOK, ReleaseSparesRuns
<1>11. MembersOK'
  <2>1. SUFFICES ASSUME NEW u \in Users
                 PROVE  LET q == member'[u].plan
                            s == member'[u].segment
                        IN  /\ q = 0 => member'[u] = NoMember
                            /\ q # 0 =>
                                 /\ plans'[q].status # "none"
                                 /\ s # None /\ plans'[q].won[u] = s
                                 /\ member'[u].state # "none"
    BY DEF MembersOK
  <2>2. member'[u].plan = member[u].plan /\ member'[u].segment = member[u].segment
    BY <1>4
  <2>3. CASE member[u].plan = 0
    BY <1>0, <1>4, <1>5, <2>2, <2>3 DEF RowsOK, MembersOK
  <2>4. CASE member[u].plan # 0
    <3> DEFINE q == member[u].plan
               s == member[u].segment
    <3>1. /\ q \in Plan /\ s # None /\ member[u].state # "none"
          /\ plans[q].status # "none" /\ plans[q].won[u] = s
      BY <1>0, <2>4, AllocationAssumption DEF TypeOK, Member, Plan, RowsOK, MembersOK
    <3>2. plans'[q].won = plans[q].won /\ plans'[q].status # "none"
      BY <1>1, <1>2, <3>1
    <3>3. member'[u].state # "none"
      BY <1>4, <3>1
    <3> QED
      BY <2>2, <2>4, <3>1, <3>2, <3>3
  <2> QED
    BY <2>3, <2>4
<1>12. PlanKeepsUsers'
  <2>1. SUFFICES ASSUME NEW q \in Plan, NEW u \in Users,
                        plans'[q].won[u] # None, Holds(q, plans[q].won[u])'
                 PROVE  /\ member'[u].plan = q /\ member'[u].segment = plans'[q].won[u]
                        /\ member'[u].state =
                             IF bound'[plans'[q].of][plans'[q].won[u]] = 0
                             THEN "reserved" ELSE "consumed"
    BY DEF PlanKeepsUsers
  <2>2. q # p
    BY <1>2, <2>1 DEF Holds, Live
  <2>3. plans'[q] = plans[q] /\ Holds(q, plans[q].won[u])
    BY <1>2, <1>4, <2>1, <2>2 DEF Holds, Live, TargetActive, Running
  <2>4. member[u].plan = q
    BY <1>0, <2>1, <2>3 DEF RowsOK, PlanKeepsUsers
  <2>5. member'[u] = member[u]
    BY <1>4, <2>2, <2>4
  <2> QED
    BY <1>0, <1>4, <2>1, <2>3, <2>5 DEF RowsOK, PlanKeepsUsers
<1>13. SourceConfirmedOnce'
  BY <1>0, <1>2 DEF RowsOK, SourceConfirmedOnce, Live, Sources
<1>14. StatusOK'
  BY <1>0, <1>4, <1>6 DEF RowsOK, StatusOK
<1> QED
  BY <1>8, <1>9, <1>10, <1>11, <1>12, <1>13, <1>14 DEF RowsOK

LEMMA BindRowsOK ==
  ASSUME IInv, NEW t \in Sessions, BindCommit(t)
  PROVE  RowsOK'
<1> DEFINE c == of[t]
           p == PlanOf(t)
<1>0. TypeOK /\ RowsOK
  BY DEF IInv
<1>1. /\ c \in Confirmations
      /\ scope[t] # {} /\ scope[t] \subseteq Chosen[c]
      /\ Chosen[c] \subseteq Segments
      /\ p \in Plan /\ plans[p].of = c /\ Live(p)
      /\ \A s \in Chosen[c] : target[c][s].plan = p
      /\ \A s \in scope[t] : bound[c][s] = 0
      /\ \A q \in Plan : q # p /\ Live(q) => plans[q].of # c
      /\ revision' = revision + 1 /\ revision' \in Plan
  BY BindFacts
<1>2. /\ plans'[p].of = c /\ plans'[p].won = plans[p].won
      /\ plans'[p].status = "locked"
      /\ \A q \in Plan \ {p} : plans'[q] = plans[q]
  BY <1>0, <1>1 DEF BindCommit, TypeOK, PlanRow
<1>3. /\ \A d \in Confirmations \ {c} : target'[d] = target[d] /\ bound'[d] = bound[d]
      /\ \A s \in scope[t] : /\ target'[c][s] = [plan |-> p, state |-> "consumed"]
                             /\ bound'[c][s] = revision'
      /\ \A s \in Segments \ scope[t] : /\ target'[c][s] = target[c][s]
                                        /\ bound'[c][s] = bound[c][s]
  BY <1>0, <1>1 DEF BindCommit, TypeOK
<1>4. /\ UNCHANGED <<ended, status>>
      /\ \A u \in Users : \/ member'[u] = member[u]
                          \/ /\ member[u].plan = p /\ member[u].segment \in scope[t]
                             /\ member'[u].plan = p
                             /\ member'[u].segment = member[u].segment
                             /\ member'[u].state = "consumed"
      /\ \A u \in Users : /\ member[u].plan = p /\ member[u].segment \in scope[t]
                          /\ member[u].state = "reserved"
                          => member'[u].state = "consumed"
  BY <1>0, <1>1, MovedType DEF BindCommit
<1>5. /\ revision \in Nat /\ p # 0 /\ revision' # 0
      /\ \A n \in Nat : n <= revision => n <= revision'
  BY <1>0, <1>1, AllocationAssumption DEF TypeOK, Plan
<1>6. \A d \in Confirmations, s \in Segments : target'[d][s].plan = target[d][s].plan
  BY <1>1, <1>3
<1>7. \A q \in Plan : /\ plans'[q].of = plans[q].of /\ plans'[q].won = plans[q].won
                      /\ plans[q].status # "none" <=> plans'[q].status # "none"
                      /\ plans[q].status = "locked" => plans'[q].status = "locked"
                      /\ Live(q) <=> Live(q)'
  BY <1>1, <1>2 DEF Live
<1>8. \A d \in Confirmations, s \in Segments : target[d][s].plan # 0 =>
        /\ target[d][s].plan \in Plan /\ target[d][s].plan <= revision'
        /\ s \in Chosen[d] /\ plans[target[d][s].plan].of = d
  <2>1. SUFFICES ASSUME NEW d \in Confirmations, NEW s \in Segments, target[d][s].plan # 0
                 PROVE  /\ target[d][s].plan \in Plan /\ target[d][s].plan <= revision'
                        /\ s \in Chosen[d] /\ plans[target[d][s].plan].of = d
    OBVIOUS
  <2>2. s \in Chosen[d]
    BY <1>0, <2>1 DEF RowsOK, TargetsOK, NoTarget
  <2>3. target[d][s].plan \in Plan
    BY <1>0, <2>1, AllocationAssumption DEF TypeOK, Target, Plan
  <2> QED
    BY <1>0, <1>5, <2>1, <2>2, <2>3 DEF RowsOK, TargetsOK, Plan
<1>9. TargetsOK'
  <2>1. \A d \in Confirmations : Chosen[d] \subseteq Segments
    BY ChosenType
  <2>2. \A d \in Confirmations : \A s \in Segments \ Chosen[d] : target'[d][s] = NoTarget
    BY <1>0, <1>1, <1>3 DEF RowsOK, TargetsOK
  <2>3. \A d \in Confirmations : \A s \in Chosen[d] :
          target'[d][s].plan = 0 <=> target'[d][s].state = "none"
    BY <1>0, <1>3, <1>5, <2>1 DEF RowsOK, TargetsOK
  <2>4. \A d \in Confirmations : \A s, r \in Chosen[d] :
          target'[d][r].plan = target'[d][s].plan
    BY <1>0, <1>6, <2>1 DEF RowsOK, TargetsOK
  <2> QED
    BY <1>6, <1>7, <1>8, <2>1, <2>2, <2>3, <2>4 DEF TargetsOK
<1>10. PlansOK'
  <2>1. ASSUME NEW q \in Plan
        PROVE  /\ plans'[q].status = "none" => plans'[q] = NoPlan
               /\ plans'[q].status # "none" =>
                    /\ q <= revision'
                    /\ plans'[q].of \in Confirmations
                    /\ \A u \in Users : plans'[q].won[u] \in Chosen[plans'[q].of] \cup {None}
    <3>1. CASE q = p
      <4>1. plans[p].status # "none"
        BY <1>1 DEF Live
      <4> QED
        BY <1>0, <1>1, <1>2, <1>5, <3>1, <4>1 DEF RowsOK, PlansOK, Plan
    <3>2. CASE q # p
      BY <1>0, <1>2, <1>5, <3>2 DEF RowsOK, PlansOK, Plan
    <3> QED
      BY <3>1, <3>2
  <2> QED
    BY <2>1 DEF PlansOK
<1>11. BoundOK'
  <2>1. \A r \in ended' : r <= revision'
    BY <1>0, <1>4, <1>5, AllocationAssumption DEF TypeOK, Plan, RowsOK, BoundOK
  <2>2. ASSUME NEW d \in Confirmations, NEW s \in Segments, bound'[d][s] # 0
        PROVE  /\ s \in Chosen[d]
               /\ bound'[d][s] <= revision'
               /\ target'[d][s].plan # 0
               /\ target'[d][s].state = "consumed"
               /\ plans'[target'[d][s].plan].status = "locked"
    <3>1. CASE d = c /\ s \in scope[t]
      BY <1>0, <1>1, <1>2, <1>3, <1>5, <3>1
    <3>2. CASE ~(d = c /\ s \in scope[t])
      <4>1. bound'[d][s] = bound[d][s] /\ target'[d][s] = target[d][s]
        BY <1>3, <3>2
      <4>2. bound[d][s] \in Nat
        BY <1>0, AllocationAssumption DEF TypeOK
      <4>3. /\ s \in Chosen[d] /\ bound[d][s] <= revision
            /\ target[d][s].plan # 0 /\ target[d][s].state = "consumed"
            /\ plans[target[d][s].plan].status = "locked"
        BY <1>0, <2>2, <4>1 DEF RowsOK, BoundOK, ReleaseSparesRuns
      <4> QED
        BY <1>5, <1>7, <1>8, <4>1, <4>2, <4>3
    <3> QED
      BY <3>1, <3>2
  <2> QED
    BY <2>1, <2>2 DEF BoundOK, ReleaseSparesRuns
<1>12. MembersOK'
  <2>1. SUFFICES ASSUME NEW u \in Users
                 PROVE  LET q == member'[u].plan
                            s == member'[u].segment
                        IN  /\ q = 0 => member'[u] = NoMember
                            /\ q # 0 =>
                                 /\ plans'[q].status # "none"
                                 /\ s # None /\ plans'[q].won[u] = s
                                 /\ member'[u].state # "none"
    BY DEF MembersOK
  <2>2. member'[u].plan = member[u].plan /\ member'[u].segment = member[u].segment
    BY <1>4
  <2>3. CASE member[u].plan = 0
    BY <1>0, <1>4, <1>5, <2>2, <2>3 DEF RowsOK, MembersOK
  <2>4. CASE member[u].plan # 0
    <3> DEFINE q == member[u].plan
               s == member[u].segment
    <3>1. /\ q \in Plan /\ s # None /\ member[u].state # "none"
          /\ plans[q].status # "none" /\ plans[q].won[u] = s
      BY <1>0, <2>4, AllocationAssumption DEF TypeOK, Member, Plan, RowsOK, MembersOK
    <3>2. plans'[q].won = plans[q].won /\ plans'[q].status # "none"
      BY <1>7, <3>1
    <3>3. member'[u].state # "none"
      BY <1>4, <3>1
    <3> QED
      BY <2>2, <2>4, <3>1, <3>2, <3>3
  <2> QED
    BY <2>3, <2>4
<1>13. PlanKeepsUsers'
  <2>1. SUFFICES ASSUME NEW q \in Plan, NEW u \in Users,
                        plans'[q].won[u] # None, Holds(q, plans[q].won[u])'
                 PROVE  /\ member'[u].plan = q /\ member'[u].segment = plans'[q].won[u]
                        /\ member'[u].state =
                             IF bound'[plans'[q].of][plans'[q].won[u]] = 0
                             THEN "reserved" ELSE "consumed"
    BY <1>7 DEF PlanKeepsUsers
  <2> DEFINE s == plans[q].won[u]
             d == plans[q].of
  <2>2. /\ plans'[q].won[u] = s /\ plans'[q].of = d /\ Live(q)
        /\ plans[q].status # "none" /\ d \in Confirmations
        /\ s \in Chosen[d] /\ s \in Segments
    <3>1. plans'[q].won[u] = s /\ plans'[q].of = d /\ Live(q) /\ s # None
      BY <1>7, <2>1 DEF Holds
    <3>2. plans[q].status # "none"
      BY <3>1 DEF Live
    <3>3. d \in Confirmations /\ s \in Chosen[d]
      BY <1>0, <3>1, <3>2 DEF RowsOK, PlansOK
    <3> QED
      BY <3>1, <3>2, <3>3, ChosenType
  <2>3. CASE q = p /\ s \in scope[t]
    <3>1. /\ member[u].plan = p /\ member[u].segment = s
          /\ member[u].state = "reserved"
      <4>1. bound[d][s] = 0 /\ status'[d][s] = "open" /\ status' = status
        BY <1>1, <1>4, <2>1, <2>2, <2>3 DEF Holds
      <4>2. Holds(p, s)
        BY <1>1, <2>3, <4>1 DEF Holds, TargetActive
      <4> QED
        BY <1>0, <2>1, <2>2, <2>3, <4>1, <4>2 DEF RowsOK, PlanKeepsUsers
    <3>2. /\ member'[u].plan = p /\ member'[u].segment = s
          /\ member'[u].state = "consumed"
      BY <1>4, <2>3, <3>1
    <3>3. bound'[d][s] # 0
      BY <1>1, <1>3, <1>5, <2>3
    <3> QED
      BY <2>2, <2>3, <3>2, <3>3
  <2>4. CASE ~(q = p /\ s \in scope[t])
    <3>1. bound'[d][s] = bound[d][s]
      <4>1. CASE q = p
        BY <1>1, <1>3, <2>2, <2>4, <4>1
      <4>2. CASE q # p
        BY <1>1, <1>3, <2>2, <4>2
      <4> QED
        BY <4>1, <4>2
    <3>2. Holds(q, s)
      BY <1>4, <2>1, <2>2, <3>1 DEF Holds, TargetActive, Running
    <3>3. /\ member[u].plan = q /\ member[u].segment = s
          /\ member[u].state = IF bound[d][s] = 0 THEN "reserved" ELSE "consumed"
      BY <1>0, <2>1, <2>2, <3>2 DEF RowsOK, PlanKeepsUsers
    <3>4. member'[u] = member[u]
      BY <1>4, <2>4, <3>3
    <3> QED
      BY <2>2, <3>1, <3>3, <3>4
  <2> QED
    BY <2>3, <2>4
<1>14. SourceConfirmedOnce'
  <2>1. \A q, r \in Plan : q # r /\ Live(q) /\ Live(r) =>
          Sources(plans[q].of) \cap Sources(plans[r].of) = {}
    BY <1>0 DEF RowsOK, SourceConfirmedOnce
  <2>2. \A q \in Plan : Live(q)' => Live(q)
    BY <1>7
  <2> QED
    BY <1>7, <2>1, <2>2 DEF SourceConfirmedOnce, Sources
<1>15. StatusOK'
  BY <1>0, <1>4, <1>6 DEF RowsOK, StatusOK
<1> QED
  BY <1>9, <1>10, <1>11, <1>12, <1>13, <1>14, <1>15 DEF RowsOK

LEMMA EndRunRows ==
  ASSUME IInv, NEW r \in Plan, EndRun(r)
  PROVE  RowsOK'
<1>0. TypeOK /\ RowsOK
  BY DEF IInv
<1>1. /\ ended' = ended \cup {r}
      /\ UNCHANGED <<revision, member, target, plans, bound, status>>
      /\ \E c \in Confirmations, s \in Segments : bound[c][s] = r
  BY DEF EndRun
<1>2. r # 0
  BY AllocationAssumption DEF Plan
<1>3. r <= revision
  BY <1>0, <1>1, <1>2 DEF RowsOK, BoundOK
<1>4. TargetsOK' /\ PlansOK' /\ MembersOK' /\ SourceConfirmedOnce' /\ StatusOK'
  <2>1. TargetsOK'
    BY <1>0, <1>1 DEF RowsOK, TargetsOK
  <2>2. PlansOK'
    BY <1>0, <1>1 DEF RowsOK, PlansOK
  <2>3. MembersOK'
    BY <1>0, <1>1 DEF RowsOK, MembersOK
  <2>4. SourceConfirmedOnce'
    BY <1>0, <1>1 DEF RowsOK, SourceConfirmedOnce, Live, Sources
  <2>5. StatusOK'
    BY <1>0, <1>1 DEF RowsOK, StatusOK
  <2> QED
    BY <2>1, <2>2, <2>3, <2>4, <2>5
<1>5. BoundOK'
  BY <1>0, <1>1, <1>3 DEF RowsOK, BoundOK, ReleaseSparesRuns
<1>6. PlanKeepsUsers'
  <2>1. \A q \in Plan : \A s : Holds(q, s)' => Holds(q, s)
    BY <1>1 DEF Holds, Live, TargetActive, Running
  <2> QED
    BY <1>0, <1>1, <2>1 DEF RowsOK, PlanKeepsUsers
<1> QED
  BY <1>4, <1>5, <1>6 DEF RowsOK

-----------------------------------------------------------------------------
(* A session that has the rows of a plan while another session writes: the  *)
(* other one writes the plan q, and this one goes by another plan.          *)
LEMMA OtherPlan ==
  ASSUME TypeOK, TargetsOK, NEW d \in Confirmations, NEW s \in Chosen[d],
         target[d][s].plan # 0
  PROVE  /\ s \in Segments
         /\ target[d][s].plan \in Plan /\ target[d][s].plan <= revision
         /\ plans[target[d][s].plan].of = d
<1>1. s \in Segments
  BY ChosenType
<1>2. target[d][s].plan \in Plan
  BY <1>1, AllocationAssumption DEF TypeOK, Target, Plan
<1> QED
  BY <1>1, <1>2 DEF TargetsOK

LEMMA EndFrame ==
  ASSUME TypeOK, NEW t \in Sessions, End(t), NEW x \in Sessions, x # t
  PROVE  /\ pc'[x] = pc[x] /\ of'[x] = of[x] /\ scope'[x] = scope[x]
         /\ won'[x] = won[x]
         /\ advisory = x => advisory' = x
         /\ \A p \in Plan : rowLock[p] = x => rowLock'[p] = x
BY DEF End, GoTo, TypeOK

LEMMA ReserveSessions ==
  ASSUME IInv, NEW t \in Sessions, ConfirmReserve(t)
  PROVE  SessionsOK'
<1>0. TypeOK /\ RowsOK /\ TargetsOK /\ End(t)
  BY DEF IInv, RowsOK, ConfirmReserve
<1>1. SUFFICES ASSUME NEW x \in Sessions, x # t PROVE SessionOK(x)'
  BY <1>0, SessionDone DEF SessionsOK
<1> DEFINE c == of[t]
           p == revision + 1
           d == of[x]
<1>2. /\ c \in Confirmations /\ p \in Plan /\ revision' = p /\ advisory = t
  BY ReserveFacts
<1>3. SessionOK(x)
  BY DEF IInv, SessionsOK
<1>4. /\ pc'[x] = pc[x] /\ of'[x] = d /\ scope'[x] = scope[x]
      /\ \A q \in Plan : rowLock[q] = x => rowLock'[q] = x
  BY <1>0, <1>1, EndFrame
<1>5. pc[x] \in {"idle", "bind", "consume"}
  BY <1>0, <1>1, <1>2, <1>3 DEF SessionOK, Confirming, Releasing, TypeOK
<1>6. \A e \in Confirmations, s \in Segments :
        target[e][s].plan # 0 => target'[e][s] = target[e][s]
  BY <1>0, <1>2 DEF ConfirmReserve, TypeOK, NoTarget
<1>7. \A q \in Plan : q <= revision => plans'[q] = plans[q]
  BY <1>0, <1>2, AllocationAssumption DEF ConfirmReserve, TypeOK
<1>8. ASSUME pc[x] # "idle"
      PROVE  /\ d \in Confirmations
             /\ scope[x] # {} /\ scope[x] \subseteq Chosen[d]
             /\ \A s \in Chosen[d] : /\ target[d][s].plan # 0
                                     /\ target'[d][s] = target[d][s]
  BY <1>3, <1>5, <1>6, <1>8, ChosenType DEF SessionOK
<1>9. ASSUME pc[x] = "consume", NEW s \in scope[x]
      PROVE  Live(target[d][s].plan)' /\ bound'[d][s] = 0
  <2> DEFINE q == target[d][s].plan
  <2>1. /\ Live(q) /\ bound[d][s] = 0 /\ d \in Confirmations /\ s \in Chosen[d]
        /\ q # 0 /\ target'[d][s] = target[d][s]
    BY <1>3, <1>8, <1>9 DEF SessionOK
  <2>2. q \in Plan /\ q <= revision
    BY <1>0, <2>1, OtherPlan
  <2>3. plans'[q] = plans[q] /\ UNCHANGED bound
    BY <1>7, <2>2 DEF ConfirmReserve
  <2> QED
    BY <1>4, <2>1, <2>3 DEF Live
<1>10. CASE pc[x] = "idle"
  BY <1>4, <1>10 DEF SessionOK, Confirming, Releasing
<1>11. CASE pc[x] = "bind"
  BY <1>4, <1>8, <1>11 DEF SessionOK, Confirming, Releasing
<1>12. CASE pc[x] = "consume"
  <2>1. \A s \in Chosen[d] : target'[d][s].plan # 0 /\ rowLock[target'[d][s].plan] = x
    BY <1>3, <1>8, <1>12 DEF SessionOK
  <2>2. \A s \in Chosen[d] : target'[d][s].plan \in Plan
    BY <1>0, <1>8, <1>12, OtherPlan
  <2> QED
    BY <1>4, <1>8, <1>9, <1>12, <2>1, <2>2 DEF SessionOK, Confirming, Releasing
<1> QED
  BY <1>5, <1>10, <1>11, <1>12

LEMMA ReleaseSessions ==
  ASSUME IInv, NEW t \in Sessions, ReleaseCommit(t)
  PROVE  SessionsOK'
<1>0. TypeOK /\ RowsOK /\ TargetsOK /\ End(t)
  BY DEF IInv, RowsOK, ReleaseCommit
<1>1. SUFFICES ASSUME NEW x \in Sessions, x # t PROVE SessionOK(x)'
  BY <1>0, SessionDone DEF SessionsOK
<1> DEFINE c == of[t]
           p == PlanOf(t)
           d == of[x]
<1>2. /\ c \in Confirmations /\ advisory = t
      /\ p \in Plan /\ rowLock[p] = t
      /\ \A s \in Chosen[c] : target[c][s].plan = p
  BY ReleaseFacts
<1>3. SessionOK(x)
  BY DEF IInv, SessionsOK
<1>4. /\ pc'[x] = pc[x] /\ of'[x] = d /\ scope'[x] = scope[x]
      /\ \A q \in Plan : rowLock[q] = x => rowLock'[q] = x
  BY <1>0, <1>1, EndFrame
<1>5. pc[x] \in {"idle", "bind", "consume"}
  BY <1>0, <1>1, <1>2, <1>3 DEF SessionOK, Confirming, Releasing, TypeOK
<1>6. /\ \A e \in Confirmations, s \in Segments :
           target'[e][s].plan = target[e][s].plan
      /\ \A e \in Confirmations \ {c} : target'[e] = target[e]
      /\ \A q \in Plan \ {p} : plans'[q] = plans[q]
      /\ \A u \in Users : member[u].plan # p => member'[u] = member[u]
      /\ UNCHANGED bound
  BY <1>0, <1>2 DEF ReleaseCommit, TypeOK
<1>7. ASSUME pc[x] # "idle"
      PROVE  /\ d \in Confirmations
             /\ scope[x] # {} /\ scope[x] \subseteq Chosen[d]
             /\ \A s \in Chosen[d] : /\ target[d][s].plan # 0
                                     /\ target'[d][s].plan = target[d][s].plan
                                     /\ target[d][s].plan \in Plan
  BY <1>0, <1>3, <1>5, <1>6, <1>7, OtherPlan, ChosenType DEF SessionOK
<1>8. ASSUME pc[x] = "consume", NEW s \in scope[x]
      PROVE  Live(target[d][s].plan)' /\ bound'[d][s] = 0
  <2> DEFINE q == target[d][s].plan
  <2>1. /\ Live(q) /\ bound[d][s] = 0 /\ s \in Chosen[d]
        /\ rowLock[q] = x /\ target'[d][s].plan = q
    BY <1>3, <1>7, <1>8 DEF SessionOK
  <2>2. q # p /\ q \in Plan
    BY <1>1, <1>2, <1>7, <1>8, <2>1
  <2> QED
    BY <1>4, <1>6, <2>1, <2>2 DEF Live
<1> QED
  BY <1>3, <1>4, <1>5, <1>7, <1>8 DEF SessionOK, Confirming, Releasing

LEMMA BindSessions ==
  ASSUME IInv, NEW t \in Sessions, BindCommit(t)
  PROVE  SessionsOK'
<1>0. TypeOK /\ RowsOK /\ TargetsOK /\ End(t)
  BY DEF IInv, RowsOK, BindCommit
<1>1. SUFFICES ASSUME NEW x \in Sessions, x # t PROVE SessionOK(x)'
  BY <1>0, SessionDone DEF SessionsOK
<1> DEFINE c == of[t]
           p == PlanOf(t)
           d == of[x]
<1>2. /\ c \in Confirmations /\ scope[t] \subseteq Chosen[c]
      /\ p \in Plan /\ rowLock[p] = t /\ plans[p].of = c /\ Live(p)
      /\ \A s \in Chosen[c] : target[c][s].plan = p
  BY BindFacts
<1>3. SessionOK(x)
  BY DEF IInv, SessionsOK
<1>4. /\ pc'[x] = pc[x] /\ of'[x] = d /\ scope'[x] = scope[x] /\ won'[x] = won[x]
      /\ advisory = x => advisory' = x
      /\ \A q \in Plan : rowLock[q] = x => rowLock'[q] = x
  BY <1>0, <1>1, EndFrame
<1>5. /\ \A e \in Confirmations, s \in Segments :
           target'[e][s].plan = target[e][s].plan
      /\ \A e \in Confirmations \ {c} : target'[e] = target[e] /\ bound'[e] = bound[e]
      /\ \A q \in Plan \ {p} : plans'[q] = plans[q]
      /\ plans'[p].of = c /\ plans'[p].status = "locked"
      /\ \A u \in Users : member[u].plan # p => member'[u] = member[u]
  BY <1>0, <1>2 DEF BindCommit, TypeOK, PlanRow
<1>6. SourcesFree(d) => SourcesFree(d)'
  <2>1. \A q \in Plan : Live(q)' => Live(q)
    BY <1>2, <1>5 DEF Live
  <2>2. \A q \in Plan : plans'[q].of = plans[q].of
    BY <1>2, <1>5
  <2> QED
    BY <1>4, <2>1, <2>2 DEF SourcesFree, Sources
<1>7. ASSUME d \in Confirmations, NEW s \in Chosen[d], target[d][s].plan # 0
      PROVE  /\ target'[d][s].plan = target[d][s].plan
             /\ target[d][s].plan \in Plan
             /\ rowLock[target[d][s].plan] = x =>
                  /\ target[d][s].plan # p /\ d # c
                  /\ plans'[target[d][s].plan] = plans[target[d][s].plan]
  <2>1. s \in Segments /\ target[d][s].plan \in Plan
    BY <1>0, <1>7, OtherPlan
  <2> QED
    BY <1>1, <1>2, <1>5, <1>7, <2>1
<1>8. ASSUME pc[x] = "consume", NEW s \in scope[x]
      PROVE  Live(target[d][s].plan)' /\ bound'[d][s] = 0
  <2> DEFINE q == target[d][s].plan
  <2>1. /\ Live(q) /\ bound[d][s] = 0 /\ d \in Confirmations /\ s \in Chosen[d]
        /\ rowLock[q] = x /\ q # 0
    BY <1>3, <1>8 DEF SessionOK
  <2>2. d # c /\ plans'[q] = plans[q] /\ target'[d][s].plan = q
    BY <1>7, <2>1
  <2> QED
    BY <1>4, <1>5, <2>1, <2>2 DEF Live
<1>9. CASE pc[x] \in {"bind", "consume"}
  BY <1>3, <1>4, <1>7, <1>8, <1>9 DEF SessionOK, Confirming, Releasing
<1>10. CASE pc[x] \in Releasing
  <2>1. /\ d \in Confirmations /\ advisory = x
        /\ pc[x] # "look" => \A s \in Chosen[d] : target[d][s].plan # 0
        /\ pc[x] \in {"revision", "release"} =>
             \A s \in Chosen[d] : /\ rowLock[target[d][s].plan] = x
                                  /\ plans[target[d][s].plan].status # "locked"
    BY <1>3, <1>10 DEF SessionOK, Releasing
  <2>2. pc[x] # "look" => \A s \in Chosen[d] : target'[d][s].plan # 0
    BY <1>7, <2>1
  <2>3. pc[x] \in {"revision", "release"} =>
          \A s \in Chosen[d] : /\ rowLock'[target'[d][s].plan] = x
                               /\ plans'[target'[d][s].plan].status # "locked"
    BY <1>4, <1>7, <2>1
  <2> QED
    BY <1>4, <1>10, <2>1, <2>2, <2>3 DEF SessionOK, Confirming, Releasing
<1>11. CASE pc[x] \notin Releasing \cup {"bind", "consume"}
  BY <1>3, <1>4, <1>6, <1>11 DEF SessionOK, Confirming, Releasing
<1> QED
  BY <1>9, <1>10, <1>11

LEMMA EndRunSessions ==
  ASSUME IInv, NEW r \in Plan, EndRun(r)
  PROVE  SessionsOK'
<1>1. SUFFICES ASSUME NEW x \in Sessions PROVE SessionOK(x)'
  BY DEF SessionsOK
<1>2. SessionOK(x) /\ UNCHANGED <<revision, member, target, plans, bound>>
      /\ UNCHANGED <<advisory, rowLock, pc, of, scope, won>>
  BY DEF IInv, SessionsOK, EndRun, local
<1>3. SourcesFree(of[x]) <=> SourcesFree(of[x])'
  BY <1>2 DEF SourcesFree, Live, Sources
<1> QED
  BY <1>2, <1>3 DEF SessionOK, Live, Confirming, Releasing

-----------------------------------------------------------------------------
(* A step of t that writes no row, or only approves targets again.          *)
LEMMA QuietStep ==
  ASSUME IInv, NEW t \in Sessions, UNCHANGED tables, Restopped,
         \A x \in Sessions \ {t} :
           /\ pc'[x] = pc[x] /\ of'[x] = of[x] /\ scope'[x] = scope[x]
           /\ won'[x] = won[x]
           /\ advisory = x => advisory' = x
           /\ \A p \in Plan : rowLock[p] = x => rowLock'[p] = x,
         SessionOK(t)'
  PROVE  RowsOK' /\ SessionsOK'
<1>1. RowsOK'
  BY RowsFrame DEF IInv
<1>2. ASSUME NEW x \in Sessions \ {t} PROVE SessionOK(x)'
  BY <1>2, SessionStays DEF IInv
<1> QED
  BY <1>1, <1>2 DEF SessionsOK

LEMMA LocalStep ==
  ASSUME IInv, NEW t \in Sessions, UNCHANGED rows,
         \A x \in Sessions \ {t} :
           /\ pc'[x] = pc[x] /\ of'[x] = of[x] /\ scope'[x] = scope[x]
           /\ won'[x] = won[x]
           /\ advisory = x => advisory' = x
           /\ \A p \in Plan : rowLock[p] = x => rowLock'[p] = x,
         SessionOK(t)'
  PROVE  RowsOK' /\ SessionsOK'
<1>1. UNCHANGED tables /\ Restopped
  BY DEF rows, tables, Restopped
<1> QED
  BY <1>1, QuietStep

(* A transaction begins.                                                    *)
LEMMA BeginStep ==
  ASSUME IInv, NEW t \in Sessions, NEW c \in Confirmations,
         ConfirmBegin(t, c) \/ ReleaseBegin(t, c) \/ BindBegin(t, c)
  PROVE  RowsOK' /\ SessionsOK'
<1>0. TypeOK /\ TargetsOK
  BY DEF IInv, RowsOK
<1>1. CASE ConfirmBegin(t, c)
  <2>1. SessionOK(t)'
    BY <1>0, <1>1 DEF ConfirmBegin, LockPromotion, Start, GoTo, TypeOK, SessionOK,
                      Confirming, Releasing
  <2> QED
    BY <1>0, <1>1, <2>1, LocalStep, AllocationAssumption
       DEF ConfirmBegin, LockPromotion, Start, GoTo, TypeOK
<1>2. CASE ReleaseBegin(t, c)
  <2>1. SessionOK(t)'
    BY <1>0, <1>2 DEF ReleaseBegin, LockPromotion, Start, GoTo, TypeOK, SessionOK,
                      Confirming, Releasing
  <2> QED
    BY <1>0, <1>2, <2>1, LocalStep, AllocationAssumption
       DEF ReleaseBegin, LockPromotion, Start, GoTo, TypeOK
<1>3. CASE BindBegin(t, c)
  <2>1. PICK S \in SUBSET Chosen[c] :
          /\ S # {} /\ \A s \in S : target[c][s].plan # 0
          /\ scope' = [scope EXCEPT ![t] = S]
    BY <1>3 DEF BindBegin
  <2>2. \A s \in Chosen[c] : target[c][s].plan # 0
    BY <1>0, <2>1 DEF TargetsOK
  <2>3. SessionOK(t)'
    BY <1>0, <1>3, <2>1, <2>2 DEF BindBegin, Start, GoTo, TypeOK, SessionOK,
                                  Confirming, Releasing, rows
  <2> QED
    BY <1>0, <1>3, <2>1, <2>3, LocalStep DEF BindBegin, Start, GoTo, TypeOK
<1> QED
  BY <1>1, <1>2, <1>3

(* A transaction that ends without a write, or only approves targets again. *)
LEMMA LeaveStep ==
  ASSUME IInv, NEW t \in Sessions, Replay(t) \/ Rollback(t)
  PROVE  RowsOK' /\ SessionsOK'
<1>1. TypeOK /\ End(t)
  BY DEF IInv, Replay, Rollback
<1>2. UNCHANGED tables /\ Restopped
  <2>1. CASE Rollback(t)
    BY <2>1 DEF Rollback, rows, tables, Restopped
  <2>2. CASE Replay(t)
    BY <2>2, ReplayFacts
  <2> QED
    BY <2>1, <2>2
<1> QED
  BY <1>1, <1>2, SessionDone, EndFrame, QuietStep

LEMMA StopStep ==
  ASSUME IInv, NEW c \in Confirmations, NEW s \in Segments, StopTarget(c, s)
  PROVE  RowsOK' /\ SessionsOK'
<1>1. UNCHANGED tables /\ Restopped /\ UNCHANGED <<advisory, rowLock, local>>
  BY StopFacts DEF IInv, StopTarget
<1>2. RowsOK'
  BY <1>1, RowsFrame DEF IInv
<1>3. ASSUME NEW x \in Sessions PROVE SessionOK(x)'
  BY <1>1, SessionStays DEF IInv, local
<1> QED
  BY <1>2, <1>3 DEF SessionsOK

LEMMA ConfirmStep ==
  ASSUME IInv, NEW t \in Sessions,
         ConfirmSources(t) \/ ConfirmSegments(t) \/ ConfirmContext(t) \/ ConfirmWinners(t)
  PROVE  RowsOK' /\ SessionsOK'
<1>0. TypeOK /\ SessionOK(t)
  BY DEF IInv, SessionsOK
<1>1. CASE ConfirmSources(t)
  <2>1. SourcesFree(of[t])'
    BY <1>1 DEF ConfirmSources, SourcesFree, Live, Sources, rows
  <2>2. SessionOK(t)'
    BY <1>0, <1>1, <2>1 DEF ConfirmSources, GoTo, TypeOK, SessionOK, Confirming, Releasing
  <2> QED
    BY <1>0, <1>1, <2>2, LocalStep DEF ConfirmSources, GoTo, TypeOK
<1>2. CASE ConfirmSegments(t) \/ ConfirmContext(t)
  <2>1. /\ UNCHANGED rows /\ UNCHANGED <<advisory, rowLock, of, scope, won, unbound>>
        /\ pc[t] \in {"segments", "context"}
        /\ \E l \in {"context", "winners"} : GoTo(t, l)
    BY <1>2 DEF ConfirmSegments, ConfirmContext
  <2>2. SourcesFree(of[t])'
    BY <1>0, <2>1 DEF SessionOK, Confirming, SourcesFree, Live, Sources, rows
  <2>3. SessionOK(t)'
    BY <1>0, <2>1, <2>2 DEF GoTo, TypeOK, SessionOK, Confirming, Releasing
  <2> QED
    BY <1>0, <2>1, <2>3, LocalStep DEF GoTo, TypeOK
<1>3. CASE ConfirmWinners(t)
  <2>1. /\ UNCHANGED rows /\ UNCHANGED <<advisory, rowLock, of, scope>>
        /\ pc[t] = "winners" /\ GoTo(t, "reserve")
        /\ won' = [won EXCEPT ![t] = [u \in Users |-> Winner(of[t], u)]]
    BY <1>3 DEF ConfirmWinners
  <2>2. SourcesFree(of[t])' /\ of[t] \in Confirmations
    BY <1>0, <2>1 DEF SessionOK, Confirming, SourcesFree, Live, Sources, rows
  <2>3. \A u \in Users : won'[t][u] \in Chosen[of[t]] \cup {None}
    BY <1>0, <2>1, <2>2, WinnerType DEF TypeOK
  <2>4. SessionOK(t)'
    BY <1>0, <2>1, <2>2, <2>3 DEF GoTo, TypeOK, SessionOK, Confirming, Releasing
  <2> QED
    BY <1>0, <2>1, <2>4, LocalStep DEF GoTo, TypeOK
<1> QED
  BY <1>1, <1>2, <1>3

LEMMA ReleaseStep ==
  ASSUME IInv, NEW t \in Sessions, ReleaseLook(t) \/ ReleaseRow(t) \/ ReleaseContext(t)
  PROVE  RowsOK' /\ SessionsOK'
<1> DEFINE c == of[t]
<1>0. TypeOK /\ TargetsOK /\ SessionOK(t)
  BY DEF IInv, RowsOK, SessionsOK
<1>1. c \in Confirmations /\ advisory = t /\ Chosen[c] # {} /\ Chosen[c] \subseteq Segments
  BY <1>0, ChosenType
     DEF SessionOK, Releasing, ReleaseLook, ReleaseRow, ReleaseContext
<1>2. CASE ReleaseLook(t)
  <2>1. \A s \in Chosen[c] : target[c][s].plan # 0
    BY <1>0, <1>1, <1>2 DEF ReleaseLook, Named, TargetsOK
  <2>2. SessionOK(t)'
    BY <1>0, <1>1, <1>2, <2>1
       DEF ReleaseLook, GoTo, TypeOK, SessionOK, Confirming, Releasing, rows
  <2> QED
    BY <1>0, <1>2, <2>2, LocalStep DEF ReleaseLook, GoTo, TypeOK
<1>3. CASE ReleaseRow(t)
  <2>1. \A s \in Chosen[c] : target[c][s].plan # 0
    BY <1>0, <1>3 DEF SessionOK, Releasing, ReleaseRow
  <2>2. PlanOf(t) \in Plan /\ \A s \in Chosen[c] : target[c][s].plan = PlanOf(t)
    BY <1>0, <1>1, <2>1, PlanIsNamed
  <2>3. /\ UNCHANGED rows /\ UNCHANGED <<advisory, of, scope, won>>
        /\ rowLock[PlanOf(t)] = None
        /\ rowLock' = [rowLock EXCEPT ![PlanOf(t)] = t]
        /\ plans[PlanOf(t)].status # "locked"
        /\ GoTo(t, "revision")
    BY <1>3 DEF ReleaseRow, LockRow, Releasable
  <2>4. SessionOK(t)'
    <3>1. /\ rowLock'[PlanOf(t)] = t /\ pc'[t] = "revision" /\ of'[t] = c
          /\ target' = target /\ plans' = plans /\ advisory' = advisory
      BY <1>0, <2>2, <2>3 DEF GoTo, TypeOK, rows
    <3> QED
      BY <1>1, <2>1, <2>2, <2>3, <3>1 DEF SessionOK, Confirming, Releasing
  <2> QED
    BY <1>0, <2>2, <2>3, <2>4, LocalStep, AllocationAssumption DEF GoTo, TypeOK
<1>4. CASE ReleaseContext(t)
  <2>1. SessionOK(t)'
    BY <1>0, <1>1, <1>4
       DEF ReleaseContext, GoTo, TypeOK, SessionOK, Confirming, Releasing, rows
  <2> QED
    BY <1>0, <1>4, <2>1, LocalStep DEF ReleaseContext, GoTo, TypeOK
<1> QED
  BY <1>2, <1>3, <1>4

LEMMA BindStep ==
  ASSUME IInv, NEW t \in Sessions, BindRows(t)
  PROVE  RowsOK' /\ SessionsOK'
<1> DEFINE c == of[t]
<1>0. TypeOK /\ TargetsOK /\ SessionOK(t)
  BY DEF IInv, RowsOK, SessionsOK
<1>1. /\ c \in Confirmations /\ Chosen[c] # {} /\ Chosen[c] \subseteq Segments
      /\ scope[t] # {} /\ scope[t] \subseteq Chosen[c]
      /\ \A s \in Chosen[c] : target[c][s].plan # 0
  BY <1>0, ChosenType DEF SessionOK, BindRows
<1>2. PlanOf(t) \in Plan /\ \A s \in Chosen[c] : target[c][s].plan = PlanOf(t)
  BY <1>0, <1>1, PlanIsNamed
<1>3. /\ UNCHANGED rows /\ UNCHANGED <<advisory, of, scope, won>>
      /\ rowLock[PlanOf(t)] = None
      /\ rowLock' = [rowLock EXCEPT ![PlanOf(t)] = t]
      /\ \A s \in scope[t] : Live(target[c][s].plan) /\ bound[c][s] = 0
      /\ GoTo(t, "consume")
  BY DEF BindRows, LockRow, Bindable, Live
<1>4. /\ rowLock'[PlanOf(t)] = t /\ pc'[t] = "consume" /\ of'[t] = c
      /\ scope'[t] = scope[t] /\ target' = target
  BY <1>0, <1>2, <1>3 DEF GoTo, TypeOK, rows
<1>5. \A s \in scope[t] : (Live(target[c][s].plan) /\ bound[c][s] = 0)'
  BY <1>3 DEF Live, rows
<1>6. SessionOK(t)'
  BY <1>1, <1>2, <1>4, <1>5 DEF SessionOK, Confirming, Releasing
<1> QED
  BY <1>0, <1>2, <1>3, <1>6, LocalStep, AllocationAssumption DEF GoTo, TypeOK

LEMMA Invariance == Spec => []IInv
<1>1. IInv /\ [Next]_vars => IInv'
  <2>1. SUFFICES ASSUME IInv, [Next]_vars PROVE RowsOK' /\ SessionsOK'
    BY TypeStep DEF IInv
  <2>2. CASE UNCHANGED vars
    <3>1. UNCHANGED tables /\ Restopped
      BY <2>2 DEF vars, rows, tables, Restopped
    <3>2. RowsOK'
      BY <2>1, <3>1, RowsFrame DEF IInv
    <3>3. ASSUME NEW x \in Sessions PROVE SessionOK(x)'
      BY <2>1, <2>2, <3>1, SessionStays DEF IInv, vars, local
    <3> QED
      BY <3>2, <3>3 DEF SessionsOK
  <2>3. ASSUME NEW t \in Sessions, NEW c \in Confirmations,
               ConfirmBegin(t, c) \/ ReleaseBegin(t, c) \/ BindBegin(t, c)
        PROVE  RowsOK' /\ SessionsOK'
    BY <2>1, <2>3, BeginStep
  <2>4. ASSUME NEW t \in Sessions,
               \/ Replay(t) \/ Rollback(t)
               \/ ConfirmSources(t) \/ ConfirmSegments(t)
               \/ ConfirmContext(t) \/ ConfirmWinners(t)
               \/ ReleaseLook(t) \/ ReleaseRow(t) \/ ReleaseContext(t)
               \/ BindRows(t)
        PROVE  RowsOK' /\ SessionsOK'
    BY <2>1, <2>4, LeaveStep, ConfirmStep, ReleaseStep, BindStep
  <2>5. ASSUME NEW t \in Sessions, ConfirmReserve(t) \/ ReleaseCommit(t) \/ BindCommit(t)
        PROVE  RowsOK' /\ SessionsOK'
    BY <2>1, <2>5, ReserveRows, ReserveSessions, ReleaseRows, ReleaseSessions,
       BindRowsOK, BindSessions
  <2>6. ASSUME NEW r \in Plan, EndRun(r)
        PROVE  RowsOK' /\ SessionsOK'
    BY <2>1, <2>6, EndRunRows, EndRunSessions
  <2>7. ASSUME NEW c \in Confirmations, NEW s \in Segments, StopTarget(c, s)
        PROVE  RowsOK' /\ SessionsOK'
    BY <2>1, <2>7, StopStep
  <2> QED
    BY <2>1, <2>2, <2>3, <2>4, <2>5, <2>6, <2>7 DEF Next
<1> QED
  BY InitIInv, <1>1, PTL DEF Spec

(* Every variable keeps its type.                                           *)
THEOREM TypeCorrect == Spec => []TypeOK
<1>1. IInv => TypeOK
  BY DEF IInv
<1> QED
  BY Invariance, <1>1, PTL

(* A plan keeps each of its users until it is released, their target is     *)
(* stopped or their run is over, whatever is confirmed, released, bound and *)
(* stopped meanwhile.                                                       *)
THEOREM UsersAreKept == Spec => []PlanKeepsUsers
<1>1. IInv => PlanKeepsUsers
  BY DEF IInv, RowsOK
<1> QED
  BY Invariance, <1>1, PTL

(* A release that races a binding leaves what the run is bound to locked    *)
(* and consumed.                                                            *)
THEOREM RunsAreSpared == Spec => []ReleaseSparesRuns
<1>1. IInv => ReleaseSparesRuns
  BY DEF IInv, RowsOK, BoundOK
<1> QED
  BY Invariance, <1>1, PTL

(* No source snapshot is confirmed by two live plans.                       *)
THEOREM SourcesConfirmedOnce == Spec => []SourceConfirmedOnce
<1>1. IInv => SourceConfirmedOnce
  BY DEF IInv, RowsOK
<1> QED
  BY Invariance, <1>1, PTL

(* No user gets the advertisements of two segments of one promotion whose   *)
(* targets were never stopped.                                              *)
THEOREM NoUserIsAllottedTwice == Spec => []NoUserTwice
<1>1. IInv => NoUserTwice
  <2>1. SUFFICES ASSUME IInv, NEW p \in Plan, NEW q \in Plan, NEW u \in Users,
                        p # q,
                        plans[p].won[u] # None, Holds(p, plans[p].won[u]),
                        plans[q].won[u] # None, Holds(q, plans[q].won[u])
                 PROVE  FALSE
    BY DEF NoUserTwice
  <2>2. member[u].plan = p /\ member[u].plan = q
    BY <2>1 DEF IInv, RowsOK, PlanKeepsUsers
  <2> QED
    BY <2>1, <2>2
<1> QED
  BY Invariance, <1>1, PTL

-----------------------------------------------------------------------------
(* What no transaction undoes: a plan is for ever that of its confirmation, *)
(* with the users of its final snapshot, and stays locked or released; a    *)
(* binding and its target stand; a consumed user whose run goes on, and     *)
(* whose target is not stopped, is left alone.  And readers can go by the   *)
(* revision: it rises with every write of a transaction that changes who is *)
(* allotted, and each member row that is written carries the new one.       *)
Stands ==
  /\ \A p \in Plan :
       /\ plans[p].status # "none" =>
            plans'[p].of = plans[p].of /\ plans'[p].won = plans[p].won
       /\ plans[p].status \in {"locked", "released"} =>
            plans'[p].status = plans[p].status
  /\ \A c \in Confirmations, s \in Segments : bound[c][s] # 0 =>
       bound'[c][s] = bound[c][s] /\ target'[c][s] = target[c][s]
  /\ \A u \in Users :
       member[u].state = "consumed" /\ Excluded(u) => member'[u] = member[u]
  /\ \/ UNCHANGED <<revision, member, target, plans, bound>>
     \/ /\ revision' = revision + 1
        /\ \A u \in Users :
             member'[u] # member[u] => member'[u].revision = revision'

LEMMA ReserveStands ==
  ASSUME IInv, NEW t \in Sessions, ConfirmReserve(t)
  PROVE  Stands
<1> DEFINE c == of[t]
           p == revision + 1
<1>0. TypeOK
  BY DEF IInv
<1>1. /\ c \in Confirmations /\ p \in Plan /\ revision' = p
      /\ plans[p] = NoPlan
      /\ \A s \in Segments : bound[c][s] = 0
  BY ReserveFacts
<1>2. \A q \in Plan \ {p} : plans'[q] = plans[q]
  BY <1>0 DEF ConfirmReserve, TypeOK
<1>3. plans[p].status = "none"
  BY <1>1 DEF NoPlan
<1>4. \A d \in Confirmations \ {c} : target'[d] = target[d]
  BY <1>0 DEF ConfirmReserve, TypeOK
<1>5. bound' = bound
  BY DEF ConfirmReserve
<1>6. ASSUME NEW u \in Users, member'[u] # member[u]
      PROVE  Takeable(u) /\ member'[u].revision = revision'
  BY <1>1, <1>6 DEF ConfirmReserve
<1>7. ASSUME NEW u \in Users, member[u].state = "consumed", Excluded(u)
      PROVE  ~Takeable(u)
  BY <1>7 DEF Takeable, Excluded
<1> QED
  BY <1>1, <1>2, <1>3, <1>4, <1>5, <1>6, <1>7 DEF Stands

LEMMA ReleaseStands ==
  ASSUME IInv, NEW t \in Sessions, ReleaseCommit(t)
  PROVE  Stands
<1> DEFINE c == of[t]
           p == PlanOf(t)
<1>0. TypeOK
  BY DEF IInv
<1>1. /\ c \in Confirmations /\ p \in Plan
      /\ plans[p].status \in {"finalized", "released"}
      /\ \A s \in Chosen[c] : bound[c][s] = 0
      /\ \A s \in Segments \ Chosen[c] : target[c][s].plan # p
      /\ revision' = revision + 1 /\ revision' \in Plan
  BY ReleaseFacts
<1>2. /\ \A q \in Plan : plans'[q].of = plans[q].of /\ plans'[q].won = plans[q].won
      /\ \A q \in Plan \ {p} : plans'[q] = plans[q]
      /\ plans[p].status = "released" => plans'[p] = plans[p]
  BY <1>0, <1>1 DEF ReleaseCommit, TypeOK, PlanRow
<1>3. bound' = bound
  BY DEF ReleaseCommit
<1>4. \A d \in Confirmations, s \in Segments : bound[d][s] # 0 => target'[d][s] = target[d][s]
  BY <1>0, <1>1 DEF ReleaseCommit, TypeOK
<1>5. ASSUME NEW u \in Users, member'[u] # member[u]
      PROVE  member[u].state = "reserved" /\ member'[u].revision = revision'
  BY <1>0, <1>1, <1>5, MovedType DEF ReleaseCommit
<1> QED
  BY <1>1, <1>2, <1>3, <1>4, <1>5 DEF Stands

LEMMA BindStands ==
  ASSUME IInv, NEW t \in Sessions, BindCommit(t)
  PROVE  Stands
<1> DEFINE c == of[t]
           p == PlanOf(t)
<1>0. TypeOK
  BY DEF IInv
<1>1. /\ c \in Confirmations /\ p \in Plan /\ Live(p)
      /\ \A s \in scope[t] : bound[c][s] = 0
      /\ revision' = revision + 1 /\ revision' \in Plan
  BY BindFacts
<1>2. /\ \A q \in Plan : plans'[q].of = plans[q].of /\ plans'[q].won = plans[q].won
      /\ \A q \in Plan \ {p} : plans'[q] = plans[q]
      /\ plans'[p].status = "locked" /\ plans[p].status # "released"
  BY <1>0, <1>1 DEF BindCommit, TypeOK, PlanRow, Live
<1>3. \A d \in Confirmations, s \in Segments : bound[d][s] # 0 =>
        bound'[d][s] = bound[d][s] /\ target'[d][s] = target[d][s]
  BY <1>0, <1>1 DEF BindCommit, TypeOK
<1>4. ASSUME NEW u \in Users, member'[u] # member[u]
      PROVE  member[u].state = "reserved" /\ member'[u].revision = revision'
  BY <1>0, <1>1, <1>4, MovedType DEF BindCommit
<1> QED
  BY <1>1, <1>2, <1>3, <1>4 DEF Stands

(* Confirmations, releases and bindings write, and nothing else does but    *)
(* the end of a run, the stop of a target and its approval after that.      *)
LEMMA WritingSteps ==
  ASSUME [Next]_vars
  PROVE  \/ \E t \in Sessions : ConfirmReserve(t) \/ ReleaseCommit(t) \/ BindCommit(t)
         \/ \E r \in Plan : EndRun(r)
         \/ \E c \in Confirmations, s \in Segments : StopTarget(c, s)
         \/ \E t \in Sessions : Replay(t)
         \/ UNCHANGED rows
<1>1. CASE UNCHANGED vars
  BY <1>1 DEF vars
<1>2. ASSUME NEW t \in Sessions, NEW c \in Confirmations,
             ConfirmBegin(t, c) \/ ReleaseBegin(t, c) \/ BindBegin(t, c)
      PROVE  UNCHANGED rows
  BY <1>2 DEF ConfirmBegin, ReleaseBegin, BindBegin
<1>3. ASSUME NEW t \in Sessions,
             \/ Rollback(t)
             \/ ConfirmSources(t) \/ ConfirmSegments(t)
             \/ ConfirmContext(t) \/ ConfirmWinners(t)
             \/ ReleaseLook(t) \/ ReleaseRow(t) \/ ReleaseContext(t)
             \/ BindRows(t)
      PROVE  UNCHANGED rows
  BY <1>3 DEF Rollback, ConfirmSources, ConfirmSegments, ConfirmContext,
              ConfirmWinners, ReleaseLook, ReleaseRow, ReleaseContext, BindRows
<1> QED
  BY <1>1, <1>2, <1>3 DEF Next

(* Every step of every transaction keeps what was confirmed, released,      *)
(* bound and consumed before it; so do the stop of a target and its         *)
(* approval after that, which change no row that readers tell apart by its  *)
(* revision.                                                                *)
THEOREM WritesStand == Spec => [][Stands]_vars
<1>1. IInv /\ [Next]_vars => Stands
  <2>1. SUFFICES ASSUME IInv, [Next]_vars PROVE Stands
    OBVIOUS
  <2>2. CASE UNCHANGED <<revision, member, target, plans, bound>>
    BY <2>2 DEF Stands
  <2>3. (\E r \in Plan : EndRun(r)) \/ UNCHANGED rows =>
          UNCHANGED <<revision, member, target, plans, bound>>
    BY DEF EndRun, rows
  <2>4. /\ (\E c \in Confirmations, s \in Segments : StopTarget(c, s)) =>
             UNCHANGED <<revision, member, target, plans, bound>>
        /\ (\E t \in Sessions : Replay(t)) =>
             UNCHANGED <<revision, member, target, plans, bound>>
    BY DEF StopTarget, Replay
  <2> QED
    BY <2>1, <2>2, <2>3, <2>4, WritingSteps, ReserveStands, ReleaseStands, BindStands
<1> QED
  BY Invariance, <1>1, PTL DEF Spec

-----------------------------------------------------------------------------
(* The refinement.  What readers see of a user.                             *)
Seen(u) == IF Joined(u)
           THEN [state |-> member[u].state, revision |-> member[u].revision,
                 hold |-> HoldOf(u)]
           ELSE [state |-> "none", revision |-> 0, hold |-> "kept"]

(* The same row with another hold.                                          *)
SeenAs(u, hold) == [state |-> Seen(u).state, revision |-> Seen(u).revision,
                    hold |-> hold]

(* The row of a user who is in a plan.                                      *)
LEMMA MemberFacts ==
  ASSUME IInv, NEW u \in Users, member[u].plan # 0
  PROVE  LET q == member[u].plan
             s == member[u].segment
         IN  /\ q \in Plan /\ q <= revision
             /\ plans[q].of \in Confirmations
             /\ s \in Chosen[plans[q].of] /\ s \in Segments
             /\ plans[q].won[u] = s /\ s # None
             /\ member[u].state # "none"
<1> DEFINE q == member[u].plan
           s == member[u].segment
<1>1. /\ q \in Plan /\ s # None /\ member[u].state # "none"
      /\ plans[q].status # "none" /\ plans[q].won[u] = s
  BY AllocationAssumption DEF IInv, TypeOK, Member, Plan, RowsOK, MembersOK
<1>2. /\ plans[q].of \in Confirmations /\ q <= revision
      /\ s \in Chosen[plans[q].of]
  BY <1>1 DEF IInv, RowsOK, PlansOK
<1> QED
  BY <1>1, <1>2, ChosenType

(* The hold on a user changes with what happens to the target: it comes     *)
(* back only when a target that was stopped is approved.                    *)
LEMMA HoldFrame ==
  ASSUME IInv, NEW u \in Users, member[u].plan # 0,
         NEW d, d = plans[member[u].plan].of, NEW s, s = member[u].segment,
         member'[u].plan = member[u].plan, member'[u].segment = s,
         plans'[member[u].plan].of = d, bound'[d][s] = bound[d][s], UNCHANGED ended,
         \/ status'[d][s] = status[d][s]
         \/ status[d][s] = "stopped" /\ status'[d][s] = "reopened"
  PROVE  /\ status'[d][s] = status[d][s] => HoldOf(u)' = HoldOf(u)
         /\ HoldOf(u)' # HoldOf(u) => HoldOf(u) = "over" /\ HoldOf(u)' = "again"
<1>1. /\ MemberTargetActive(u) <=> TargetActive(d, s)
      /\ MemberTargetActive(u)' <=> TargetActive(d, s)'
  BY DEF MemberTargetActive, TargetActive, Running
<1>2. CASE status'[d][s] = status[d][s]
  <2>1. TargetActive(d, s)' <=> TargetActive(d, s)
    BY <1>2 DEF TargetActive, Running
  <2> QED
    BY <1>1, <1>2, <2>1 DEF HoldOf
<1>3. CASE status[d][s] = "stopped" /\ status'[d][s] = "reopened"
  <2>1. HoldOf(u) = "over"
    BY <1>1, <1>3 DEF HoldOf, TargetActive
  <2>2. HoldOf(u)' \in {"over", "again"}
    BY <1>1, <1>3 DEF HoldOf
  <2> QED
    BY <1>3, <2>1, <2>2
<1> QED
  BY <1>2, <1>3

LEMMA ChangeOfRows ==
  ASSUME NEW S \in SUBSET Users, NEW x, revision < MaxRevision,
         revision' = revision + 1,
         \A u \in S : Seen(u).state = "reserved",
         \A u \in Users : Seen(u)' =
           IF u \in S THEN [state |-> x, revision |-> revision', hold |-> Seen(u).hold]
           ELSE Seen(u)
  PROVE  Ledger!Change(S, x)
BY DEF Seen, Ledger!Change, Ledger!Advanced

(* Users that a step frees without a revision.                              *)
LEMMA LapseOfRows ==
  ASSUME UNCHANGED revision,
         \A u \in Users : \/ Seen(u)' = Seen(u)
                          \/ Seen(u).state # "none" /\ Seen(u)' = SeenAs(u, "over")
  PROVE  Ledger!LedgerNext
<1> DEFINE S == {u \in Users : Seen(u)' # Seen(u)}
<1>1. /\ \A u \in S : Seen(u).state # "none"
      /\ \A u \in Users : Seen(u)' = IF u \in S THEN SeenAs(u, "over") ELSE Seen(u)
  OBVIOUS
<1>2. S \in SUBSET Users
  OBVIOUS
<1> HIDE DEF S
<1>3. Ledger!Lapse(S)
  BY <1>1, <1>2 DEF Seen, SeenAs, Ledger!Lapse, Ledger!Held
<1> QED
  BY <1>2, <1>3 DEF Ledger!LedgerNext, Ledger!Lapse

(* Users that a step brings back without a revision.                        *)
LEMMA ReturnOfRows ==
  ASSUME UNCHANGED revision,
         \A u \in Users : \/ Seen(u)' = Seen(u)
                          \/ Seen(u).hold = "over" /\ Seen(u)' = SeenAs(u, "again")
  PROVE  Ledger!LedgerNext
<1> DEFINE S == {u \in Users : Seen(u)' # Seen(u)}
<1>1. /\ \A u \in S : Seen(u).hold = "over"
      /\ \A u \in Users : Seen(u)' = IF u \in S THEN SeenAs(u, "again") ELSE Seen(u)
  OBVIOUS
<1>2. S \in SUBSET Users
  OBVIOUS
<1> HIDE DEF S
<1>3. Ledger!Return(S)
  BY <1>1, <1>2 DEF Seen, SeenAs, Ledger!Return, Ledger!WereOver, Ledger!Held
<1> QED
  BY <1>2, <1>3 DEF Ledger!LedgerNext, Ledger!Return

LEMMA ReserveImplements ==
  ASSUME IInv, NEW t \in Sessions, ConfirmReserve(t)
  PROVE  Ledger!LedgerNext
<1> DEFINE c == of[t]
           p == revision + 1
           S == {u \in Users : won[t][u] # None}
<1>0. TypeOK /\ RowsOK /\ StatusOK /\ Approve(c)
  BY DEF IInv, RowsOK, ConfirmReserve
<1>1. /\ c \in Confirmations /\ p \in Plan /\ revision' = p
      /\ Chosen[c] # {} /\ Chosen[c] \subseteq Segments
      /\ \A u \in Users : won[t][u] \in Chosen[c] \cup {None}
      /\ \A s \in Segments : bound[c][s] = 0
      /\ \/ \A s \in Chosen[c] : target[c][s] = NoTarget
         \/ \A s \in Chosen[c] : target[c][s].plan # 0
  BY ReserveFacts
<1>2. /\ plans'[p].of = c /\ p # 0 /\ ~(p <= revision)
      /\ \A q \in Plan \ {p} : plans'[q] = plans[q]
      /\ revision < MaxRevision /\ revision' = revision + 1
      /\ UNCHANGED <<bound, ended>>
  BY <1>0, <1>1, AllocationAssumption
     DEF ConfirmReserve, AdvanceFrom, Advance, TypeOK, Plan
<1>3. /\ \A d \in Confirmations \ {c} : target'[d] = target[d]
      /\ \A s \in Segments : target'[c][s] =
           IF s \in Chosen[c] /\ target[c][s] = NoTarget
           THEN [plan |-> p, state |-> "reserved"] ELSE target[c][s]
  BY <1>0, <1>1 DEF ConfirmReserve, TypeOK
<1>4. /\ \A u \in S : /\ Takeable(u)
                      /\ member'[u].plan = p /\ member'[u].segment = won[t][u]
                      /\ member'[u].state = "reserved" /\ member'[u].revision = p
                      /\ won[t][u] \in Chosen[c] /\ won[t][u] \in Segments
      /\ \A u \in Users \ S : member'[u] = member[u]
  BY <1>1 DEF ConfirmReserve
<1>5. \A u \in S : ~Ledger!Active(u)
  BY <1>4 DEF Ledger!Active, Ledger!ActiveRow, Takeable, HoldOf
<1>6. \A d \in Confirmations, s \in Segments :
        \/ status'[d][s] = status[d][s]
        \/ d = c /\ status[d][s] = "stopped" /\ status'[d][s] = "reopened"
  BY <1>0, <1>1, ApproveFacts
<1>7. ASSUME NEW u \in Users \ S, member[u].plan # 0
      PROVE  LET q == member[u].plan
                 s == member[u].segment
             IN  /\ q \in Plan /\ plans[q].of \in Confirmations
                 /\ s \in Chosen[plans[q].of] /\ s \in Segments
                 /\ member'[u] = member[u] /\ plans'[q] = plans[q]
                 /\ status'[plans[q].of][s] = status[plans[q].of][s]
                      => HoldOf(u)' = HoldOf(u)
                 /\ HoldOf(u)' # HoldOf(u) => HoldOf(u) = "over" /\ HoldOf(u)' = "again"
  <2> DEFINE q == member[u].plan
             s == member[u].segment
  <2>1. /\ q \in Plan /\ q # p /\ plans[q].of \in Confirmations
        /\ s \in Chosen[plans[q].of] /\ s \in Segments
    BY <1>2, <1>7, MemberFacts
  <2>2. member'[u] = member[u] /\ plans'[q] = plans[q]
    BY <1>2, <1>4, <2>1
  <2>3. /\ bound'[plans[q].of][s] = bound[plans[q].of][s]
        /\ \/ status'[plans[q].of][s] = status[plans[q].of][s]
           \/ /\ status[plans[q].of][s] = "stopped"
              /\ status'[plans[q].of][s] = "reopened"
    BY <1>2, <1>6, <2>1
  <2> QED
    BY <1>2, <1>7, <2>1, <2>2, <2>3, HoldFrame
<1>8. CASE \A s \in Chosen[c] : target[c][s] = NoTarget
  <2>1. \A d \in Confirmations, s \in Segments : status'[d][s] = status[d][s]
    <3>1. \A s \in Chosen[c] : status[c][s] = "open"
      BY <1>0, <1>1, <1>8 DEF StatusOK, NoTarget
    <3>2. /\ \A d \in Confirmations \ {c} : status'[d] = status[d]
          /\ \A s \in Segments : status'[c][s] =
               IF s \in Chosen[c] /\ status[c][s] = "stopped"
               THEN "reopened" ELSE status[c][s]
      BY <1>0, <1>1 DEF Approve, TypeOK
    <3> QED
      BY <3>1, <3>2
  <2>2. \A s \in Chosen[c] : status'[c][s] = "open"
    BY <1>0, <1>1, <1>8, <2>1 DEF StatusOK, NoTarget
  <2>3. ASSUME NEW u \in S
        PROVE  Seen(u)' = [state |-> "reserved", revision |-> revision', hold |-> "kept"]
    <3>1. target'[c][won[t][u]].plan = p
      BY <1>3, <1>4, <1>8
    <3>2. Joined(u)'
      BY <1>2, <1>4, <3>1 DEF Joined
    <3>3. MemberTargetActive(u)'
      BY <1>1, <1>2, <1>4, <2>2 DEF MemberTargetActive, TargetActive
    <3>4. HoldOf(u)' = "kept"
      BY <1>2, <1>4, <2>2, <3>3 DEF HoldOf
    <3> QED
      BY <1>1, <1>4, <3>2, <3>4 DEF Seen
  <2>4. ASSUME NEW u \in Users \ S
        PROVE  Seen(u)' = Seen(u)
    <3>1. CASE member[u].plan = 0
      BY <1>4, <3>1 DEF Seen, Joined
    <3>2. CASE member[u].plan # 0
      <4> DEFINE q == member[u].plan
                 s == member[u].segment
      <4>1. /\ q \in Plan /\ plans[q].of \in Confirmations
            /\ s \in Chosen[plans[q].of] /\ s \in Segments
            /\ member'[u] = member[u] /\ plans'[q] = plans[q]
            /\ HoldOf(u)' = HoldOf(u)
        BY <1>7, <2>1, <3>2
      <4>2. q <= revision /\ q # p
        BY <1>2, <3>2, MemberFacts
      <4>3. CASE plans[q].of = c
        <5>1. target[c][s].plan = 0 /\ target'[c][s].plan = p
          BY <1>3, <1>8, <4>1, <4>3 DEF NoTarget
        <5>2. ~Joined(u) /\ ~Joined(u)'
          BY <3>2, <4>1, <4>2, <4>3, <5>1 DEF Joined
        <5> QED
          BY <5>2 DEF Seen
      <4>4. CASE plans[q].of # c
        <5>1. target'[plans[q].of] = target[plans[q].of]
          BY <1>3, <4>1, <4>4
        <5>2. Joined(u)' = Joined(u)
          BY <4>1, <5>1 DEF Joined
        <5> QED
          BY <4>1, <5>2 DEF Seen
      <4> QED
        BY <4>3, <4>4
    <3> QED
      BY <3>1, <3>2
  <2>5. S \in SUBSET Users
    OBVIOUS
  <2>6. /\ \A u \in S : ~Ledger!Active(u)
        /\ \A u \in Users : Seen(u)' =
             IF u \in S
             THEN [state |-> "reserved", revision |-> revision', hold |-> "kept"]
             ELSE Seen(u)
    BY <1>5, <2>3, <2>4
  <2> HIDE DEF S
  <2>7. Ledger!Reserve(S)
    BY <1>2, <2>5, <2>6 DEF Ledger!Reserve, Ledger!Advanced, Seen
  <2> QED
    BY <2>5, <2>7 DEF Ledger!LedgerNext, Ledger!Reserve
<1>9. CASE \A s \in Chosen[c] : target[c][s].plan # 0
  <2> DEFINE T == {u \in Users \ S : Seen(u)' # Seen(u)}
  <2>1. \A d \in Confirmations, s \in Segments : target'[d][s] = target[d][s]
    BY <1>3, <1>9 DEF NoTarget
  <2>2. ASSUME NEW u \in S
        PROVE  Seen(u)' = Ledger!NoRow
    <3>1. target[c][won[t][u]].plan <= revision
      BY <1>0, <1>1, <1>4, <1>9 DEF RowsOK, TargetsOK
    <3>2. ~Joined(u)'
      BY <1>1, <1>2, <1>4, <2>1, <3>1 DEF Joined
    <3> QED
      BY <3>2 DEF Seen, Ledger!NoRow
  <2>3. ASSUME NEW u \in Users \ S
        PROVE  \/ Seen(u)' = Seen(u)
               \/ Seen(u).hold = "over" /\ Seen(u)' = SeenAs(u, "again")
    <3>1. CASE member[u].plan = 0
      BY <1>4, <3>1 DEF Seen, Joined
    <3>2. CASE member[u].plan # 0
      <4>1. LET q == member[u].plan IN
            /\ q \in Plan /\ plans[q].of \in Confirmations
            /\ member[u].segment \in Segments /\ plans'[q] = plans[q]
            /\ member'[u] = member[u]
            /\ HoldOf(u)' # HoldOf(u) => HoldOf(u) = "over" /\ HoldOf(u)' = "again"
        BY <1>7, <3>2
      <4>2. Joined(u)' = Joined(u)
        BY <2>1, <4>1 DEF Joined
      <4> QED
        BY <4>1, <4>2 DEF Seen, SeenAs
    <3> QED
      BY <3>1, <3>2
  <2>4. S \in SUBSET Users /\ T \in SUBSET Users
    OBVIOUS
  <2>5. /\ \A u \in S : ~Ledger!Active(u)
        /\ \A u \in T : Seen(u).hold = "over"
        /\ \A u \in Users : Seen(u)' =
             IF u \in S THEN Ledger!NoRow
             ELSE IF u \in T THEN SeenAs(u, "again") ELSE Seen(u)
    BY <1>5, <2>2, <2>3
  <2> HIDE DEF S, T
  <2>6. Ledger!Lose(S, T)
    BY <1>2, <2>4, <2>5
       DEF Ledger!Lose, Ledger!NoRow, Ledger!WereOver, Ledger!Held, Ledger!Advanced,
           Seen, SeenAs
  <2> QED
    BY <2>4, <2>6 DEF Ledger!LedgerNext, Ledger!Lose
<1> QED
  BY <1>1, <1>8, <1>9

LEMMA ReleaseImplements ==
  ASSUME IInv, NEW t \in Sessions, ReleaseCommit(t)
  PROVE  Ledger!LedgerNext
<1> DEFINE c == of[t]
           p == PlanOf(t)
           S == {u \in Users : member[u].plan = p /\ member[u].state = "reserved"}
<1>0. TypeOK /\ RowsOK
  BY DEF IInv
<1>1. /\ c \in Confirmations /\ Chosen[c] \subseteq Segments
      /\ p \in Plan /\ p # 0 /\ plans[p].of = c
      /\ \A s \in Chosen[c] : target[c][s].plan = p /\ bound[c][s] = 0
      /\ revision' \in Plan
  BY ReleaseFacts, AllocationAssumption DEF Plan
<1>2. /\ \A q \in Plan : plans'[q].of = plans[q].of
      /\ \A d \in Confirmations, s \in Segments : target'[d][s].plan = target[d][s].plan
      /\ revision < MaxRevision /\ revision' = revision + 1
      /\ UNCHANGED <<bound, ended, status>>
  BY <1>0, <1>1 DEF ReleaseCommit, AdvanceFrom, Advance, TypeOK, PlanRow
<1>3. /\ \A u \in S : /\ member'[u].plan = p
                      /\ member'[u].segment = member[u].segment
                      /\ member'[u].state = "released"
                      /\ member'[u].revision = revision'
      /\ \A u \in Users \ S : member'[u] = member[u]
  BY <1>0, <1>1, MovedType DEF ReleaseCommit
<1>4. \A u \in Users : /\ Joined(u)' = Joined(u)
                       /\ Joined(u) => HoldOf(u)' = HoldOf(u)
  <2>1. SUFFICES ASSUME NEW u \in Users
                 PROVE  /\ Joined(u)' = Joined(u)
                        /\ Joined(u) => HoldOf(u)' = HoldOf(u)
    OBVIOUS
  <2>2. member'[u].plan = member[u].plan /\ member'[u].segment = member[u].segment
    BY <1>3
  <2>3. CASE member[u].plan = 0
    BY <2>2, <2>3 DEF Joined
  <2>4. CASE member[u].plan # 0
    <3>1. LET q == member[u].plan IN
          /\ q \in Plan /\ plans[q].of \in Confirmations
          /\ member[u].segment \in Segments /\ plans'[q].of = plans[q].of
      BY <1>2, <2>4, MemberFacts
    <3>2. Joined(u)' = Joined(u)
      BY <1>2, <2>2, <3>1 DEF Joined
    <3>3. HoldOf(u)' = HoldOf(u)
      BY <1>2, <2>2, <2>4, <3>1, HoldFrame
    <3> QED
      BY <3>2, <3>3
  <2> QED
    BY <2>3, <2>4
<1>5. \A u \in S : Joined(u) /\ Seen(u).state = "reserved"
  BY <1>1, MemberFacts DEF Joined, Seen
<1>6. \A u \in Users : Seen(u)' =
        IF u \in S
        THEN [state |-> "released", revision |-> revision', hold |-> Seen(u).hold]
        ELSE Seen(u)
  BY <1>3, <1>4, <1>5 DEF Seen
<1>7. S \in SUBSET Users
  OBVIOUS
<1> HIDE DEF S
<1>8. Ledger!Release(S)
  BY <1>2, <1>5, <1>6, <1>7, ChangeOfRows DEF Ledger!Release
<1> QED
  BY <1>7, <1>8 DEF Ledger!LedgerNext, Ledger!Release

LEMMA BindImplements ==
  ASSUME IInv, NEW t \in Sessions, BindCommit(t)
  PROVE  Ledger!LedgerNext
<1> DEFINE c == of[t]
           p == PlanOf(t)
           S == {u \in Users : /\ member[u].plan = p /\ member[u].segment \in scope[t]
                               /\ member[u].state = "reserved"}
<1>0. TypeOK /\ RowsOK
  BY DEF IInv
<1>1. /\ c \in Confirmations /\ Chosen[c] \subseteq Segments
      /\ scope[t] \subseteq Chosen[c]
      /\ p \in Plan /\ p # 0 /\ plans[p].of = c
      /\ \A s \in Chosen[c] : target[c][s].plan = p
      /\ \A s \in scope[t] : bound[c][s] = 0
      /\ revision' \in Plan
  BY BindFacts, AllocationAssumption DEF Plan
<1>2. /\ \A q \in Plan : plans'[q].of = plans[q].of
      /\ \A d \in Confirmations, s \in Segments : target'[d][s].plan = target[d][s].plan
      /\ \A d \in Confirmations, s \in Segments :
           bound'[d][s] = IF d = c /\ s \in scope[t] THEN revision' ELSE bound[d][s]
      /\ revision < MaxRevision /\ revision' = revision + 1
      /\ UNCHANGED <<ended, status>>
  BY <1>0, <1>1 DEF BindCommit, Advance, TypeOK, PlanRow
<1>3. /\ \A u \in S : /\ member'[u].plan = p
                      /\ member'[u].segment = member[u].segment
                      /\ member'[u].state = "consumed"
                      /\ member'[u].revision = revision'
      /\ \A u \in Users \ S : member'[u] = member[u]
  BY <1>0, <1>1, MovedType DEF BindCommit
<1>4. \A u \in Users : Joined(u)' = Joined(u)
  <2>1. SUFFICES ASSUME NEW u \in Users PROVE Joined(u)' = Joined(u)
    OBVIOUS
  <2>2. member'[u].plan = member[u].plan /\ member'[u].segment = member[u].segment
    BY <1>3
  <2>3. CASE member[u].plan = 0
    BY <2>2, <2>3 DEF Joined
  <2>4. CASE member[u].plan # 0
    <3>1. LET q == member[u].plan IN
          /\ q \in Plan /\ plans[q].of \in Confirmations
          /\ member[u].segment \in Segments
      BY <2>4, MemberFacts
    <3>2. LET q == member[u].plan
              s == member[u].segment
          IN  target'[plans'[q].of][s].plan = target[plans[q].of][s].plan
      <4> DEFINE q == member[u].plan
                 s == member[u].segment
      <4>1. plans'[q].of = plans[q].of
        BY <1>2, <3>1
      <4>2. target'[plans[q].of][s].plan = target[plans[q].of][s].plan
        BY <1>2, <3>1
      <4> QED
        BY <4>1, <4>2
    <3> QED
      BY <2>2, <2>4, <3>2 DEF Joined
  <2> QED
    BY <2>3, <2>4
<1>5. revision' \notin ended /\ revision' # 0
  <2>1. \A r \in ended : r <= revision
    BY <1>0 DEF RowsOK, BoundOK
  <2>2. revision \in Nat
    BY <1>0, AllocationAssumption DEF TypeOK
  <2> QED
    BY <1>2, <2>1, <2>2
<1>6. ASSUME NEW u \in Users, Joined(u)
      PROVE  HoldOf(u)' = HoldOf(u)
  <2> DEFINE q == member[u].plan
             s == member[u].segment
             d == plans[q].of
  <2>1. /\ q # 0 /\ q \in Plan /\ d \in Confirmations /\ s \in Segments
        /\ s \in Chosen[d]
    BY <1>6, MemberFacts DEF Joined
  <2>2. /\ member'[u].plan = q /\ member'[u].segment = s /\ plans'[q].of = d
        /\ status'[d][s] = status[d][s]
    BY <1>2, <1>3, <2>1
  <2>3. CASE d = c /\ s \in scope[t]
    <3>1. bound[d][s] = 0 /\ bound'[d][s] = revision'
      BY <1>1, <1>2, <2>1, <2>3
    <3>2. TargetActive(d, s)' <=> TargetActive(d, s)
      BY <1>2, <1>5, <2>2, <3>1 DEF TargetActive, Running
    <3>3. MemberTargetActive(u)' <=> MemberTargetActive(u)
      BY <2>2, <3>2 DEF MemberTargetActive
    <3> QED
      BY <2>2, <3>3 DEF HoldOf
  <2>4. CASE ~(d = c /\ s \in scope[t])
    <3>1. bound'[d][s] = bound[d][s]
      BY <1>2, <2>1, <2>4
    <3> QED
      BY <1>2, <2>1, <2>2, <3>1, HoldFrame
  <2> QED
    BY <2>3, <2>4
<1>7. \A u \in S : Joined(u) /\ Seen(u).state = "reserved"
  BY <1>1, MemberFacts DEF Joined, Seen
<1>8. \A u \in Users : Seen(u)' =
        IF u \in S
        THEN [state |-> "consumed", revision |-> revision', hold |-> Seen(u).hold]
        ELSE Seen(u)
  BY <1>3, <1>4, <1>6, <1>7 DEF Seen
<1>9. S \in SUBSET Users
  OBVIOUS
<1> HIDE DEF S
<1>10. Ledger!Consume(S)
  BY <1>2, <1>7, <1>8, <1>9, ChangeOfRows DEF Ledger!Consume
<1> QED
  BY <1>9, <1>10 DEF Ledger!LedgerNext, Ledger!Consume

LEMMA EndRunImplements ==
  ASSUME IInv, NEW r \in Plan, EndRun(r)
  PROVE  Ledger!LedgerNext
<1>1. ended' = ended \cup {r} /\ UNCHANGED <<revision, member, target, plans, bound, status>>
  BY DEF EndRun
<1>2. ASSUME NEW u \in Users
      PROVE  \/ Seen(u)' = Seen(u)
             \/ Seen(u).state # "none" /\ Seen(u)' = SeenAs(u, "over")
  <2>1. Joined(u)' = Joined(u)
    BY <1>1 DEF Joined
  <2>2. ASSUME Joined(u)
        PROVE  member[u].state # "none" /\ HoldOf(u)' \in {HoldOf(u), "over"}
    <3>1. MemberTargetActive(u)' => MemberTargetActive(u)
      BY <1>1 DEF MemberTargetActive, TargetActive, Running
    <3> QED
      BY <1>1, <2>2, <3>1, MemberFacts DEF HoldOf, Joined
  <2> QED
    BY <1>1, <2>1, <2>2 DEF Seen, SeenAs
<1> QED
  BY <1>1, <1>2, LapseOfRows

LEMMA StopImplements ==
  ASSUME IInv, NEW c \in Confirmations, NEW s \in Segments, StopTarget(c, s)
  PROVE  Ledger!LedgerNext
<1>1. /\ UNCHANGED <<revision, member, target, plans, bound, ended>>
      /\ \A d \in Confirmations, r \in Segments :
           status'[d][r] = status[d][r] \/ status'[d][r] = "stopped"
  BY StopFacts DEF IInv, tables
<1>2. ASSUME NEW u \in Users
      PROVE  \/ Seen(u)' = Seen(u)
             \/ Seen(u).state # "none" /\ Seen(u)' = SeenAs(u, "over")
  <2>1. Joined(u)' = Joined(u)
    BY <1>1 DEF Joined
  <2>2. ASSUME Joined(u)
        PROVE  member[u].state # "none" /\ HoldOf(u)' \in {HoldOf(u), "over"}
    <3> DEFINE d == plans[member[u].plan].of
               r == member[u].segment
    <3>1. /\ member[u].plan # 0 /\ member[u].state # "none"
          /\ d \in Confirmations /\ r \in Segments
      BY <2>2, MemberFacts DEF Joined
    <3>2. CASE status'[d][r] = status[d][r]
      BY <1>1, <3>1, <3>2, HoldFrame
    <3>3. CASE status'[d][r] = "stopped"
      BY <1>1, <3>1, <3>3 DEF HoldOf, MemberTargetActive, TargetActive
    <3> QED
      BY <1>1, <3>1, <3>2, <3>3
  <2> QED
    BY <1>1, <2>1, <2>2 DEF Seen, SeenAs
<1> QED
  BY <1>1, <1>2, LapseOfRows

LEMMA ReplayImplements ==
  ASSUME IInv, NEW t \in Sessions, Replay(t)
  PROVE  Ledger!LedgerNext
<1>1. /\ UNCHANGED <<revision, member, target, plans, bound, ended>>
      /\ \A d \in Confirmations, s \in Segments :
           \/ status'[d][s] = status[d][s]
           \/ status[d][s] = "stopped" /\ status'[d][s] = "reopened"
  BY ReplayFacts DEF tables
<1>2. ASSUME NEW u \in Users
      PROVE  \/ Seen(u)' = Seen(u)
             \/ Seen(u).hold = "over" /\ Seen(u)' = SeenAs(u, "again")
  <2>1. Joined(u)' = Joined(u)
    BY <1>1 DEF Joined
  <2>2. ASSUME Joined(u)
        PROVE  HoldOf(u)' # HoldOf(u) => HoldOf(u) = "over" /\ HoldOf(u)' = "again"
    <3>1. /\ member[u].plan # 0
          /\ plans[member[u].plan].of \in Confirmations /\ member[u].segment \in Segments
      BY <2>2, MemberFacts DEF Joined
    <3> QED
      BY <1>1, <3>1, HoldFrame
  <2> QED
    BY <1>1, <2>1, <2>2 DEF Seen, SeenAs
<1> QED
  BY <1>1, <1>2, ReturnOfRows

LEMMA LedgerStart == Init => Ledger!LedgerInit
BY DEF Init, NoMember, Joined, Ledger!LedgerInit, Ledger!NoRow

(* What a reader sees changes by steps of the ledger only.                  *)
LEMMA LedgerStep ==
  IInv /\ [Next]_vars =>
    Ledger!LedgerNext \/ UNCHANGED <<revision, [u \in Users |-> Seen(u)]>>
<1>1. UNCHANGED rows => UNCHANGED <<revision, [u \in Users |-> Seen(u)]>>
  BY DEF rows, Seen, HoldOf, Joined, MemberTargetActive, TargetActive, Running
<1>2. SUFFICES ASSUME IInv, [Next]_vars
               PROVE  Ledger!LedgerNext \/ UNCHANGED rows
  BY <1>1
<1>3. ASSUME NEW t \in Sessions,
             \/ ConfirmReserve(t) \/ ReleaseCommit(t) \/ BindCommit(t) \/ Replay(t)
      PROVE  Ledger!LedgerNext
  BY <1>2, <1>3, ReserveImplements, ReleaseImplements, BindImplements, ReplayImplements
<1>4. ASSUME NEW r \in Plan, EndRun(r)
      PROVE  Ledger!LedgerNext
  BY <1>2, <1>4, EndRunImplements
<1>5. ASSUME NEW c \in Confirmations, NEW s \in Segments, StopTarget(c, s)
      PROVE  Ledger!LedgerNext
  BY <1>2, <1>5, StopImplements
<1> QED
  BY <1>2, <1>3, <1>4, <1>5, WritingSteps

(* Confirmations, new and sent again, releases, bindings, ends of runs and  *)
(* stops of targets are the steps of the ledger that the projection into    *)
(* ClickHouse reads.                                                        *)
THEOREM AllocationImplementsLedger == Spec => ImplementsLedger
<1>1. IInv /\ [Next]_vars =>
        [Ledger!LedgerNext]_<<revision, [u \in Users |->
            IF Joined(u)
            THEN [state |-> member[u].state, revision |-> member[u].revision,
                  hold |-> HoldOf(u)]
            ELSE [state |-> "none", revision |-> 0, hold |-> "kept"]]>>
  BY LedgerStep DEF Seen
<1> QED
  BY Invariance, LedgerStart, <1>1, PTL DEF Spec, ImplementsLedger, Ledger!LedgerSpec
=============================================================================
