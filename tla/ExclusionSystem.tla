--------------------------- MODULE ExclusionSystem ---------------------------
(***************************************************************************)
(* AudienceAllocation and ExclusionProjection together: confirmations,      *)
(* releases and bindings write the exclusions in PostgreSQL, runs end and   *)
(* targets are stopped there, while any number of loads copy the exclusions *)
(* into ClickHouse.  A step belongs to one of the two and leaves the        *)
(* variables of the other alone; what the loads read are the members joined *)
(* with their targets.                                                      *)
(*                                                                         *)
(* The projection keeps its promises over these writers, as it does over    *)
(* any that implement ExclusionLedger.  And the two keep one that neither   *)
(* has alone: from the confirmation on, through the binding to a run, until *)
(* a release, the end of the run or a stop of the target, whoever is        *)
(* allotted to a segment is hidden from every search that goes by a status  *)
(* of that revision.                                                        *)
(***************************************************************************)
EXTENDS AudienceAllocationProofs, FiniteSets

CONSTANT Loads

VARIABLES view, applied, at, rev, count, batch  \* of ExclusionProjection

copy == <<view, applied, at, rev, count, batch>>

(* SELECT ... FROM promotion_audience_exclusion_members JOIN the targets    *)
Copy == INSTANCE ExclusionProjectionProofs WITH
  pc <- at,
  row <- [u \in Users |->
            IF Joined(u)
            THEN [state |-> member[u].state, revision |-> member[u].revision,
                  hold |-> HoldOf(u)]
            ELSE [state |-> "none", revision |-> 0, hold |-> "kept"]]

SystemInit == Init /\ Copy!Init

Writers == Next /\ UNCHANGED copy
Loading == /\ \E t \in Loads : \/ Copy!Load(t) \/ Copy!Compare(t) \/ Copy!Members(t)
                               \/ Copy!Insert(t) \/ Copy!Checkpoint(t) \/ Copy!Leave(t)
           /\ UNCHANGED vars

System == SystemInit /\ [][Writers \/ Loading]_<<vars, copy>>

-----------------------------------------------------------------------------
(* The plan p has the user u: it is not released, the run of the segment is *)
(* not over, and the target of the segment is of this plan and was never    *)
(* stopped.                                                                 *)
Taken(p, u) ==
  LET s == plans[p].won[u]
  IN  /\ s # None /\ Holds(p, s)
      /\ target[plans[p].of][s].plan = p

Hidden(u) == view[u].state \in {"reserved", "consumed"}

(* The number of a plan is the revision that its confirmation wrote.  A     *)
(* status of that revision, or of a later one, hides the users of the plan  *)
(* for as long as it has them, however often their rows have changed since  *)
(* and whichever loads wrote late or were cut off.                          *)
TakenAreHidden ==
  \A a \in applied : \A p \in Plan : \A u \in Users :
    p <= a /\ Taken(p, u) => Hidden(u)

(* No row of v, at or above the revision of a plan, frees a user it has.    *)
Respects(v) == \A p \in Plan : \A u \in Users :
  Taken(p, u) /\ v[u].revision >= p => v[u].state \in {"reserved", "consumed"}

(* v is as new as every plan of the revision n or before.                   *)
Knows(v, n) == \A p \in Plan : \A u \in Users :
  Taken(p, u) /\ p <= n => v[u].revision >= p

LoadKnows(t) == /\ Respects(batch[t])
                /\ at[t] = "insert" => Knows(batch[t], rev[t])
                /\ at[t] = "checkpoint" => Knows(view, rev[t])

(* A row is as new as the plan that it names.                               *)
MembersFollowPlans == \A u \in Users : member[u].plan <= member[u].revision

HInv == /\ MembersFollowPlans
        /\ Respects(view) /\ \A a \in applied : Knows(view, a)
        /\ \A t \in Loads : LoadKnows(t)

-----------------------------------------------------------------------------
LEMMA SystemWrites == System => Spec
<1>1. [Writers \/ Loading]_<<vars, copy>> => [Next]_vars
  BY DEF Writers, Loading
<1> QED
  BY <1>1, PTL DEF System, SystemInit, Spec

(* Allocation and projection together implement the projection over writers *)
(* of whom only ExclusionLedger is known: the abstraction loses nothing.    *)
THEOREM SystemImplementsProjection == System => Copy!Spec
<1>1. IInv /\ Writers => Copy!Write \/ UNCHANGED Copy!vars
  <2>1. SUFFICES ASSUME IInv, Writers PROVE Copy!Write \/ UNCHANGED Copy!vars
    OBVIOUS
  <2>2. CASE Ledger!LedgerNext
    BY <2>1, <2>2 DEF Writers, copy, Copy!Write, Ledger!LedgerNext, Copy!LedgerNext,
         Ledger!Reserve, Copy!Reserve, Ledger!Consume, Copy!Consume,
         Ledger!Release, Copy!Release, Ledger!Lose, Copy!Lose,
         Ledger!Lapse, Copy!Lapse, Ledger!Return, Copy!Return,
         Ledger!Held, Copy!Held, Ledger!WereOver, Copy!WereOver,
         Ledger!Advanced, Copy!Advanced, Ledger!Change, Copy!Change,
         Ledger!NoRow, Copy!NoRow, Ledger!Active, Copy!Active,
         Ledger!ActiveRow, Copy!ActiveRow
  <2>3. CASE UNCHANGED <<revision, [u \in Users |-> Seen(u)]>>
    BY <2>1, <2>3 DEF Writers, copy, Seen, Copy!vars, Copy!ledger
  <2> QED
    BY <2>1, <2>2, <2>3, LedgerStep DEF Writers
<1>2. Loading => Copy!Next
  BY DEF Loading, Copy!Next
<1>3. UNCHANGED <<vars, copy>> => UNCHANGED Copy!vars
  BY DEF vars, rows, copy, Copy!vars, Copy!ledger, Joined, HoldOf,
         MemberTargetActive, TargetActive, Running
<1>4. IInv /\ [Writers \/ Loading]_<<vars, copy>> => [Copy!Next]_(Copy!vars)
  BY <1>1, <1>2, <1>3 DEF Copy!Next
<1> QED
  BY SystemWrites, Invariance, <1>4, PTL DEF System, SystemInit, Copy!Spec

(* What ExclusionProjection promises over any writers holds over these: a   *)
(* revision in the status stands for its members, and equal numbers of      *)
(* excluded users mean equal sets.                                          *)
THEOREM ProjectionIsRight ==
  ASSUME IsFiniteSet(Users)
  PROVE  System => [](Copy!CheckpointCovers /\ Copy!EqualCountsSuffice)
<1>1. Copy!IsFiniteSet(Users) /\ MaxRevision \in Nat
  BY AllocationAssumption DEF IsFiniteSet, Copy!IsFiniteSet
<1> QED
  BY <1>1, SystemImplementsProjection, Copy!StatusCoversMembers,
     Copy!CountsAreEnough, PTL

-----------------------------------------------------------------------------
LEMMA Types ==
  ASSUME IInv, Copy!IInv
  PROVE  /\ revision \in Nat
         /\ \A u \in Users : /\ member[u].plan \in Nat /\ member[u].revision \in Nat
                             /\ view[u].revision \in Nat /\ view[u].revision <= revision
         /\ \A t \in Loads : /\ rev[t] \in Nat /\ rev[t] <= revision
                             /\ \A u \in Users : /\ batch[t][u].revision \in Nat
                                                 /\ batch[t][u].revision <= revision
         /\ \A a \in applied : a \in Nat /\ a <= revision
         /\ DOMAIN at = Loads /\ view \in [Users -> Copy!ViewRow]
         /\ batch \in [Loads -> [Users -> Copy!ViewRow]]
<1>1. /\ revision \in 0 .. MaxRevision /\ member \in [Users -> Member]
      /\ MaxRevision \in Nat
  BY AllocationAssumption DEF IInv, TypeOK
<1>2. Copy!TypeOK /\ Copy!Bounded
  BY DEF Copy!IInv
<1>3. /\ view \in [Users -> Copy!ViewRow] /\ applied \subseteq 0 .. MaxRevision
      /\ DOMAIN at = Loads /\ rev \in [Loads -> 0 .. MaxRevision]
      /\ batch \in [Loads -> [Users -> Copy!ViewRow]]
  BY <1>2 DEF Copy!TypeOK, Copy!Revision
<1>4. \A u \in Users : member[u].plan \in Nat /\ member[u].revision \in Nat
  BY <1>1 DEF Member
<1>5. \A u \in Users : view[u].revision \in Nat
  BY <1>1, <1>3 DEF Copy!ViewRow, Copy!Revision
<1>6. \A t \in Loads : \A u \in Users : batch[t][u].revision \in Nat
  BY <1>1, <1>3 DEF Copy!ViewRow, Copy!Revision
<1>7. /\ \A u \in Users : view[u].revision <= revision
      /\ \A t \in Loads : rev[t] <= revision
      /\ \A t \in Loads : \A u \in Users : batch[t][u].revision <= revision
      /\ \A a \in applied : a <= revision
  BY <1>2 DEF Copy!Bounded
<1> QED
  BY <1>1, <1>3, <1>4, <1>5, <1>6, <1>7

LEMMA InitHInv == SystemInit => HInv
<1> SUFFICES ASSUME SystemInit PROVE HInv
  OBVIOUS
<1>1. \A p \in Plan : \A u \in Users : ~Taken(p, u)
  BY DEF SystemInit, Init, Taken, Holds, Live, NoPlan
<1>2. MembersFollowPlans
  BY DEF MembersFollowPlans, SystemInit, Init, NoMember
<1> QED
  BY <1>1, <1>2 DEF HInv, Respects, Knows, LoadKnows, SystemInit, Copy!Init

-----------------------------------------------------------------------------
(* Only a confirmation gives a plan its users, and the plan is newer than   *)
(* all that has been written or read before it.                             *)
LEMMA TakenBefore ==
  ASSUME IInv, Next, NEW p \in Plan, NEW u \in Users, Taken(p, u)'
  PROVE  Taken(p, u) \/ p = revision + 1
<1> DEFINE c == plans[p].of
           s == plans[p].won[u]
<1>1. SUFFICES ASSUME p # revision + 1 PROVE Taken(p, u)
  OBVIOUS
<1>2. CASE UNCHANGED rows
  BY <1>2 DEF rows, Taken, Holds, Live, TargetActive, Running
<1>3. CASE \E t \in Sessions : ConfirmReserve(t)
  <2>1. PICK t \in Sessions : ConfirmReserve(t)
    BY <1>3
  <2>2. plans'[p] = plans[p] /\ UNCHANGED <<bound, ended>> /\ Restopped
    <3>1. plans'[p] = plans[p] /\ UNCHANGED <<bound, ended>> /\ Approve(of[t])
      BY <1>1, <2>1 DEF ConfirmReserve, IInv, TypeOK
    <3>2. of[t] \in Confirmations
      BY <2>1, ReserveFacts
    <3> QED
      BY <3>1, <3>2, ApproveFacts DEF IInv, RowsOK
  <2>3. s # None /\ Holds(p, s)
    BY <2>2, HeldBefore DEF Taken, Holds, Live, IInv
  <2>4. c \in Confirmations /\ s \in Chosen[c] /\ s \in Segments
    BY <2>3, ChosenType DEF Holds, Live, IInv, RowsOK, PlansOK
  <2>5. target'[c][s].plan = p
    BY <2>2 DEF Taken
  <2>6. target[c][s].plan = p
    BY <1>1, <2>1, <2>4, <2>5 DEF ConfirmReserve, IInv, TypeOK
  <2> QED
    BY <2>3, <2>6 DEF Taken
<1>4. CASE \E t \in Sessions : ReleaseCommit(t)
  <2>1. PICK t \in Sessions : ReleaseCommit(t)
    BY <1>4
  <2>2. UNCHANGED <<bound, ended, status>>
    BY <2>1 DEF ReleaseCommit
  <2>3. /\ plans'[p].of = c /\ plans'[p].won = plans[p].won
        /\ Live(p)' => Live(p)
    BY <2>1 DEF ReleaseCommit, Live, IInv, TypeOK, PlanRow
  <2>4. s # None /\ Holds(p, s)
    BY <2>2, <2>3 DEF Taken, Holds, TargetActive, Running
  <2>5. c \in Confirmations /\ s \in Chosen[c] /\ s \in Segments
    BY <2>4, ChosenType DEF Holds, Live, IInv, RowsOK, PlansOK
  <2>6. target'[c][s].plan = target[c][s].plan
    BY <2>1, <2>5 DEF ReleaseCommit, IInv, TypeOK
  <2> QED
    BY <2>3, <2>4, <2>6 DEF Taken
<1>5. CASE \E t \in Sessions : BindCommit(t)
  <2>1. PICK t \in Sessions : BindCommit(t)
    BY <1>5
  <2> DEFINE d == of[t]
             q == PlanOf(t)
  <2>2. /\ d \in Confirmations /\ q \in Plan /\ Live(q)
        /\ scope[t] \subseteq Segments
        /\ \A r \in scope[t] : target[d][r].plan = q /\ bound[d][r] = 0
    BY <2>1, BindFacts
  <2>3. /\ plans'[p].of = c /\ plans'[p].won = plans[p].won
        /\ Live(p)' => Live(p)
    BY <2>1, <2>2 DEF BindCommit, Live, IInv, TypeOK, PlanRow
  <2>4. s # None /\ Live(p)
    BY <2>3 DEF Taken, Holds
  <2>5. c \in Confirmations /\ s \in Chosen[c] /\ s \in Segments
    BY <2>4, ChosenType DEF Live, IInv, RowsOK, PlansOK
  <2>6. target'[c][s].plan = target[c][s].plan
    BY <2>1, <2>2, <2>5 DEF BindCommit, IInv, TypeOK
  <2>7. TargetActive(c, s)
    <3>1. (bound'[c][s] = 0 \/ bound'[c][s] \notin ended')
          /\ UNCHANGED <<ended, status>> /\ status'[c][s] = "open"
      BY <2>1, <2>3 DEF Taken, Holds, TargetActive, Running, BindCommit
    <3>2. bound'[c][s] = bound[c][s] \/ (c = d /\ s \in scope[t])
      BY <2>1, <2>5 DEF BindCommit, IInv, TypeOK
    <3> QED
      BY <2>2, <3>1, <3>2 DEF TargetActive, Running
  <2>8. status[c][s] = "open"
    BY <2>1, <2>3 DEF Taken, Holds, BindCommit
  <2> QED
    BY <2>3, <2>4, <2>6, <2>7, <2>8 DEF Taken, Holds
<1>6. CASE \E r \in Plan : EndRun(r)
  BY <1>6 DEF EndRun, Taken, Holds, Live, TargetActive, Running
<1>7. CASE \/ \E d \in Confirmations, r \in Segments : StopTarget(d, r)
           \/ \E t \in Sessions : Replay(t)
  <2>1. UNCHANGED tables /\ Restopped
    <3>1. CASE \E d \in Confirmations, r \in Segments : StopTarget(d, r)
      BY <3>1, StopFacts DEF IInv
    <3>2. CASE \E t \in Sessions : Replay(t)
      BY <3>2, ReplayFacts
    <3> QED
      BY <1>7, <3>1, <3>2
  <2>2. s # None /\ Holds(p, s)
    BY <2>1, HeldBefore DEF tables, Taken, Holds, Live, IInv
  <2> QED
    BY <2>1, <2>2 DEF tables, Taken
<1> QED
  BY <1>2, <1>3, <1>4, <1>5, <1>6, <1>7, WritingSteps

LEMMA MembersFollow ==
  ASSUME IInv, Next, MembersFollowPlans
  PROVE  MembersFollowPlans'
<1>1. SUFFICES ASSUME NEW u \in Users
               PROVE  member'[u].plan <= member'[u].revision
  BY DEF MembersFollowPlans
<1>2. /\ revision \in Nat /\ member[u] \in Member
      /\ member[u].plan <= member[u].revision
      /\ member[u].plan # 0 => member[u].plan <= revision
  BY AllocationAssumption, MemberFacts DEF IInv, TypeOK, MembersFollowPlans
<1>3. CASE member'[u] = member[u]
  BY <1>2, <1>3
<1>4. CASE \E t \in Sessions : ConfirmReserve(t)
  <2>1. \/ member'[u] = member[u]
        \/ member'[u].plan = revision + 1 /\ member'[u].revision = revision + 1
    BY <1>4 DEF ConfirmReserve
  <2> QED
    BY <1>2, <1>3, <2>1
<1>5. ASSUME NEW t \in Sessions, ReleaseCommit(t) \/ BindCommit(t)
      PROVE  member'[u].plan <= member'[u].revision
  <2>1. PlanOf(t) \in Plan /\ revision' = revision + 1
    BY <1>5, ReleaseFacts, BindFacts
  <2>2. \/ member'[u] = member[u]
        \/ /\ member[u].plan = PlanOf(t)
           /\ member'[u] = Moved(u, "released") \/ member'[u] = Moved(u, "consumed")
    BY <1>5 DEF ReleaseCommit, BindCommit
  <2>3. CASE member[u].plan = PlanOf(t) /\ member'[u] # member[u]
    <3>1. member'[u].plan = member[u].plan /\ member'[u].revision = revision + 1
      BY <1>2, <2>1, <2>2, <2>3 DEF Moved, Member
    <3> QED
      BY <1>2, <2>1, <2>3, <3>1 DEF Plan
  <2> QED
    BY <1>3, <2>2, <2>3
<1> QED
  BY <1>3, <1>4, <1>5, WritingSteps DEF rows, EndRun, StopTarget, Replay

-----------------------------------------------------------------------------
LEMMA WritersKeep ==
  ASSUME IInv, Copy!IInv, HInv, Writers
  PROVE  HInv'
<1>1. MembersFollowPlans'
  BY MembersFollow DEF HInv, Writers
<1>2. ASSUME NEW v, \A u \in Users : v[u].revision \in Nat /\ v[u].revision <= revision,
             Respects(v)
      PROVE  \A p \in Plan : \A u \in Users : Taken(p, u)' /\ v[u].revision >= p =>
               v[u].state \in {"reserved", "consumed"}
  BY <1>2, TakenBefore, Types DEF Writers, Respects
<1>3. ASSUME NEW v, NEW n \in Nat, n <= revision, Knows(v, n)
      PROVE  \A p \in Plan : \A u \in Users : Taken(p, u)' /\ p <= n =>
               v[u].revision >= p
  BY <1>3, TakenBefore, Types DEF Writers, Knows
<1>4. Respects(view)' /\ \A a \in applied' : Knows(view, a)'
  <2>1. Respects(view)'
    BY <1>2, Types DEF HInv, Writers, copy, Respects
  <2>2. \A a \in applied : Knows(view, a)'
    BY <1>3, Types DEF HInv, Writers, copy, Knows
  <2> QED
    BY <2>1, <2>2 DEF Writers, copy
<1>5. ASSUME NEW t \in Loads PROVE LoadKnows(t)'
  <2>1. LoadKnows(t)
    BY DEF HInv
  <2>2. Respects(batch[t])'
    BY <1>2, <2>1, Types DEF LoadKnows, Writers, copy, Respects
  <2>3. at[t] = "insert" => Knows(batch[t], rev[t])'
    BY <1>3, <2>1, Types DEF LoadKnows, Writers, copy, Knows
  <2>4. at[t] = "checkpoint" => Knows(view, rev[t])'
    BY <1>3, <2>1, Types DEF LoadKnows, Writers, copy, Knows
  <2> QED
    BY <2>2, <2>3, <2>4 DEF LoadKnows, Writers, copy
<1> QED
  BY <1>1, <1>4, <1>5 DEF HInv

(* A load sees a user whom a plan has as excluded, in a row as new as the   *)
(* plan.                                                                    *)
LEMMA TakenIsSeen ==
  ASSUME IInv, MembersFollowPlans, NEW p \in Plan, NEW u \in Users, Taken(p, u)
  PROVE  /\ Seen(u).state \in {"reserved", "consumed"}
         /\ Seen(u).revision >= p /\ Seen(u).hold = "kept"
<1> DEFINE s == plans[p].won[u]
<1>1. /\ member[u].plan = p /\ member[u].segment = s
      /\ member[u].state \in {"reserved", "consumed"}
  BY DEF Taken, IInv, RowsOK, PlanKeepsUsers
<1>2. Joined(u) /\ MemberTargetActive(u)
  BY <1>1, AllocationAssumption DEF Taken, Joined, MemberTargetActive, Holds, Plan
<1>3. member[u].revision >= p
  BY <1>1 DEF MembersFollowPlans
<1>4. HoldOf(u) = "kept"
  BY <1>1, <1>2 DEF HoldOf, Taken, Holds
<1> QED
  BY <1>1, <1>2, <1>3, <1>4 DEF Seen

-----------------------------------------------------------------------------
(* Nothing that a load does changes who is taken.                           *)
LEMMA TakenStays ==
  ASSUME UNCHANGED vars
  PROVE  /\ \A p, u : Taken(p, u)' = Taken(p, u)
         /\ MembersFollowPlans' = MembersFollowPlans
BY DEF vars, rows, Taken, Holds, Live, TargetActive, Running, MembersFollowPlans

(* The steps of a load that write no row into ClickHouse, and read none.    *)
LEMMA PlainStepKeeps ==
  ASSUME IInv, Copy!IInv, HInv, UNCHANGED vars, NEW t \in Loads,
         Copy!Load(t) \/ Copy!Compare(t) \/ Copy!Leave(t) \/ Copy!Checkpoint(t)
  PROVE  HInv'
<1>1. /\ view' = view /\ LoadKnows(t)
      /\ \A x \in Loads \ {t} : /\ at'[x] = at[x] /\ rev'[x] = rev[x]
                                /\ batch'[x] = batch[x]
  BY Types DEF HInv, Copy!Load, Copy!Compare, Copy!Leave, Copy!Checkpoint,
               Copy!Finish, Copy!GoTo, Copy!IInv, Copy!TypeOK
<1>2. /\ at'[t] \notin {"insert", "checkpoint"}
      /\ batch'[t] \in {batch[t], Copy!NoBatch}
  BY Types DEF Copy!Load, Copy!Compare, Copy!Leave, Copy!Checkpoint, Copy!Finish,
               Copy!GoTo, Copy!IInv, Copy!TypeOK
<1>3. \/ applied' = applied
      \/ applied' = applied \cup {rev[t]} /\ at[t] = "checkpoint"
  BY DEF Copy!Load, Copy!Compare, Copy!Leave, Copy!Checkpoint
<1>4. Respects(Copy!NoBatch)
  <2>1. \A u \in Users : Copy!NoBatch[u].revision = 0
    BY DEF Copy!NoBatch, Copy!Absent
  <2> QED
    BY <2>1, AllocationAssumption DEF Respects, Plan
<1>5. Respects(view)' /\ \A a \in applied' : Knows(view, a)'
  <2>1. \A a \in applied' : Knows(view, a)
    BY <1>1, <1>3 DEF HInv, LoadKnows
  <2> QED
    BY <1>1, <2>1, TakenStays DEF HInv, Respects, Knows
<1>6. ASSUME NEW x \in Loads PROVE LoadKnows(x)'
  <2>1. CASE x = t
    <3>1. Respects(batch'[t])
      BY <1>1, <1>2, <1>4 DEF LoadKnows
    <3> QED
      BY <1>2, <2>1, <3>1, TakenStays DEF LoadKnows, Respects
  <2>2. CASE x # t
    <3>1. /\ LoadKnows(x)
          /\ at'[x] = at[x] /\ rev'[x] = rev[x] /\ batch'[x] = batch[x]
      BY <1>1, <2>2 DEF HInv
    <3> QED
      BY <1>1, <3>1, TakenStays DEF LoadKnows, Respects, Knows
  <2> QED
    BY <2>1, <2>2
<1> QED
  BY <1>5, <1>6, TakenStays DEF HInv

LEMMA MembersKeeps ==
  ASSUME IInv, Copy!IInv, HInv, UNCHANGED vars, NEW t \in Loads, Copy!Members(t)
  PROVE  HInv'
<1> DEFINE new == [u \in Users |-> Copy!Projected(Seen(u), rev[t])]
<1>1. /\ UNCHANGED <<view, applied, rev>>
      /\ at' = [at EXCEPT ![t] = "insert"] /\ batch' = [batch EXCEPT ![t] = new]
  BY DEF Copy!Members, Copy!GoTo, Seen
<1>2. ASSUME NEW p \in Plan, NEW u \in Users, Taken(p, u)
      PROVE  new[u].revision >= p /\ new[u].state \in {"reserved", "consumed"}
  BY <1>2, TakenIsSeen DEF HInv, Copy!Projected
<1> HIDE DEF new
<1>3. /\ at'[t] = "insert" /\ batch'[t] = new
      /\ \A x \in Loads \ {t} : at'[x] = at[x] /\ batch'[x] = batch[x]
  BY <1>1, Types
<1>4. Respects(view)' /\ \A a \in applied' : Knows(view, a)'
  BY <1>1, TakenStays DEF HInv, Respects, Knows
<1>5. ASSUME NEW x \in Loads PROVE LoadKnows(x)'
  <2>1. CASE x = t
    BY <1>2, <1>3, <2>1, TakenStays DEF LoadKnows, Respects, Knows
  <2>2. CASE x # t
    <3>1. LoadKnows(x)
      BY DEF HInv
    <3> QED
      BY <1>1, <1>3, <2>2, <3>1, TakenStays DEF LoadKnows, Respects, Knows
  <2> QED
    BY <2>1, <2>2
<1> QED
  BY <1>4, <1>5, TakenStays DEF HInv

(* Whatever the relation keeps of the old rows and the new ones, no row     *)
(* gets older.                                                              *)
LEMMA InsertKeeps ==
  ASSUME IInv, Copy!IInv, HInv, UNCHANGED vars, NEW t \in Loads, Copy!Insert(t)
  PROVE  HInv'
<1>1. /\ UNCHANGED <<applied, rev, batch>>
      /\ at[t] = "insert" /\ at' = [at EXCEPT ![t] = "checkpoint"]
      /\ view' \in Copy!Merged(view, batch[t]) /\ LoadKnows(t)
  BY DEF Copy!Insert, Copy!GoTo, HInv
<1>2. at'[t] = "checkpoint" /\ \A x \in Loads \ {t} : at'[x] = at[x]
  BY <1>1, Types
<1>3. \A u \in Users :
        \/ /\ view'[u] = batch[t][u] /\ batch[t][u].revision >= view[u].revision
        \/ /\ view'[u] = view[u]
           /\ \/ batch[t][u].state = "none"
              \/ view[u].revision >= batch[t][u].revision
  BY <1>1 DEF Copy!Merged
<1>4. Respects(batch[t]) /\ Knows(batch[t], rev[t])
  BY <1>1 DEF LoadKnows
<1>5. \A p \in Plan : \A u \in Users :
        Taken(p, u) /\ view'[u].revision >= p =>
          view'[u].state \in {"reserved", "consumed"}
  BY <1>3, <1>4 DEF HInv, Respects
<1>6. \A p \in Plan : \A u \in Users :
        view[u].revision >= p => view'[u].revision >= p
  BY <1>3, Types DEF Plan
<1>7. \A p \in Plan : \A u \in Users :
        Taken(p, u) /\ p <= rev[t] => view'[u].revision >= p
  <2>1. SUFFICES ASSUME NEW p \in Plan, NEW u \in Users, Taken(p, u), p <= rev[t]
                 PROVE  view'[u].revision >= p
    OBVIOUS
  <2>2. batch[t][u].revision >= p /\ batch[t][u].state # "none"
    BY <1>4, <2>1 DEF Respects, Knows
  <2> QED
    BY <1>3, <2>2, Types DEF Plan
<1>8. Respects(view)' /\ \A a \in applied' : Knows(view, a)'
  BY <1>1, <1>5, <1>6, TakenStays DEF HInv, Respects, Knows
<1>9. ASSUME NEW x \in Loads PROVE LoadKnows(x)'
  <2>1. LoadKnows(x)
    BY DEF HInv
  <2>2. Respects(batch[x])' /\ (at[x] = "insert" => Knows(batch[x], rev[x])')
    BY <1>1, <2>1, TakenStays DEF LoadKnows, Respects, Knows
  <2>3. at[x] = "checkpoint" => Knows(view, rev[x])'
    BY <1>1, <1>6, <2>1, TakenStays DEF LoadKnows, Knows
  <2>4. x = t => Knows(view, rev[x])'
    BY <1>1, <1>7, TakenStays DEF Knows
  <2> QED
    BY <1>2, <2>2, <2>3, <2>4 DEF LoadKnows
<1> QED
  BY <1>8, <1>9, TakenStays DEF HInv

LEMMA SystemInvariance ==
  ASSUME IsFiniteSet(Users) PROVE System => [](IInv /\ HInv)
<1>1. Copy!IsFiniteSet(Users) /\ MaxRevision \in Nat
  BY AllocationAssumption DEF IsFiniteSet, Copy!IsFiniteSet
<1>2. System => []IInv /\ []Copy!IInv
  BY <1>1, SystemWrites, Invariance, SystemImplementsProjection, Copy!Invariance, PTL
<1>3. IInv /\ Copy!IInv /\ HInv /\ [Writers \/ Loading]_<<vars, copy>> => HInv'
  <2>1. SUFFICES ASSUME IInv, Copy!IInv, HInv, [Writers \/ Loading]_<<vars, copy>>
                 PROVE  HInv'
    OBVIOUS
  <2>2. CASE Writers
    BY <2>1, <2>2, WritersKeep
  <2>3. CASE Loading
    BY <2>1, <2>3, PlainStepKeeps, MembersKeeps, InsertKeeps DEF Loading
  <2>4. CASE UNCHANGED <<vars, copy>>
    BY <2>1, <2>4, TakenStays DEF copy, HInv, LoadKnows, Respects, Knows
  <2> QED
    BY <2>1, <2>2, <2>3, <2>4
<1> QED
  BY <1>2, <1>3, InitHInv, PTL DEF System

(* A status hides the users of a plan whose confirmation it has, whatever   *)
(* allocation and loads do at the same time (audience_allocation.py,        *)
(* audience_snapshots.py and audience_exclusions.py together).              *)
THEOREM StatusHidesTaken ==
  ASSUME IsFiniteSet(Users) PROVE System => []TakenAreHidden
<1>1. HInv => TakenAreHidden
  BY DEF HInv, TakenAreHidden, Hidden, Knows, Respects
<1> QED
  BY <1>1, SystemInvariance, PTL
=============================================================================
