------------------------- MODULE AudienceAllocation -------------------------
(***************************************************************************)
(* Who gets which advertisement of one promotion: the confirmation of       *)
(* recommended segments, which allots every user to one of them and         *)
(* reserves the user (confirm_selection in app/audience_allocation.py),     *)
(* the release of a confirmation (release_reserved_target), and the         *)
(* binding of confirmed targets to a run (bind_run_targets in               *)
(* app/decision/audience_snapshots.py), which consumes the reservations.    *)
(*                                                                         *)
(* A session runs one transaction at a time at READ COMMITTED.  All writes  *)
(* come after the update of the revision row, which stays locked until the  *)
(* commit, so that the statements from there to the commit are one step;    *)
(* those before it are steps of their own.  A target names one plan, and    *)
(* its row is locked together with the row of the plan.  The number of a    *)
(* plan, whose identifier is a hash over the revision read, and of a run is *)
(* the revision that its transaction wrote.  Previews and counts are left   *)
(* out, and so is a repeated binding of the same run, which writes nothing. *)
(***************************************************************************)
EXTENDS Naturals, FiniteSets

CONSTANTS Users, Segments,
          Confirmations,  \* by analysis, a hash over source and selection
          Batch,          \* recommendation analysis confirmed from
          Chosen,         \* segments selected
          Source,         \* members of the source snapshots of a batch
          Rank,           \* order of the segments for a user
          Sessions,
          MaxRevision,    \* bound: revisions of the promotion
          Stoppable,      \* bound: targets that somebody may stop
          None

Plan == 1 .. MaxRevision

ASSUME AllocationAssumption ==
         /\ Chosen \in [Confirmations -> (SUBSET Segments) \ {{}}]
         /\ \A c \in Confirmations :
              Source[Batch[c]] \in [Segments -> SUBSET Users]
         /\ \A u \in Users : \A S \in (SUBSET Segments) \ {{}} :
              \E s \in S : \A r \in S \ {s} : Rank[u][s] < Rank[u][r]
         /\ MaxRevision \in Nat \ {0}
         /\ None \notin Segments \cup Confirmations \cup Sessions

VARIABLES revision,  \* promotion_audience_exclusion_state
          member,    \* promotion_audience_exclusion_members, by user
          target,    \* promotion_target_segments, by analysis and segment
          plans,     \* segment_audience_allocation_plans and final snapshots
          bound,     \* promotion_run_target_bindings: run of a target, or 0
          ended,     \* runs with a terminal status
          status,    \* of a target: stopped, or approved again after that
          advisory,  \* session with the lock on the promotion
          rowLock,   \* session with the rows of a plan and of its targets
          pc, of,    \* where a session is, and for which confirmation
          scope,     \* segments that a run wants
          read,      \* revision that it has read
          won,       \* temporary table audience_allocation_winners
          unbound    \* snapshot of a release: no binding, nothing consumed

rows == <<revision, member, target, plans, bound, ended, status>>
local == <<pc, of, scope, read, won, unbound>>
vars == <<rows, advisory, rowLock, local>>

Member == [plan : 0 .. MaxRevision, segment : Segments \cup {None},
           state : {"none", "reserved", "consumed", "released"},
           revision : 0 .. MaxRevision]
NoMember == [plan |-> 0, segment |-> None, state |-> "none", revision |-> 0]
Target == [plan : 0 .. MaxRevision,
           state : {"none", "reserved", "consumed", "released"}]
NoTarget == [plan |-> 0, state |-> "none"]
Allotment == [Users -> Segments \cup {None}]
Nobody == [u \in Users |-> None]
PlanRow == [of : Confirmations \cup {None}, won : Allotment,
            status : {"none", "finalized", "locked", "released"}]
NoPlan == [of |-> None, won |-> Nobody, status |-> "none"]

TypeOK ==
  /\ revision \in 0 .. MaxRevision
  /\ member \in [Users -> Member]
  /\ target \in [Confirmations -> [Segments -> Target]]
  /\ plans \in [Plan -> PlanRow]
  /\ bound \in [Confirmations -> [Segments -> 0 .. MaxRevision]]
  /\ ended \subseteq Plan
  /\ status \in [Confirmations -> [Segments -> {"open", "stopped", "reopened"}]]
  /\ advisory \in Sessions \cup {None}
  /\ rowLock \in [Plan -> Sessions \cup {None}]
  /\ pc \in [Sessions -> {"idle", "find", "segments", "context", "winners",
                          "reserve", "look", "row", "revision", "release",
                          "bind", "consume"}]
  /\ of \in [Sessions -> Confirmations \cup {None}]
  /\ scope \in [Sessions -> SUBSET Segments]
  /\ read \in [Sessions -> 0 .. MaxRevision]
  /\ won \in [Sessions -> Allotment]
  /\ unbound \in [Sessions -> BOOLEAN]

Init == /\ revision = 0
        /\ member = [u \in Users |-> NoMember]
        /\ target = [c \in Confirmations |-> [s \in Segments |-> NoTarget]]
        /\ plans = [p \in Plan |-> NoPlan]
        /\ bound = [c \in Confirmations |-> [s \in Segments |-> 0]]
        /\ ended = {}
        /\ status = [c \in Confirmations |-> [s \in Segments |-> "open"]]
        /\ advisory = None
        /\ rowLock = [p \in Plan |-> None]
        /\ pc = [t \in Sessions |-> "idle"]
        /\ of = [t \in Sessions |-> None]
        /\ scope = [t \in Sessions |-> {}]
        /\ read = [t \in Sessions |-> 0]
        /\ won = [t \in Sessions |-> Nobody]
        /\ unbound = [t \in Sessions |-> FALSE]

-----------------------------------------------------------------------------
GoTo(t, place) == pc' = [pc EXCEPT ![t] = place]

(* A transaction begins.                                                    *)
Start(t, place, c) == /\ pc[t] = "idle"
                      /\ GoTo(t, place)
                      /\ of' = [of EXCEPT ![t] = c]

(* A transaction ends, and what it has locked is free.                      *)
End(t) ==
  /\ GoTo(t, "idle")
  /\ of' = [of EXCEPT ![t] = None]
  /\ scope' = [scope EXCEPT ![t] = {}]
  /\ read' = [read EXCEPT ![t] = 0]
  /\ won' = [won EXCEPT ![t] = Nobody]
  /\ unbound' = [unbound EXCEPT ![t] = FALSE]
  /\ advisory' = IF advisory = t THEN None ELSE advisory
  /\ rowLock' = [p \in Plan |-> IF rowLock[p] = t THEN None ELSE rowLock[p]]

(* An error, or a lost connection, at any point of a transaction.           *)
Rollback(t) == pc[t] # "idle" /\ End(t) /\ UNCHANGED rows

LockPromotion(t) == advisory = None /\ advisory' = t

-----------------------------------------------------------------------------
Sources(c) == {<<Batch[c], s>> : s \in Chosen[c]}
Live(p) == plans[p].status \in {"finalized", "locked"}
Running(c, s) == bound[c][s] # 0 /\ bound[c][s] \notin ended

(* promotion_target_is_active_sql: a target that is not stopped is active   *)
(* while it is not bound, and then for as long as its run is not over.      *)
TargetActive(c, s) == /\ status[c][s] # "stopped"
                      /\ bound[c][s] = 0 \/ Running(c, s)

(* The target that the row of a user belongs to names the same plan.        *)
Joined(u) == /\ member[u].plan # 0
             /\ target[plans[member[u].plan].of][member[u].segment].plan
                  = member[u].plan
MemberTargetActive(u) ==
  TargetActive(plans[member[u].plan].of, member[u].segment)
Excluded(u) == /\ member[u].state \in {"reserved", "consumed"}
               /\ Joined(u)
               /\ MemberTargetActive(u)

(* Mutant: the conflict is resolved for any row.                            *)
MutantTakeable(u) == member[u] = member[u]

(* ON CONFLICT (project_id, promotion_id, user_id) DO UPDATE ... WHERE      *)
Takeable(u) == \/ member[u].state \in {"none", "released"}
               \/ Joined(u) /\ ~MemberTargetActive(u)

Fits(c, u) == {s \in Chosen[c] : u \in Source[Batch[c]][s]}
Winner(c, u) ==
  IF Excluded(u) \/ Fits(c, u) = {} THEN None
  ELSE CHOOSE s \in Fits(c, u) :
         \A r \in Fits(c, u) \ {s} : Rank[u][s] < Rank[u][r]

(* Mutant: the update leaves the revision of the row as it was.             *)
MutantMoved(u, state) == [member[u] EXCEPT !.state = state]

(* Mutant: the row gets the revision that comes next.                       *)
MutantAhead(u, state) == [member[u] EXCEPT !.state = state,
                                           !.revision = revision' + 1]

(* The row of a user after UPDATE promotion_audience_exclusion_members.     *)
Moved(u, state) == [member[u] EXCEPT !.state = state, !.revision = revision']

(* A confirmation: one action for a statement, or for statements that no    *)
(* commit between them could make differ.                                   *)
ConfirmBegin(t, c) == /\ LockPromotion(t)
                      /\ Start(t, "find", c)
                      /\ UNCHANGED <<rows, rowLock, scope, read, won, unbound>>

(* save_target_segments, with which the request ends whether or not it has  *)
(* made the confirmation: the rows of its targets are approved, those that  *)
(* somebody has stopped too.                                                *)
Approve(c) ==
  /\ \A s \in Chosen[c] : \A p \in Plan :
       target[c][s].plan = p => rowLock[p] = None
  /\ status' = [status EXCEPT ![c] = [s \in Segments |->
                  IF s \in Chosen[c] /\ status[c][s] = "stopped"
                  THEN "reopened" ELSE status[c][s]]]

(* The same confirmation was made before: the stored one is the answer.     *)
Replay(t) == /\ pc[t] = "find"
             /\ \E p \in Plan : Live(p) /\ plans[p].of = of[t]
             /\ Approve(of[t])
             /\ End(t)
             /\ UNCHANGED <<revision, member, target, plans, bound, ended>>

(* Mutant: only the very same selection of sources counts as confirmed.     *)
MutantSourcesFree(c) ==
  \A p \in Plan : Live(p) => Sources(plans[p].of) # Sources(c)

SourcesFree(c) ==
  \A p \in Plan : Live(p) => Sources(plans[p].of) \cap Sources(c) = {}

ConfirmSources(t) ==
  /\ pc[t] = "find"
  /\ SourcesFree(of[t])
  /\ GoTo(t, "segments")
  /\ UNCHANGED <<rows, advisory, rowLock, of, scope, read, won, unbound>>

(* Some target of the promotion has the segment, reserved or in a run.      *)
InUse(c, s) == /\ target[c][s].plan # 0
               /\ \/ target[c][s].state = "reserved" /\ bound[c][s] = 0
                  \/ target[c][s].state = "consumed" /\ Running(c, s)
SegmentsFree(c) == \A d \in Confirmations, s \in Chosen[c] : ~InUse(d, s)

ConfirmSegments(t) ==
  /\ pc[t] = "segments"
  /\ SegmentsFree(of[t])
  /\ GoTo(t, "context")
  /\ UNCHANGED <<rows, advisory, rowLock, of, scope, read, won, unbound>>

ReadRevision(t) == read' = [read EXCEPT ![t] = revision]

ConfirmContext(t) ==
  /\ pc[t] = "context"
  /\ ReadRevision(t)
  /\ GoTo(t, "winners")
  /\ UNCHANGED <<rows, advisory, rowLock, of, scope, won, unbound>>

ConfirmWinners(t) ==
  /\ pc[t] = "winners"
  /\ \A s \in Chosen[of[t]] : \E u \in Users : Winner(of[t], u) = s
  /\ won' = [won EXCEPT ![t] = [u \in Users |-> Winner(of[t], u)]]
  /\ GoTo(t, "reserve")
  /\ UNCHANGED <<rows, advisory, rowLock, of, scope, read, unbound>>

(* advance_promotion_audience_exclusion_revision                            *)
Advance == revision < MaxRevision /\ revision' = revision + 1
AdvanceFrom(t) == revision = read[t] /\ Advance

(* The target rows are inserted if they are not there, and named after the  *)
(* plan only while they name none.                                          *)
ConfirmReserve(t) ==
  LET c == of[t]
      p == revision + 1
      winners == {u \in Users : won[t][u] # None}
  IN  /\ pc[t] = "reserve"
      /\ AdvanceFrom(t)
      /\ \A u \in winners : Takeable(u)
      /\ plans' = [plans EXCEPT ![p] =
                     [of |-> c, won |-> won[t], status |-> "finalized"]]
      /\ target' = [target EXCEPT ![c] = [s \in Segments |->
                      IF s \in Chosen[c] /\ target[c][s] = NoTarget
                      THEN [plan |-> p, state |-> "reserved"]
                      ELSE target[c][s]]]
      /\ member' = [u \in Users |->
                      IF u \in winners
                      THEN [plan |-> p, segment |-> won[t][u],
                            state |-> "reserved", revision |-> p]
                      ELSE member[u]]
      /\ Approve(c)
      /\ End(t)
      /\ UNCHANGED <<bound, ended>>

-----------------------------------------------------------------------------
(* A release.  The plan is the one that the targets name.                   *)
PlanOf(t) == CHOOSE p \in Plan : \E s \in Chosen[of[t]] : target[of[t]][s].plan = p
Named(c) == \E s \in Chosen[c] : target[c][s].plan # 0
MembersOf(p) == {u \in Users : member[u].plan = p}
NoneConsumed(p) == \A u \in MembersOf(p) : member[u].state # "consumed"

ReleaseBegin(t, c) == /\ LockPromotion(t)
                      /\ Start(t, "look", c)
                      /\ UNCHANGED <<rows, rowLock, scope, read, won, unbound>>

(* SELECT ... FOR UPDATE begins: what its subqueries count is in the        *)
(* snapshot of this moment.                                                 *)
ReleaseLook(t) ==
  /\ pc[t] = "look"
  /\ Named(of[t])
  /\ unbound' = [unbound EXCEPT ![t] =
       /\ \A s \in Segments : target[of[t]][s].plan = PlanOf(t) => bound[of[t]][s] = 0
       /\ NoneConsumed(PlanOf(t))]
  /\ GoTo(t, "row")
  /\ UNCHANGED <<rows, advisory, rowLock, of, scope, read, won>>

LockRow(t, p) == rowLock[p] = None /\ rowLock' = [rowLock EXCEPT ![p] = t]

(* Mutant: what the snapshot of the statement says is believed.             *)
MutantReleasable(t) == unbound[t]

(* With the row, the status of the plan as it is now, and a second count.   *)
Releasable(t) == /\ unbound[t]
                 /\ plans[PlanOf(t)].status # "locked"
                 /\ NoneConsumed(PlanOf(t))

ReleaseRow(t) ==
  /\ pc[t] = "row"
  /\ LockRow(t, PlanOf(t))
  /\ Releasable(t)
  /\ GoTo(t, "revision")
  /\ UNCHANGED <<rows, advisory, of, scope, read, won, unbound>>

ReleaseContext(t) ==
  /\ pc[t] = "revision"
  /\ ReadRevision(t)
  /\ GoTo(t, "release")
  /\ UNCHANGED <<rows, advisory, rowLock, of, scope, won, unbound>>

(* A plan of several segments is only released as a whole.                  *)
ReleaseCommit(t) ==
  LET p == PlanOf(t)
  IN  /\ pc[t] = "release"
      /\ AdvanceFrom(t)
      /\ member' = [u \in Users |->
                      IF member[u].plan = p /\ member[u].state = "reserved"
                      THEN Moved(u, "released") ELSE member[u]]
      /\ target' = [target EXCEPT ![of[t]] = [s \in Segments |->
                      IF target[of[t]][s].plan = p
                      THEN [plan |-> p, state |-> "released"]
                      ELSE target[of[t]][s]]]
      /\ plans' = IF plans[p].status = "finalized"
                  THEN [plans EXCEPT ![p].status = "released"] ELSE plans
      /\ End(t)
      /\ UNCHANGED <<bound, ended, status>>

-----------------------------------------------------------------------------
(* A run binds targets of one analysis, in the transaction that creates it. *)
(* It chooses among those that are not stopped, and does not look again.    *)
BindBegin(t, c) ==
  /\ Start(t, "bind", c)
  /\ \E S \in SUBSET Chosen[c] :
       /\ S # {} /\ \A s \in S : target[c][s].plan # 0 /\ status[c][s] # "stopped"
       /\ scope' = [scope EXCEPT ![t] = S]
  /\ UNCHANGED <<rows, advisory, rowLock, read, won, unbound>>

(* The target is reserved, and so is every member of its final snapshot.    *)
Bindable(c, s) ==
  LET p == target[c][s].plan
  IN  /\ plans[p].status \in {"finalized", "locked"}
      /\ bound[c][s] = 0
      /\ target[c][s].state = "reserved"
      /\ \A u \in Users : plans[p].won[u] = s =>
           /\ member[u].plan = p /\ member[u].segment = s
           /\ member[u].state = "reserved"

BindRows(t) ==
  /\ pc[t] = "bind"
  /\ LockRow(t, PlanOf(t))
  /\ \A s \in scope[t] : Bindable(of[t], s)
  /\ GoTo(t, "consume")
  /\ UNCHANGED <<rows, advisory, of, scope, read, won, unbound>>

BindCommit(t) ==
  LET c == of[t]
      p == PlanOf(t)
  IN  /\ pc[t] = "consume"
      /\ Advance
      /\ member' = [u \in Users |->
                      IF /\ member[u].plan = p /\ member[u].segment \in scope[t]
                         /\ member[u].state = "reserved"
                      THEN Moved(u, "consumed") ELSE member[u]]
      /\ target' = [target EXCEPT ![c] = [s \in Segments |->
                      IF s \in scope[t] THEN [plan |-> p, state |-> "consumed"]
                      ELSE target[c][s]]]
      /\ bound' = [bound EXCEPT ![c] = [s \in Segments |->
                      IF s \in scope[t] THEN revision' ELSE bound[c][s]]]
      /\ plans' = [plans EXCEPT ![p].status = "locked"]
      /\ End(t)
      /\ UNCHANGED <<ended, status>>

(* An evaluation, or an operator, gives a run a terminal status.            *)
EndRun(r) == /\ \E c \in Confirmations, s \in Segments : bound[c][s] = r
             /\ r \notin ended
             /\ ended' = ended \cup {r}
             /\ UNCHANGED <<revision, member, target, plans, bound, status,
                            advisory, rowLock, local>>

(* The dashboard stops a target: nothing else is written, so that its users *)
(* are free at once, without a revision, while plan and run go on.          *)
StopTarget(c, s) ==
  /\ <<c, s>> \in Stoppable /\ status[c][s] # "stopped"
  /\ \E p \in Plan : target[c][s].plan = p /\ rowLock[p] = None
  /\ status' = [status EXCEPT ![c][s] = "stopped"]
  /\ UNCHANGED <<revision, member, target, plans, bound, ended, advisory,
                 rowLock, local>>

Next ==
  \/ \E t \in Sessions :
       \/ \E c \in Confirmations :
            ConfirmBegin(t, c) \/ ReleaseBegin(t, c) \/ BindBegin(t, c)
       \/ Replay(t) \/ ConfirmSources(t) \/ ConfirmSegments(t)
       \/ ConfirmContext(t) \/ ConfirmWinners(t) \/ ConfirmReserve(t)
       \/ ReleaseLook(t) \/ ReleaseRow(t) \/ ReleaseContext(t) \/ ReleaseCommit(t)
       \/ BindRows(t) \/ BindCommit(t)
       \/ Rollback(t)
  \/ \E r \in Plan : EndRun(r)
  \/ \E c \in Confirmations, s \in Segments : StopTarget(c, s)

Spec == Init /\ [][Next]_vars

-----------------------------------------------------------------------------
(* p still holds its users of segment s, whose target was never stopped.    *)
Holds(p, s) == /\ Live(p)
               /\ status[plans[p].of][s] = "open"
               /\ TargetActive(plans[p].of, s)

(* No user is allotted twice: of two plans that still hold their users, and *)
(* that were made from different batches or after a release, none has a     *)
(* user of the other.                                                       *)
NoUserTwice ==
  \A p, q \in Plan : \A u \in Users :
    /\ p # q
    /\ plans[p].won[u] # None /\ Holds(p, plans[p].won[u])
    => ~(plans[q].won[u] # None /\ Holds(q, plans[q].won[u]))

(* A plan keeps each of its users, reserved or consumed, until it is        *)
(* released, the target of the segment is stopped or its run is over: no    *)
(* later confirmation, no repeated release and no target stopped elsewhere  *)
(* takes one away.                                                          *)
PlanKeepsUsers ==
  \A p \in Plan : \A u \in Users :
    LET s == plans[p].won[u]
    IN  s # None /\ Holds(p, s) =>
          /\ member[u].plan = p /\ member[u].segment = s
          /\ member[u].state =
               IF bound[plans[p].of][s] = 0 THEN "reserved" ELSE "consumed"

(* A release that races a run never undoes it: what a run is bound to stays *)
(* locked and consumed.                                                     *)
ReleaseSparesRuns ==
  \A c \in Confirmations, s \in Segments : bound[c][s] # 0 =>
    /\ target[c][s].state = "consumed"
    /\ plans[target[c][s].plan].status = "locked"

(* A source snapshot is confirmed once, whatever is sent again, until it is *)
(* released.                                                                *)
SourceConfirmedOnce ==
  \A p, q \in Plan :
    p # q /\ Live(p) /\ Live(q) =>
      Sources(plans[p].of) \cap Sources(plans[q].of) = {}

(* What readers see of the members: those whose target names their plan.    *)
HoldOf(u) ==
  IF ~MemberTargetActive(u) THEN "over"
  ELSE IF status[plans[member[u].plan].of][member[u].segment] = "reopened"
       THEN "again" ELSE "kept"
Ledger == INSTANCE ExclusionLedger WITH
  row <- [u \in Users |->
            IF Joined(u)
            THEN [state |-> member[u].state, revision |-> member[u].revision,
                  hold |-> HoldOf(u)]
            ELSE [state |-> "none", revision |-> 0, hold |-> "kept"]]

(* The three transactions, however they interleave, keep the promise of the *)
(* ledger that the projection into ClickHouse relies on.                    *)
ImplementsLedger == Ledger!LedgerSpec
=============================================================================
