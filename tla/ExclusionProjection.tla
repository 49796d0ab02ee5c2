------------------------- MODULE ExclusionProjection -------------------------
(***************************************************************************)
(* The copy of the exclusions of a promotion in ClickHouse, against which   *)
(* audiences are searched (app/audience_exclusions.py).  Every load of the  *)
(* exclusion context compares it with PostgreSQL and, when it lags behind,  *)
(* writes it anew: first the members, then the revision they stand for.     *)
(* Nothing is atomic across the two databases, and the loads are not        *)
(* serialised: a load is a series of single statements, between which the   *)
(* writers, other loads and a crash may come.                               *)
(*                                                                         *)
(* The writers are those of ExclusionLedger, which AudienceAllocation       *)
(* implements.  The relation of the active exclusions is external: of a     *)
(* user it keeps a row of the highest revision written, and of two of the   *)
(* same revision either one.                                                *)
(***************************************************************************)
EXTENDS ExclusionLedger, FiniteSets

CONSTANT Loads

ASSUME ProjectionAssumption == IsFiniteSet(Users) /\ MaxRevision \in Nat

VARIABLES view,     \* promotion_audience_exclusion_active
          applied,  \* promotion_audience_exclusion_projection_status
          pc,       \* where a load is
          rev,      \* the revision that it has read
          count,    \* and the number of excluded users
          batch     \* and the rows that it will write

ledger == <<revision, row>>
vars == <<ledger, view, applied, pc, rev, count, batch>>

Revision == 0 .. MaxRevision
ViewRow == [state : {"none", "reserved", "consumed", "released"},
            revision : Revision]
Absent == [state |-> "none", revision |-> 0]
NoBatch == [u \in Users |-> Absent]

TypeOK == /\ revision \in Revision
          /\ row \in [Users -> Row]
          /\ view \in [Users -> ViewRow]
          /\ applied \subseteq Revision
          /\ pc \in [Loads -> {"idle", "compare", "members", "insert",
                               "checkpoint"}]
          /\ rev \in [Loads -> Revision]
          /\ count \in [Loads -> Nat]
          /\ batch \in [Loads -> [Users -> ViewRow]]

Init == /\ LedgerInit
        /\ view = NoBatch
        /\ applied = {}
        /\ pc = [t \in Loads |-> "idle"]
        /\ rev = [t \in Loads |-> 0]
        /\ count = [t \in Loads |-> 0]
        /\ batch = [t \in Loads |-> NoBatch]

Write == LedgerNext /\ UNCHANGED <<view, applied, pc, rev, count, batch>>

-----------------------------------------------------------------------------
GoTo(t, place) == pc' = [pc EXCEPT ![t] = place]

Excluding(r) == r.state \in {"reserved", "consumed"}
Excluded == {u \in Users : Active(u)}
Viewed == {u \in Users : Excluding(view[u])}

(* The load is over, with its context or with an error.                     *)
Finish(t) == /\ GoTo(t, "idle")
             /\ rev' = [rev EXCEPT ![t] = 0]
             /\ count' = [count EXCEPT ![t] = 0]
             /\ batch' = [batch EXCEPT ![t] = NoBatch]

(* An error, or a crash, between any two statements.                        *)
Leave(t) == pc[t] # "idle" /\ Finish(t) /\ UNCHANGED <<ledger, view, applied>>

(* One statement reads the revision and counts.                             *)
Load(t) == /\ pc[t] = "idle"
           /\ rev' = [rev EXCEPT ![t] = revision]
           /\ count' = [count EXCEPT ![t] = Cardinality(Excluded)]
           /\ GoTo(t, "compare")
           /\ UNCHANGED <<ledger, view, applied, batch>>

(* The projection has the revision, and as many users: without a status     *)
(* there is nothing to count.                                               *)
CaughtUp(t) == IF applied = {} THEN rev[t] = 0
               ELSE /\ \E a \in applied : a >= rev[t]
                    /\ Cardinality(Viewed) = count[t]

Compare(t) == /\ pc[t] = "compare"
              /\ \/ CaughtUp(t) /\ Finish(t)
                 \/ /\ ~CaughtUp(t)
                    /\ GoTo(t, "members")
                    /\ UNCHANGED <<rev, count, batch>>
              /\ UNCHANGED <<ledger, view, applied>>

(* Mutant: the released row is written at the revision that comes next.     *)
MutantProjected(r, n) ==
  IF r.hold = "over" THEN [state |-> "released", revision |-> n + 1]
  ELSE [state |-> r.state, revision |-> r.revision]

(* What is written of a user: a row whose target is stopped, or whose run   *)
(* has ended, is released, at the revision that the load began with.        *)
Projected(r, n) == IF r.hold = "over" THEN [state |-> "released", revision |-> n]
                   ELSE [state |-> r.state, revision |-> r.revision]

(* Mutant: the status is written before the members.                        *)
MutantMembers(t) ==
  LET rows == [u \in Users |-> Projected(row[u], rev[t])]
  IN  /\ pc[t] = "members"
      /\ Cardinality({u \in Users : Excluding(rows[u])}) = count[t]
      /\ rev[t] > 0 => rows # NoBatch
      /\ batch' = [batch EXCEPT ![t] = rows]
      /\ applied' = applied \cup {rev[t]}
      /\ GoTo(t, "insert")
      /\ UNCHANGED <<ledger, view, rev, count>>

(* A second statement reads the members, which have to be as many as the    *)
(* first one counted, and some if there ever was a change.                  *)
Members(t) ==
  LET rows == [u \in Users |-> Projected(row[u], rev[t])]
  IN  /\ pc[t] = "members"
      /\ Cardinality({u \in Users : Excluding(rows[u])}) = count[t]
      /\ rev[t] > 0 => rows # NoBatch
      /\ batch' = [batch EXCEPT ![t] = rows]
      /\ GoTo(t, "insert")
      /\ UNCHANGED <<ledger, view, applied, rev, count>>

(* The external relation after an insert: old rows and new ones.            *)
Merged(old, new) == {v \in [Users -> ViewRow] :
                       \A u \in Users :
                         \/ v[u] = new[u] /\ new[u].state # "none"
                                          /\ new[u].revision >= old[u].revision
                         \/ v[u] = old[u] /\ \/ new[u].state = "none"
                                             \/ /\ old[u].state # "none"
                                                /\ old[u].revision >= new[u].revision}

Insert(t) == /\ pc[t] = "insert"
             /\ view' \in Merged(view, batch[t])
             /\ GoTo(t, "checkpoint")
             /\ UNCHANGED <<ledger, applied, rev, count, batch>>

(* Mutant: the revision is read again for the status.                       *)
MutantCheckpoint(t) == /\ pc[t] = "checkpoint"
                       /\ applied' = applied \cup {revision}
                       /\ Finish(t)
                       /\ UNCHANGED <<ledger, view>>

Checkpoint(t) == /\ pc[t] = "checkpoint"
                 /\ applied' = applied \cup {rev[t]}
                 /\ Finish(t)
                 /\ UNCHANGED <<ledger, view>>

Next == \/ Write
        \/ \E t \in Loads : \/ Load(t) \/ Compare(t) \/ Members(t) \/ Insert(t)
                            \/ Checkpoint(t) \/ Leave(t)

Spec == Init /\ [][Next]_vars

-----------------------------------------------------------------------------
(* The target of the user has not been stopped, nor has its run ended.      *)
Kept(u) == Excluding(row[u]) /\ row[u].hold = "kept"

(* A revision in the status stands for its members: whoever was excluded by *)
(* it, and is still kept, is excluded in ClickHouse, whatever loads wrote   *)
(* after that, wherever one was cut off, and whatever was stopped meanwhile.*)
CheckpointCovers ==
  \A a \in applied : \A u \in Users :
    Kept(u) /\ row[u].revision <= a =>
      Excluding(view[u]) /\ view[u].revision >= row[u].revision

(* The comparison of two numbers is enough while no stopped target has been *)
(* approved again: when the status is current and ClickHouse has as many    *)
(* excluded users as PostgreSQL, they are the same, even though runs ended  *)
(* and targets were stopped without a revision.                             *)
EqualCountsSuffice ==
  /\ \A u \in Excluded : Kept(u)
  /\ \E a \in applied : a >= revision
  /\ Cardinality(Viewed) = Cardinality(Excluded)
  => Viewed = Excluded
=============================================================================
