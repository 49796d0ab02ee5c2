--------------------------- MODULE ExclusionLedger ---------------------------
(***************************************************************************)
(* What the writers of the audience exclusions of a promotion promise to    *)
(* its readers (promotion_audience_exclusion_members, joined with the       *)
(* targets, and promotion_audience_exclusion_state): a user is reserved     *)
(* only while free, consumed or released only while reserved, and every     *)
(* such change carries a revision of its own.                               *)
(*                                                                         *)
(* What frees a user without a revision is the end of the run that has      *)
(* consumed the user, and the stop of the target, reserved or consumed.     *)
(* Nor does the return of the user carry one, when a stopped target is      *)
(* approved again.                                                          *)
(***************************************************************************)
EXTENDS Naturals

CONSTANTS Users, MaxRevision

VARIABLES revision, row

(* hold: "over" while the target is stopped or its run has ended, "again"   *)
(* once a stopped target was approved again.                                *)
Row == [state : {"none", "reserved", "consumed", "released"},
        revision : 0 .. MaxRevision, hold : {"kept", "over", "again"}]
NoRow == [state |-> "none", revision |-> 0, hold |-> "kept"]

LedgerInit == revision = 0 /\ row = [u \in Users |-> NoRow]

ActiveRow(r) == r.state \in {"reserved", "consumed"} /\ r.hold # "over"
Active(u) == ActiveRow(row[u])

Advanced == revision < MaxRevision /\ revision' = revision + 1

Reserve(S) ==
  /\ Advanced
  /\ \A u \in S : ~Active(u)
  /\ row' = [u \in Users |->
               IF u \in S
               THEN [state |-> "reserved", revision |-> revision', hold |-> "kept"]
               ELSE row[u]]

Change(S, state) ==
  /\ Advanced
  /\ \A u \in S : row[u].state = "reserved"
  /\ row' = [u \in Users |->
               IF u \in S
               THEN [state |-> state, revision |-> revision', hold |-> row[u].hold]
               ELSE row[u]]

Consume(S) == Change(S, "consumed")
Release(S) == Change(S, "released")

Held(u, hold) == [state |-> row[u].state, revision |-> row[u].revision,
                  hold |-> hold]
WereOver(S) == \A u \in S : row[u].hold = "over"

(* A confirmation whose targets name the plan of an earlier one: its rows   *)
(* belong to no target, and no reader sees them.  Rows of the earlier plan  *)
(* may come back, where a target was stopped; the promise is wide here, for *)
(* whoever the earlier plan had is among the users of the later one.        *)
Lose(S, T) ==
  /\ Advanced
  /\ \A u \in S : ~Active(u)
  /\ WereOver(T)
  /\ row' = [u \in Users |-> IF u \in S THEN NoRow
                             ELSE IF u \in T THEN Held(u, "again") ELSE row[u]]

(* The end of a run, or the stop of a target.                               *)
Lapse(S) == /\ UNCHANGED revision
            /\ \A u \in S : row[u].state # "none"
            /\ row' = [u \in Users |->
                         IF u \in S THEN Held(u, "over") ELSE row[u]]

(* A confirmation sent again, after a target of it was stopped.             *)
Return(S) == /\ UNCHANGED revision
             /\ WereOver(S)
             /\ row' = [u \in Users |->
                          IF u \in S THEN Held(u, "again") ELSE row[u]]

LedgerNext == \E S \in SUBSET Users :
                \/ Reserve(S) \/ Consume(S) \/ Release(S) \/ Lapse(S) \/ Return(S)
                \/ \E T \in SUBSET Users : Lose(S, T)

LedgerSpec == LedgerInit /\ [][LedgerNext]_<<revision, row>>
=============================================================================
