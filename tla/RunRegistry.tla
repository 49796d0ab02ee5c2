---------------------------- MODULE RunRegistry ----------------------------
(***************************************************************************)
(* What the creation of promotion runs promises to whoever assigns the     *)
(* audiences (AudienceSnapshotRepository.bind_run_targets in               *)
(* app/decision/audience_snapshots.py): a run takes the audiences of all   *)
(* its target segments in one step, or of none; an audience once taken     *)
(* stays with its run; and nothing is ever taken without a run.            *)
(***************************************************************************)
CONSTANTS Segments,  \* target segments of one confirmed analysis
          Free       \* the owner of an audience that no run has taken

VARIABLE owner       \* the scope of the run that took each audience

Init == owner = [s \in Segments |-> Free]

Create(scope) == /\ \A s \in scope : owner[s] = Free
                 /\ owner' = [s \in Segments |->
                                IF s \in scope THEN scope ELSE owner[s]]

Next == \E scope \in (SUBSET Segments) \ {{}} : Create(scope)

Spec == Init /\ [][Next]_owner
=============================================================================
