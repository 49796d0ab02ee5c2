-------------------------- MODULE MCPromotionRuns --------------------------
(* Instances of PromotionRuns for TLC.                                      *)
EXTENDS PromotionRuns, TLC

CONSTANTS p1, p2, p3, r1, r2, r3

(* Two requests for one scope in one process, an overlapping one elsewhere. *)
TwinsAndOverlap == (r1 :> {1, 2}) @@ (r2 :> {1, 2}) @@ (r3 :> {2, 3})
TwoProcesses == (r1 :> p1) @@ (r2 :> p1) @@ (r3 :> p2)

(* Twins in different processes, and a third request that overlaps them.    *)
Apart == (r1 :> p1) @@ (r2 :> p2) @@ (r3 :> p3)

Twins == (r1 :> {1}) @@ (r2 :> {1})
OneProcess == (r1 :> p1) @@ (r2 :> p1)

WideAndNarrow == (r1 :> {1, 2}) @@ (r2 :> {2})
TwoServers == (r1 :> p1) @@ (r2 :> p2)
=============================================================================
