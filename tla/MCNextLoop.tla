----------------------------- MODULE MCNextLoop -----------------------------
(* Instances of NextLoop for TLC.                                           *)
EXTENDS NextLoop, TLC

CONSTANTS auto1, auto2, prepare1, prepare2, activate, direct, evaluate

Everyone == (auto1 :> "automatic") @@ (auto2 :> "automatic")
            @@ (prepare1 :> "manual") @@ (prepare2 :> "manual")
            @@ (activate :> "activate") @@ (direct :> "direct")
            @@ (evaluate :> "evaluate")
Alike == Permutations({auto1, auto2}) \cup Permutations({prepare1, prepare2})
Once == [r \in Requests |-> 1]

TwoModes == (auto1 :> "automatic") @@ (prepare1 :> "manual")
=============================================================================
