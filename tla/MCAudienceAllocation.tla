------------------------ MODULE MCAudienceAllocation ------------------------
EXTENDS AudienceAllocation, TLC

CONSTANTS u1, u2, u3, a, b, first, both, second, t1, t2, t3

TwoBatches == (first :> 1) @@ (both :> 1) @@ (second :> 2)
Selections == (first :> {a}) @@ (both :> {a, b}) @@ (second :> {b})
Overlapping ==
  << (a :> {u1, u2}) @@ (b :> {u1, u3}), (a :> {u1}) @@ (b :> {u2, u3}) >>
Preferring == [u \in Users |-> [s \in Segments |-> IF (u = u1) = (s = b) THEN 1 ELSE 2]]
Stopped == {<<first, a>>, <<both, b>>}
Alike == Permutations(Sessions)
=============================================================================
