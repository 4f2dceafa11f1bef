--------------------------- MODULE PoolUsability ----------------------------
(***************************************************************************)
(* isPoolUsable of proxy/common.js, shared by the master and the workers:  *)
(* a pool is usable when it is ready and its template is not more than     *)
(* HeightLag blocks behind the highest ready pool of the same chain, where *)
(* pools within HeightSpan blocks of each other count as the same chain.   *)
(***************************************************************************)
EXTENDS Naturals

CONSTANTS
    HeightLag,   \* 5 in the code
    HeightSpan   \* 1000 in the code

ASSUME HeightAssumption == HeightLag \in Nat /\ HeightSpan \in Nat

\* isComparablePool, for two ready pools at heights a and b.
Comparable(a, b) == a <= b + HeightSpan /\ b <= a + HeightSpan

\* ready and height are functions on the pools of one process.
IsPoolUsable(ready, height, p) ==
    /\ ready[p]
    /\ \A q \in DOMAIN ready :
          ready[q] /\ Comparable(height[q], height[p]) => height[q] <= height[p] + HeightLag
=============================================================================
