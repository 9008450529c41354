----------------------------- MODULE MCPolicies -----------------------------
(***************************************************************************)
(* Policies on small pools.  The terms buyers may ask for are every        *)
(* threshold and window of the bounds, at each payout.                     *)
(***************************************************************************)
EXTENDS Policies, TLC

CONSTANTS MCThresholds, MCPayouts, MCStarts, MCLengths

MCTerms ==
  {[threshold |-> n, payout |-> a, start |-> s, end |-> s + len - 1] :
     n \in MCThresholds, a \in MCPayouts, s \in MCStarts, len \in MCLengths}

(* All of the capital may be exposed; or half of it, which then binds      *)
(* before the collusion floor does, and the minimum stake is lowered too.  *)
MCRisk      == [exposureBps |-> 10000, minStake |-> 6]
MCOneRisk   == {MCRisk}
MCTwoRisks  == {MCRisk, [exposureBps |-> 5000, minStake |-> 4]}

MCSymmetry == Permutations(PolicyIds) \cup Permutations(CellIds)
=============================================================================
