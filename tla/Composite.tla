------------------------------ MODULE Composite -----------------------------
(***************************************************************************)
(* compute_composite (composite.py): the weighted sum of the three         *)
(* component scores, clipped to 0 .. 1.  A component that is missing       *)
(* contributes 0 and the other weights are not rescaled.                   *)
(***************************************************************************)
EXTENDS Statistics

CONSTANTS
  WeightDivergence,   \* composite_weight_divergence, in units of 1 / Unit
  WeightConfidence,   \* composite_weight_confidence
  WeightDispersion    \* composite_weight_dispersion

ASSUME WeightAssumption ==
  /\ WeightDivergence \in Nat /\ WeightConfidence \in Nat /\ WeightDispersion \in Nat

(* Mutated form: without Chainlink the Pyth weights are scaled up. *)
CombineNormalised(divergence, confidence, dispersion) ==
  LET sum == WeightDivergence * divergence + WeightConfidence * confidence
               + WeightDispersion * dispersion
  IN  AtMost(Unit, IF divergence > 0 THEN sum \div Unit
                   ELSE sum \div (WeightConfidence + WeightDispersion))

Combine(divergence, confidence, dispersion) ==
  AtMost(Unit, (WeightDivergence * divergence + WeightConfidence * confidence
                  + WeightDispersion * dispersion) \div Unit)
=============================================================================
