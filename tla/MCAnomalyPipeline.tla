------------------------- MODULE MCAnomalyPipeline -------------------------
(* Instances of AnomalyPipeline for TLC.                                       *)
EXTENDS AnomalyPipeline, TLC

MCSymmetry == Permutations(Symbols)

\* The five SIMULATED_PRICES of the publisher.
MCPrices == <<10000, 10005, 9998, 10012, 10008>>
=============================================================================
