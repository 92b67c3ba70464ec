---------------------------- MODULE MCEquityBatch ----------------------------
(* Instances of EquityBatch for TLC: two sources that agree or differ.        *)
EXTENDS EquityBatch, TLC

CONSTANTS f1, f2, r1, r2

MCFrames == {f1, f2}
MCResults == {"clean", "breaks1", "breaks2"}
MCBreaks == {"breaks1", "breaks2"}
MCCompare == [f \in [1..S -> MCFrames] |->
    IF \A s \in 1..S : f[s] = f[1] THEN "clean" ELSE IF f[1] = f1 THEN "breaks1" ELSE "breaks2"]
Swap == Permutations({r1, r2})
OneRunner == {r1}
TwoRunners == {r1, r2}
=============================================================================
