-------------------------- MODULE MCBatchIngestion --------------------------
(* An instance of BatchIngestion for TLC: two sources, two answers.  The      *)
(* second release accepts an answer the first one rejects and maps the other  *)
(* answer to different bars.                                                  *)
EXTENDS BatchIngestion

CONSTANTS v1, v2, b1, b2

MCPayloads == {v1, v2}
MCBars == {b1, b2}
MCCanonical == << [v \in MCPayloads |-> IF v = v1 THEN b1 ELSE Rejected],
                  [v \in MCPayloads |-> IF v = v1 THEN b2 ELSE b1] >>
MCResults == {"clean", "breaks"}
MCBreaks == {"breaks"}
MCCompare == [f \in [Partitions -> MCBars] |->
                 IF \A s \in Partitions : f[s] = f[1] THEN "clean" ELSE "breaks"]
=============================================================================
