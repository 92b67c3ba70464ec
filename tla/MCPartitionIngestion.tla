------------------------ MODULE MCPartitionIngestion ------------------------
(* Instances of PartitionIngestion for TLC.  The second release of the       *)
(* normalizer accepts a payload the first one rejects, and maps the other    *)
(* payload to different bars.                                                *)
EXTENDS PartitionIngestion

CONSTANTS v1, v2, b1, b2

MCPayloads == {v1, v2}
MCBars == {b1, b2}
MCCanonical == << [v \in MCPayloads |-> IF v = v1 THEN b1 ELSE Rejected],
                  [v \in MCPayloads |-> IF v = v1 THEN b2 ELSE b1] >>
=============================================================================
