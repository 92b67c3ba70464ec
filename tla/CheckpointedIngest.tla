------------------------- MODULE CheckpointedIngest -------------------------
(***************************************************************************)
(* What checkpointed ingestion promises to the batch run that calls it.    *)
(* Each partition's canonical bars are pinned once, to whatever the        *)
(* provider happened to answer, and every attempt that returns hands the   *)
(* caller exactly the pinned bars of all the partitions.  A retry, a       *)
(* crash or a second delivery can therefore never change the data a        *)
(* logical run is computed from.  PartitionIngestion implements this.      *)
(***************************************************************************)
CONSTANTS Partitions,   \* the provider/bucket work units of one logical run
          Bars,         \* canonical contents a partition can have
          Absent        \* nothing pinned, nothing delivered

VARIABLES pinned,       \* the canonical bars each partition is fixed to
          delivered     \* what the latest returning attempt gave its caller

vars == <<pinned, delivered>>

Init == /\ pinned = [p \in Partitions |-> Absent]
        /\ delivered = Absent

\* A partition's first checkpoint fixes its contents.
Pin(p) == /\ pinned[p] = Absent
          /\ \E b \in Bars : pinned' = [pinned EXCEPT ![p] = b]
          /\ UNCHANGED delivered

\* An attempt returns: every partition is pinned, and it returns all of them.
Deliver == /\ \A p \in Partitions : pinned[p] # Absent
           /\ delivered' = pinned
           /\ UNCHANGED pinned

Next == Deliver \/ \E p \in Partitions : Pin(p)

Spec == Init /\ [][Next]_vars
=============================================================================
