------------------------------ MODULE LossyFeed ------------------------------
(***************************************************************************)
(* What the live path promises: whatever is shown was recorded before, as  *)
(* it was recorded, and in that order.  Records may never be shown, none   *)
(* is shown twice or after a later one, however often a process restarts.  *)
(* AnomalyPipeline implements this.                                        *)
(***************************************************************************)
EXTENDS Naturals, Sequences

VARIABLES recorded,     \* the journal
          positions     \* positions in the journal of what was shown, in the order of showing

vars == <<recorded, positions>>

Init == recorded = <<>> /\ positions = <<>>

\* The journal only grows at its end.
Record == /\ Len(recorded') = Len(recorded) + 1
          /\ \A k \in DOMAIN recorded : recorded'[k] = recorded[k]
          /\ UNCHANGED positions

Show(k) == /\ \A i \in DOMAIN positions : positions[i] < k
           /\ positions' = Append(positions, k)
           /\ UNCHANGED recorded

Next == Record \/ \E k \in DOMAIN recorded : Show(k)

Spec == Init /\ [][Next]_vars
=============================================================================
