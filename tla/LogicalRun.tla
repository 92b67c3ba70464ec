---------------------------- MODULE LogicalRun ----------------------------
(***************************************************************************)
(* What a logical run (one control date, symbol universe and rule version) *)
(* promises to everybody who launches it.  The first conclusion is stored  *)
(* and is final; each attempt that concludes, first or not, alone or       *)
(* overlapping with others, is answered with the stored conclusion.        *)
(* EquityBatch implements this.                                            *)
(***************************************************************************)
CONSTANTS Runners,      \* processes that launch the run
          Results,      \* what a reconciliation can conclude
          Absent        \* nothing concluded

VARIABLES row,          \* the stored conclusion
          answer        \* the latest conclusion each runner was given

vars == <<row, answer>>

Init == row = Absent /\ answer = [r \in Runners |-> Absent]

Conclude(r) ==
    /\ row' = row \/ (row = Absent /\ row' \in Results)
    /\ row' # Absent
    /\ answer' = [answer EXCEPT ![r] = row']

Next == \E r \in Runners : Conclude(r)

Spec == Init /\ [][Next]_vars
=============================================================================
