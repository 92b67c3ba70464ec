---------------------------- MODULE MCExportApi ----------------------------
(* Instances of ExportApi for TLC.                                          *)
EXTENDS ExportApi, TLC

CONSTANTS c1, c2

MCClients == {c1, c2}
Symmetric == Permutations(MCClients)

MCRows == 1..3
\* A later run may add rows between, before or after those that are there.
MCRuns == {{2}, {1, 3}}
MCFilters == {MCRows}

\* The reconciliations of two runs for one day, symbol and pair have equal ones.
TiedKey == [r \in MCRows |-> IF r = 3 THEN 2 ELSE 1]
=============================================================================
