--------------------------- MODULE MCReconciliation ---------------------------
(* Instances of Reconciliation for TLC: three raw keys, of which r1 and r2 are  *)
(* spellings of one key, and a contract map that knows r1 and r2.               *)
EXTENDS Reconciliation

MCOrder == [EQUITY  |-> <<"YAHOO", "ALPACA", "MASSIVE">>,
            OPTION  |-> <<"YAHOO", "ALPACA", "MASSIVE">>,
            FUTURES |-> <<"YAHOO", "MASSIVE">>]

MCRawKeys == {"r1", "r2", "r3"}
MCCanonical == [r1 |-> "k1", r2 |-> "k1", r3 |-> "k2"]
MCRollMap == [r1 |-> "k1", r2 |-> "k2", r3 |-> Absent]

Small(size, closes) ==
    {f \in SUBSET [raw : MCRawKeys, close : closes] : Cardinality(f) <= size}

\* Yahoo delivers up to two rows, Alpaca one, Massive two of fewer closes.
MCFrames == [YAHOO |-> Small(2, {2, 3, 6, Absent}), ALPACA |-> Small(1, {2, 3, 6, Absent}),
             MASSIVE |-> Small(2, {3, 6, Absent})]
MCObserved == [c \in Controls |-> MCFrames]

\* No provider without rows.
MCPriced == [c \in Controls |-> [p \in Names(c) |-> Small(1, {2, 3, 6}) \ {{}}]]

MCRules == [EQUITY  |-> [tolerance |-> 2, percent |-> 2, warn |-> 1, warnPercent |-> 1],
            OPTION  |-> [tolerance |-> 2, percent |-> 0, warn |-> Absent, warnPercent |-> 0],
            FUTURES |-> [tolerance |-> 2, percent |-> 2, warn |-> Absent, warnPercent |-> 0],
            REPLAY  |-> [tolerance |-> 1, percent |-> 0, warn |-> Absent, warnPercent |-> 0]]
=============================================================================
