-------------------------- MODULE MCAlertDispatcher --------------------------
(* Instances of AlertDispatcher for TLC.  A control store that is quiet, one  *)
(* in which both providers fail in exactly the alarming share of requests, and*)
(* one in which a provider is exactly too slow, with a failure rate below the *)
(* limit.                                                                     *)
EXTENDS AlertDispatcher

CONSTANTS c1, c2, p1, p2

MCCallers == {c1, c2}
MCProviders == {p1, p2}

Metrics(r, f, l) == [requests |-> r, failures |-> f, latency |-> l]
Store(overdue, failed, m1, m2) ==
    [overdue |-> overdue, failedPartitions |-> failed,
     metrics |-> [p \in MCProviders |-> IF p = p1 THEN m1 ELSE m2]]

MCDatabases ==
    { Store(0, 0, Metrics(0, 0, None), Metrics(6, 1, 9)),
      Store(0, 0, Metrics(5, 1, 3), Metrics(10, 2, None)) }
=============================================================================
