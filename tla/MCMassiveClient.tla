--------------------------- MODULE MCMassiveClient ---------------------------
(* Instances of MassiveClient for TLC.                                        *)
EXTENDS MassiveClient

CONSTANTS t1, t2

MCThreads == {t1, t2}
MCRetryAfters == {0, 3}
=============================================================================
