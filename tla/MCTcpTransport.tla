--------------------------- MODULE MCTcpTransport ---------------------------
(* Instances of TcpTransport for TLC.                                          *)
EXTENDS TcpTransport

MCFramings == {"newline", "length-prefixed"}
MCSizes == {0, 1, MaxFrame, MaxFrame + 1}
=============================================================================
