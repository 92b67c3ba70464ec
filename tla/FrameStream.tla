----------------------------- MODULE FrameStream -----------------------------
(***************************************************************************)
(* What a stream transport promises to the reader of market events: the    *)
(* frames it hands over on a connection are those the peer sent on it,     *)
(* whole, in order and without repetition or omission, up to some point.   *)
(* What was under way on a connection that ends is lost.  TcpTransport     *)
(* implements this.                                                        *)
(***************************************************************************)
EXTENDS Naturals, Sequences

CONSTANT Frames         \* what a peer can send

VARIABLES sent,         \* frames sent on this connection
          handed        \* frames handed over on this connection

vars == <<sent, handed>>

Init == sent = <<>> /\ handed = <<>>

\* One more frame, after those sent before.
Send == /\ sent' \in Seq(Frames) /\ Len(sent') = Len(sent) + 1
        /\ \A i \in DOMAIN sent : sent'[i] = sent[i]
        /\ UNCHANGED handed

Hand == /\ Len(handed) < Len(sent)
        /\ handed' = Append(handed, sent[Len(handed) + 1])
        /\ UNCHANGED sent

Disconnect == sent' = <<>> /\ handed' = <<>>

Next == Send \/ Hand \/ Disconnect

Spec == Init /\ [][Next]_vars
=============================================================================
