---------------------------- MODULE TcpTransport ----------------------------
(***************************************************************************)
(* realtime/network_transport.py: TCPTransport.receive, called again and   *)
(* again by events() until it raises or the caller has enough.  Frames     *)
(* come out of a byte stream that arrives in arbitrary chunks, delimited   *)
(* by newlines or preceded by their length; a failing connection is        *)
(* replaced, up to a number of attempts per call.                          *)
(*                                                                         *)
(* Bytes are known by their offset in the stream of the connection.  The   *)
(* buffer holds those from taken to received, and a frame is the pair of   *)
(* offsets its payload lies between.  Whether a payload is blank, malformed *)
(* or a valid event is up to the peer.                                     *)
(***************************************************************************)
EXTENDS Integers, Sequences

CONSTANTS
    Framings,           \* the modes to consider
    Prefix,             \* bytes of a length prefix
    MaxFrame,           \* max_frame_bytes
    MaxChunk,           \* most bytes that one recv returns
    ReconnectAttempts,
    Sizes,              \* payload sizes of a peer
    Absent,             \* no length read yet, no error
    MaxFrames           \* bound: frames sent on one connection

ASSUME TransportAssumption ==
    /\ Framings \subseteq {"newline", "length-prefixed"}
    /\ Prefix \in Nat \ {0} /\ MaxFrame \in Nat \ {0} /\ MaxChunk \in Nat \ {0}
    /\ ReconnectAttempts \in Nat /\ MaxFrames \in Nat
    /\ Sizes \subseteq Nat
    /\ Absent \notin Nat \cup {"EMPTY", "OVERSIZED", "INVALID", "TRANSPORT"}

Errors == {"EMPTY", "OVERSIZED", "INVALID", "TRANSPORT"}

VARIABLES
    framing,            \* newline or length-prefixed
    connected,          \* whether there is a _socket
    ends,               \* offsets at which the frames end that the peer sent
    received,           \* bytes received
    taken,              \* bytes taken out of _buffer
    length,             \* frame_length, between the prefix and the payload
    handed,             \* frames handed to _decode_event
    caller,             \* what the caller does
    attempt,            \* attempts of this call that have failed
    error               \* what the call raised

stream == <<ends, received, taken, length, handed>>
vars == <<framing, connected, stream, caller, attempt, error>>

(***************************************************************************)
(* The stream and the buffer.                                              *)
(***************************************************************************)
Overhead == IF framing = "newline" THEN 1 ELSE Prefix
Begin(i) == IF i = 1 THEN 0 ELSE ends[i - 1]
Total == IF ends = <<>> THEN 0 ELSE ends[Len(ends)]
Buffered == received - taken

\* The frame that the buffer begins with or in.
Current(i) == i \in DOMAIN ends /\ taken < ends[i] /\ \A j \in 1..(i - 1) : ends[j] <= taken
Complete(i) == Current(i) /\ ends[i] <= received

\* Mutant: a frame of exactly the limit is refused.
TooLongOrEqual(size) == size >= MaxFrame

TooLong(size) == size > MaxFrame

\* Mutant: another recv before looking into the buffer.
NeedsBytesFirst == Buffered <= MaxFrame

\* The loops of _read_newline_frame and _fill get to _recv.
NeedsBytes ==
    IF framing = "newline" THEN (\A i \in DOMAIN ends : ~Complete(i)) /\ ~TooLong(Buffered)
    ELSE IF length = Absent THEN Buffered < Prefix ELSE Buffered < length

Init ==
    /\ framing \in Framings
    /\ connected = FALSE /\ caller = "idle" /\ attempt = 0 /\ error = Absent
    /\ ends = <<>> /\ received = 0 /\ taken = 0 /\ length = Absent /\ handed = <<>>

\* The peer sends a frame; how its bytes arrive is up to Recv.
PeerSends(size) ==
    /\ connected /\ Len(ends) < MaxFrames
    /\ ends' = Append(ends, Total + size + Overhead)
    /\ UNCHANGED <<framing, connected, received, taken, length, handed, caller, attempt, error>>

\* Mutant: what was received stays in the buffer, before the first byte of the next connection.
ClearKeepingBuffer ==
    ends' = <<>> /\ received' = 0 /\ taken' = taken - received /\ length' = Absent /\ handed' = <<>>

\* _buffer.clear(), and offsets count from 0 again.
Clear == ends' = <<>> /\ received' = 0 /\ taken' = 0 /\ length' = Absent /\ handed' = <<>>

(***************************************************************************)
(* receive.                                                                *)
(***************************************************************************)
Call ==
    /\ caller = "idle"
    /\ caller' = "receiving" /\ attempt' = 0
    /\ UNCHANGED <<framing, connected, stream, error>>

Connect ==
    /\ caller = "receiving" /\ ~connected
    /\ connected' = TRUE /\ Clear
    /\ UNCHANGED <<framing, caller, attempt, error>>

\* Mutant: the attempts are not counted.
FailAgain ==
    /\ connected' = FALSE /\ Clear
    /\ UNCHANGED <<framing, caller, attempt, error>>

\* The except clause: close, then try again or give up.
Fail ==
    /\ connected' = FALSE /\ Clear
    /\ IF attempt >= ReconnectAttempts
       THEN caller' = "raised" /\ error' = "TRANSPORT" /\ UNCHANGED attempt
       ELSE attempt' = attempt + 1 /\ UNCHANGED <<caller, error>>
    /\ UNCHANGED framing

\* Connection refused, a time-out, or a failing TLS handshake.
ConnectFails == caller = "receiving" /\ ~connected /\ Fail

\* _recv returns what has arrived, at most a chunk.
Recv(size) ==
    /\ caller = "receiving" /\ connected /\ NeedsBytes
    /\ received + size <= Total
    /\ received' = received + size
    /\ UNCHANGED <<framing, connected, ends, taken, length, handed, caller, attempt, error>>

\* Closed by the peer, reset, or nothing arrived within read_timeout.
RecvFails == caller = "receiving" /\ connected /\ NeedsBytes /\ Fail

\* An exception that receive does not retry: the connection and the buffer stay.
Raise(kind) ==
    /\ caller' = "raised" /\ error' = kind
    /\ UNCHANGED <<framing, connected, attempt>>

\* The frame goes to _decode_event, which returns an event or raises.
HandOver(frame) ==
    /\ handed' = Append(handed, frame)
    /\ \/ caller' = "idle" /\ UNCHANGED <<framing, connected, attempt, error>>
       \/ Raise("INVALID")

\* _read_newline_frame finds a delimiter.
TakeLine(i) ==
    /\ caller = "receiving" /\ connected /\ framing = "newline"
    /\ Complete(i) /\ ~TooLong(ends[i] - 1 - taken)
    /\ taken' = ends[i]
    /\ IF ends[i] - 1 = taken THEN Raise("EMPTY") /\ UNCHANGED handed
       ELSE HandOver(<<taken, ends[i] - 1>>)
    /\ UNCHANGED <<ends, received, length>>

\* A delimiter beyond the limit, or a full buffer without one.
RefuseLine ==
    /\ caller = "receiving" /\ connected /\ framing = "newline"
    /\ \/ \E i \in DOMAIN ends : Complete(i) /\ TooLong(ends[i] - 1 - taken)
       \/ (\A i \in DOMAIN ends : ~Complete(i)) /\ TooLong(Buffered)
    /\ Raise("OVERSIZED")
    /\ UNCHANGED stream

\* _read_length_prefixed_frame unpacks the prefix.
TakeLength(i) ==
    LET size == ends[i] - Prefix - taken IN
    /\ caller = "receiving" /\ connected /\ framing = "length-prefixed"
    /\ length = Absent /\ Buffered >= Prefix /\ Current(i)
    /\ taken' = taken + Prefix
    /\ IF size = 0 THEN Raise("EMPTY") /\ UNCHANGED length
       ELSE IF TooLong(size) THEN Raise("OVERSIZED") /\ UNCHANGED length
       ELSE length' = size /\ UNCHANGED <<framing, connected, caller, attempt, error>>
    /\ UNCHANGED <<ends, received, handed>>

TakePayload ==
    /\ caller = "receiving" /\ connected /\ length # Absent /\ Buffered >= length
    /\ taken' = taken + length /\ length' = Absent
    /\ HandOver(<<taken, taken + length>>)
    /\ UNCHANGED <<ends, received>>

\* The caller has enough, got an exception, or is interrupted: close.
Close ==
    /\ caller # "done"
    /\ caller' = "done" /\ connected' = FALSE /\ Clear
    /\ UNCHANGED <<framing, attempt, error>>

Receiving ==
    \/ Connect \/ ConnectFails \/ RecvFails \/ RefuseLine \/ TakePayload
    \/ \E size \in 1..MaxChunk : Recv(size)
    \/ \E i \in DOMAIN ends : TakeLine(i) \/ TakeLength(i)

Next == Call \/ Receiving \/ Close \/ \E size \in Sizes : PeerSends(size)

Spec == Init /\ [][Next]_vars

\* A call of the socket returns or times out, and then its thread goes on.
FairSpec == Spec /\ WF_vars(Receiving)

(***************************************************************************)
(* Properties.                                                             *)
(***************************************************************************)
\* Every variable has its type; the buffer lies within the stream.
TypeOK ==
    /\ framing \in Framings /\ connected \in BOOLEAN
    /\ ends \in Seq(Nat) /\ received \in 0..Total /\ taken \in 0..received
    /\ length \in Nat \cup {Absent} /\ handed \in Seq(Nat \X Nat)
    /\ caller \in {"idle", "receiving", "raised", "done"}
    /\ attempt \in 0..ReconnectAttempts /\ error \in Errors \cup {Absent}

\* The payload of frame i.
Payload(i) == IF framing = "newline" THEN <<Begin(i), ends[i] - 1>>
              ELSE <<Begin(i) + Prefix, ends[i]>>
Size(frame) == frame[2] - frame[1]

\* However the bytes are chunked and wherever connections fail, the caller gets the frames
\* that were sent on a connection, whole and in order: see FrameStream.
Contract == INSTANCE FrameStream
    WITH Frames <- Nat \X Nat, sent <- [i \in DOMAIN ends |-> Payload(i)]
ImplementsFrameStream == Contract!Spec

\* Reconnecting loses only what had not arrived whole: no failure of a connection throws
\* away a frame that is complete in the buffer.
WholeFramesSurvive ==
    [][connected /\ ~connected' /\ caller' # "done" => \A i \in DOMAIN ends : ~Complete(i)]_vars

\* NETWORK_TRANSPORTS.md "We reject ... oversized frames": exactly those longer than
\* max_frame_bytes, whatever the chunks are; and the buffer is bounded by the limit and a chunk.
LimitIsExact ==
    /\ error = "OVERSIZED" /\ caller = "raised" =>
          \E i \in DOMAIN ends : i = Len(handed) + 1 /\ Size(Payload(i)) > MaxFrame
    /\ \A i \in DOMAIN handed : Size(handed[i]) \in 1..MaxFrame
    /\ Buffered <= MaxFrame + Prefix + MaxChunk

\* NETWORK_TRANSPORTS.md "bounded exponential reconnection": every call of receive ends,
\* with a frame or an exception.
ReceiveEnds == caller = "receiving" ~> caller # "receiving"
=============================================================================
