------------------------- MODULE TcpTransportProofs -------------------------
(***************************************************************************)
(* Proofs about TcpTransport, for all limits, prefixes, chunks, numbers of *)
(* attempts and frames: the buffer always begins with the frame after the  *)
(* last one handed over.                                                   *)
(***************************************************************************)
EXTENDS TcpTransport, TLAPS, SequenceTheorems

(***************************************************************************)
(* The inductive invariant.                                                *)
(***************************************************************************)
\* The frame after those handed over.
NextFrame == Len(handed) + 1

\* Frames have room for their overhead and follow one another.
StreamInv ==
    /\ \A i \in DOMAIN ends : Begin(i) + Overhead <= ends[i]
    /\ \A i, j \in DOMAIN ends : i < j => ends[i] < ends[j]

HandedInv ==
    /\ Len(handed) <= Len(ends)
    /\ \A i \in DOMAIN handed : handed[i] = Payload(i) /\ Size(handed[i]) \in 1..MaxFrame

\* Between two calls and during a call, the buffer begins with the next frame, or with its
\* payload if the length was taken.
PositionInv ==
    caller \in {"idle", "receiving"} =>
        IF length = Absent THEN taken = Begin(NextFrame)
        ELSE /\ framing = "length-prefixed" /\ NextFrame \in DOMAIN ends
             /\ taken = Begin(NextFrame) + Prefix /\ ends[NextFrame] = taken + length
             /\ length \in 1..MaxFrame

OversizedInv ==
    error = "OVERSIZED" /\ caller = "raised" =>
        NextFrame \in DOMAIN ends /\ Size(Payload(NextFrame)) > MaxFrame

BufferInv == Buffered <= MaxFrame + Prefix + MaxChunk

IInv == TypeOK /\ StreamInv /\ HandedInv /\ PositionInv /\ OversizedInv /\ BufferInv

\* The initial states satisfy the invariant.
LEMMA InitInv == Init => IInv
<1> SUFFICES ASSUME Init PROVE IInv
  OBVIOUS
<1>1. ends = <<>> /\ handed = <<>> /\ DOMAIN ends = {} /\ DOMAIN handed = {} /\ Len(handed) = 0
  BY DEF Init
<1>2. TypeOK
  <2>1. Total = 0 /\ received = 0 /\ taken = 0 /\ attempt = 0 /\ ReconnectAttempts \in Nat
    BY <1>1, TransportAssumption DEF Init, Total
  <2>2. ends \in Seq(Nat) /\ handed \in Seq(Nat \X Nat)
    BY <1>1
  <2>3. attempt \in 0..ReconnectAttempts /\ received \in 0..Total /\ taken \in 0..received
    BY <2>1
  <2>4. framing \in Framings /\ connected = FALSE /\ caller = "idle" /\ error = Absent
        /\ length = Absent
    BY DEF Init
  <2>5. QED
    BY <2>2, <2>3, <2>4 DEF TypeOK
<1>3. StreamInv /\ HandedInv
  BY <1>1 DEF StreamInv, HandedInv
<1>4. PositionInv
  BY <1>1 DEF Init, PositionInv, NextFrame, Begin
<1>5. OversizedInv /\ BufferInv
  BY <1>1, TransportAssumption DEF Init, OversizedInv, BufferInv, Buffered
<1>6. QED
  BY <1>2, <1>3, <1>4, <1>5 DEF IInv

\* Types and order, in the form the steps need them.
LEMMA Facts ==
    ASSUME IInv
    PROVE  /\ ends \in Seq(Nat) /\ handed \in Seq(Nat \X Nat) /\ received \in Nat /\ taken \in Nat
           /\ Len(handed) \in Nat /\ Len(ends) \in Nat /\ Len(handed) <= Len(ends)
           /\ DOMAIN ends = 1..Len(ends) /\ DOMAIN handed = 1..Len(handed)
           /\ \A i \in DOMAIN ends : ends[i] \in Nat /\ Begin(i) \in Nat
           /\ \A i, j \in DOMAIN ends : i <= j => ends[i] <= ends[j]
           /\ Overhead \in Nat \ {0} /\ Begin(NextFrame) \in Nat /\ NextFrame \in Nat \ {0}
           /\ Len(handed) # 0 => /\ Len(handed) \in DOMAIN ends
                                 /\ Begin(NextFrame) = ends[Len(handed)]
           /\ Total \in Nat /\ received <= Total /\ taken <= received
           /\ \A i \in DOMAIN ends : ends[i] <= Total
<1>1. /\ ends \in Seq(Nat) /\ handed \in Seq(Nat \X Nat) /\ Len(handed) <= Len(ends)
      /\ received \in 0..Total /\ taken \in 0..received
      /\ \A i, j \in DOMAIN ends : i < j => ends[i] < ends[j]
  BY DEF IInv, TypeOK, HandedInv, StreamInv
<1>2. /\ Len(handed) \in Nat /\ Len(ends) \in Nat
      /\ DOMAIN ends = 1..Len(ends) /\ DOMAIN handed = 1..Len(handed)
      /\ \A i \in DOMAIN ends : ends[i] \in Nat
  BY <1>1
<1>3. \A i \in DOMAIN ends : Begin(i) \in Nat
  BY <1>2 DEF Begin
<1>4. ASSUME NEW i \in DOMAIN ends, NEW j \in DOMAIN ends, i <= j
      PROVE  ends[i] <= ends[j]
  <2>1. i = j \/ i < j
    BY <1>2, <1>4
  <2>2. i < j => ends[i] < ends[j]
    BY <1>1
  <2>3. QED
    BY <2>1, <2>2, <1>2
<1>5. Overhead \in Nat \ {0}
  BY TransportAssumption DEF Overhead
<1>6. NextFrame \in Nat \ {0}
  BY <1>2 DEF NextFrame
<1>7. Len(handed) # 0 => Len(handed) \in DOMAIN ends /\ Begin(NextFrame) = ends[Len(handed)]
  BY <1>1, <1>2 DEF Begin, NextFrame
<1>8. Begin(NextFrame) \in Nat
  BY <1>2, <1>7 DEF Begin, NextFrame
<1>9. Total \in Nat /\ \A i \in DOMAIN ends : ends[i] <= Total
  <2>1. CASE ends = <<>>
    BY <2>1 DEF Total
  <2>2. CASE ends # <<>>
    <3>1. Len(ends) \in DOMAIN ends
      BY <2>2, <1>1, <1>2, EmptySeq
    <3>2. Total = ends[Len(ends)]
      BY <2>2 DEF Total
    <3>3. QED
      BY <3>1, <3>2, <1>2, <1>4
  <2>3. QED
    BY <2>1, <2>2
<1>10. received \in Nat /\ taken \in Nat /\ received <= Total /\ taken <= received
  BY <1>1, <1>9
<1>11. QED
  BY <1>1, <1>2, <1>3, <1>4, <1>5, <1>6, <1>7, <1>8, <1>9, <1>10

\* What the position of the buffer means for the next frame.
LEMMA Position ==
    ASSUME IInv, caller \in {"idle", "receiving"}
    PROVE  /\ Begin(NextFrame) <= taken
           /\ NextFrame \in DOMAIN ends => taken < ends[NextFrame]
           /\ length = Absent => taken = Begin(NextFrame)
           /\ length # Absent => /\ framing = "length-prefixed" /\ NextFrame \in DOMAIN ends
                                 /\ taken = Begin(NextFrame) + Prefix
                                 /\ ends[NextFrame] = taken + length
                                 /\ length \in 1..MaxFrame
<1>1. CASE length = Absent
  <2>1. taken = Begin(NextFrame)
    BY <1>1 DEF IInv, PositionInv
  <2>2. NextFrame \in DOMAIN ends => Begin(NextFrame) + Overhead <= ends[NextFrame]
    BY DEF IInv, StreamInv
  <2>3. QED
    BY <1>1, <2>1, <2>2, Facts
<1>2. CASE length # Absent
  <2>1. /\ framing = "length-prefixed" /\ NextFrame \in DOMAIN ends
        /\ taken = Begin(NextFrame) + Prefix /\ ends[NextFrame] = taken + length
        /\ length \in 1..MaxFrame
    BY <1>2 DEF IInv, PositionInv
  <2>2. Begin(NextFrame) \in Nat /\ taken \in Nat
    BY Facts
  <2>3. Prefix \in Nat /\ MaxFrame \in Nat
    BY TransportAssumption
  <2>4. Begin(NextFrame) <= taken /\ taken < ends[NextFrame]
    BY <2>1, <2>2, <2>3
  <2>5. QED
    BY <1>2, <2>1, <2>4
<1>3. QED
  BY <1>1, <1>2

\* The frame at the beginning of the buffer is the next one.
LEMMA CurrentIsNext ==
    ASSUME IInv, caller \in {"idle", "receiving"}, NEW i, Current(i)
    PROVE  i = NextFrame /\ i \in DOMAIN ends /\ taken < ends[i]
<1>1. /\ i \in DOMAIN ends /\ taken < ends[i]
      /\ \A j \in 1..(i - 1) : ends[j] <= taken
  BY DEF Current
<1>2. i \in Nat /\ i \in 1..Len(ends)
  BY <1>1, Facts
<1>3. ASSUME i < NextFrame PROVE FALSE
  <2>1. Len(handed) # 0 /\ i <= Len(handed)
    BY <1>2, <1>3, Facts DEF NextFrame
  <2>2. ends[i] <= ends[Len(handed)] /\ ends[Len(handed)] <= taken
    BY <2>1, <1>1, Facts, Position
  <2>3. QED
    BY <2>1, <2>2, <1>1, Facts
<1>4. ASSUME i > NextFrame PROVE FALSE
  <2>1. NextFrame \in DOMAIN ends /\ NextFrame \in 1..(i - 1)
    <3>1. NextFrame \in Nat \ {0} /\ Len(ends) \in Nat /\ DOMAIN ends = 1..Len(ends)
      BY Facts
    <3>2. QED
      BY <1>2, <1>4, <3>1
  <2>2. ends[NextFrame] <= taken /\ taken < ends[NextFrame]
    BY <2>1, <1>1, Position
  <2>3. QED
    BY <2>1, <2>2, Facts
<1>5. QED
  BY <1>1, <1>2, <1>3, <1>4, Facts

(***************************************************************************)
(* The steps.                                                              *)
(***************************************************************************)
\* An empty stream satisfies the invariant, whatever the caller is told.
LEMMA ClearInv ==
    ASSUME IInv, Clear, framing' = framing, connected' \in BOOLEAN,
           caller' \in {"idle", "receiving", "raised", "done"}, attempt' \in 0..ReconnectAttempts,
           error' \in Errors \cup {Absent}, ~(error' = "OVERSIZED" /\ caller' = "raised")
    PROVE  IInv'
<1>1. /\ ends' = <<>> /\ handed' = <<>> /\ received' = 0 /\ taken' = 0 /\ length' = Absent
      /\ DOMAIN ends' = {} /\ DOMAIN handed' = {} /\ Len(handed') = 0 /\ Len(ends') = 0
  BY DEF Clear
<1>2. TypeOK'
  <2>1. Total' = 0 /\ received' \in 0..Total' /\ taken' \in 0..received'
    BY <1>1 DEF Total
  <2>2. ends' \in Seq(Nat) /\ handed' \in Seq(Nat \X Nat)
    BY <1>1
  <2>3. framing' \in Framings
    BY DEF IInv, TypeOK
  <2>4. QED
    BY <1>1, <2>1, <2>2, <2>3 DEF TypeOK
<1>3. StreamInv' /\ HandedInv'
  BY <1>1 DEF StreamInv, HandedInv
<1>4. PositionInv'
  BY <1>1 DEF PositionInv, NextFrame, Begin
<1>5. OversizedInv' /\ BufferInv'
  BY <1>1, TransportAssumption DEF OversizedInv, BufferInv, Buffered
<1>6. QED
  BY <1>2, <1>3, <1>4, <1>5 DEF IInv

\* An attempt fails.
LEMMA FailInv ==
    ASSUME IInv, caller = "receiving", Fail
    PROVE  IInv'
<1>1. Clear /\ framing' = framing /\ connected' \in BOOLEAN
  BY DEF Fail
<1>2. attempt \in 0..ReconnectAttempts /\ error \in Errors \cup {Absent} /\ ReconnectAttempts \in Nat
  BY TransportAssumption DEF IInv, TypeOK
<1>3. CASE attempt >= ReconnectAttempts
  <2>1. caller' = "raised" /\ error' = "TRANSPORT" /\ attempt' = attempt
    BY <1>3 DEF Fail
  <2>2. QED
    BY <1>1, <1>2, <2>1, ClearInv DEF Errors
<1>4. CASE ~(attempt >= ReconnectAttempts)
  <2>1. caller' = caller /\ error' = error /\ attempt' = attempt + 1
    BY <1>4 DEF Fail
  <2>2. attempt' \in 0..ReconnectAttempts
    BY <1>2, <1>4, <2>1
  <2>3. QED
    BY <1>1, <1>2, <2>1, <2>2, ClearInv
<1>5. QED
  BY <1>3, <1>4

\* What is spoken of when only the buffer and the caller change.
LEMMA SameStream ==
    ASSUME framing' = framing, ends' = ends
    PROVE  /\ Overhead' = Overhead /\ Total' = Total
           /\ \A i : Begin(i)' = Begin(i) /\ Payload(i)' = Payload(i)
           /\ StreamInv' <=> StreamInv
  BY DEF Overhead, Total, Begin, Payload, StreamInv

\* A frame sent goes to the end of the stream and leaves the others where they are.
LEMMA SendStream ==
    ASSUME IInv, NEW size \in Sizes, PeerSends(size)
    PROVE  /\ size \in Nat /\ framing' = framing /\ Overhead' = Overhead /\ handed' = handed
           /\ Len(ends') = Len(ends) + 1 /\ DOMAIN ends' = 1..(Len(ends) + 1)
           /\ ends' \in Seq(Nat) /\ ends'[Len(ends) + 1] = Total + size + Overhead
           /\ \A i \in DOMAIN ends : ends'[i] = ends[i] /\ i \in DOMAIN ends'
           /\ \A i \in DOMAIN ends : Begin(i)' = Begin(i) /\ Payload(i)' = Payload(i)
           /\ \A k \in Nat : k = Len(ends) + 1 => Begin(k)' = Total
<1>1. /\ ends' = Append(ends, Total + size + Overhead) /\ size \in Nat
      /\ framing' = framing /\ connected' = connected /\ received' = received /\ taken' = taken
      /\ length' = length /\ handed' = handed /\ caller' = caller /\ attempt' = attempt
      /\ error' = error /\ Overhead' = Overhead
  BY TransportAssumption DEF PeerSends, Overhead
<1>2. /\ Len(ends') = Len(ends) + 1 /\ DOMAIN ends' = 1..(Len(ends) + 1)
      /\ ends' \in Seq(Nat) /\ ends'[Len(ends) + 1] = Total + size + Overhead
      /\ \A i \in DOMAIN ends : ends'[i] = ends[i] /\ i \in DOMAIN ends'
  <2> DEFINE offset == Total + size + Overhead
  <2>1. offset \in Nat /\ ends' = Append(ends, offset) /\ ends \in Seq(Nat)
    BY <1>1, Facts
  <2> HIDE DEF offset
  <2>2. /\ Len(ends') = Len(ends) + 1 /\ DOMAIN ends' = 1..(Len(ends) + 1)
        /\ ends' \in Seq(Nat) /\ ends'[Len(ends) + 1] = offset
        /\ \A i \in 1..Len(ends) : ends'[i] = ends[i]
    BY <2>1, AppendProperties
  <2>3. QED
    BY <2>2, Facts DEF offset
<1>3. \A i \in DOMAIN ends : Begin(i)' = Begin(i) /\ Payload(i)' = Payload(i)
  <2>1. SUFFICES ASSUME NEW i \in DOMAIN ends
                 PROVE  Begin(i)' = Begin(i) /\ Payload(i)' = Payload(i)
    OBVIOUS
  <2>2. i = 1 \/ i - 1 \in DOMAIN ends
    <3>1. DOMAIN ends = 1..Len(ends) /\ Len(ends) \in Nat
      BY Facts
    <3>2. QED
      BY <3>1
  <2>3. Begin(i)' = Begin(i)
    BY <2>2, <1>2 DEF Begin
  <2>4. QED
    BY <2>3, <1>1, <1>2 DEF Payload
<1>4. ASSUME NEW k \in Nat, k = Len(ends) + 1 PROVE Begin(k)' = Total
  <2>1. CASE ends = <<>>
    BY <1>4, <2>1 DEF Begin, Total
  <2>2. CASE ends # <<>>
    <3>1. k # 1 /\ k - 1 = Len(ends) /\ Len(ends) \in DOMAIN ends
      BY <1>4, <2>2, Facts, EmptySeq
    <3>2. QED
      BY <2>2, <3>1, <1>2 DEF Begin, Total
  <2>3. QED
    BY <2>1, <2>2
<1>5. QED
  BY <1>1, <1>2, <1>3, <1>4

\* A frame sent lies beyond everything there is.
LEMMA SendInv ==
    ASSUME IInv, NEW size \in Sizes, PeerSends(size)
    PROVE  IInv'
<1>1. /\ size \in Nat
      /\ framing' = framing /\ connected' = connected /\ received' = received /\ taken' = taken
      /\ length' = length /\ handed' = handed /\ caller' = caller /\ attempt' = attempt
      /\ error' = error /\ Overhead' = Overhead
  BY SendStream DEF PeerSends
<1>2. /\ Len(ends') = Len(ends) + 1 /\ DOMAIN ends' = 1..(Len(ends) + 1)
      /\ ends' \in Seq(Nat) /\ ends'[Len(ends) + 1] = Total + size + Overhead
      /\ \A i \in DOMAIN ends : ends'[i] = ends[i] /\ i \in DOMAIN ends'
  BY SendStream
<1>3. \A i \in DOMAIN ends : Begin(i)' = Begin(i) /\ Payload(i)' = Payload(i)
  BY SendStream
<1>4. \A k \in Nat : k = Len(ends) + 1 => Begin(k)' = Total
  BY SendStream
<1>5. Total' = Total + size + Overhead
  BY <1>2, Facts DEF Total
<1>6. TypeOK'
  <2>1. received' \in 0..Total' /\ taken' \in 0..received'
    BY <1>1, <1>5, Facts
  <2>2. QED
    BY <1>1, <1>2, <2>1 DEF IInv, TypeOK
<1>7. StreamInv'
  <2>1. ASSUME NEW i \in DOMAIN ends' PROVE Begin(i)' + Overhead' <= ends'[i]
    <3>1. CASE i \in DOMAIN ends
      BY <3>1, <1>1, <1>2, <1>3 DEF IInv, StreamInv
    <3>2. CASE i = Len(ends) + 1
      BY <3>2, <1>1, <1>2, <1>4, Facts
    <3>3. QED
      BY <3>1, <3>2, <1>2, Facts
  <2>2. ASSUME NEW i \in DOMAIN ends', NEW j \in DOMAIN ends', i < j PROVE ends'[i] < ends'[j]
    <3>1. i \in DOMAIN ends
      BY <2>2, <1>2, Facts
    <3>2. CASE j \in DOMAIN ends
      BY <3>1, <3>2, <2>2, <1>2 DEF IInv, StreamInv
    <3>3. CASE j = Len(ends) + 1
      <4>1. ends[i] <= Total /\ ends[i] \in Nat
        BY <3>1, Facts
      <4>2. ends'[i] = ends[i] /\ ends'[j] = Total + size + Overhead
        BY <3>1, <3>3, <1>2
      <4>3. Total \in Nat /\ size \in Nat /\ Overhead \in Nat \ {0}
        BY <1>1, Facts
      <4>4. QED
        BY <4>1, <4>2, <4>3
    <3>4. QED
      BY <3>2, <3>3, <1>2, Facts
  <2>3. QED
    BY <2>1, <2>2 DEF StreamInv
<1>8. HandedInv'
  <2>1. \A i \in DOMAIN handed : i \in DOMAIN ends
    BY Facts
  <2>2. QED
    BY <2>1, <1>1, <1>2, <1>3, Facts DEF IInv, HandedInv, Size
<1>9. NextFrame' = NextFrame /\ Begin(NextFrame)' = Begin(NextFrame)
  <2>1. CASE NextFrame \in DOMAIN ends
    BY <2>1, <1>1, <1>3 DEF NextFrame
  <2>2. CASE NextFrame = Len(ends) + 1
    <3>1. Begin(NextFrame) = Total
      BY <2>2, Facts, EmptySeq DEF Begin, Total
    <3>2. NextFrame' = NextFrame
      BY <1>1 DEF NextFrame
    <3>3. Begin(NextFrame)' = Total
      BY <2>2, <3>2, <1>4, Facts
    <3>4. QED
      BY <3>1, <3>2, <3>3
  <2>3. QED
    <3>1. /\ Len(handed) \in Nat /\ Len(ends) \in Nat /\ Len(handed) <= Len(ends)
          /\ DOMAIN ends = 1..Len(ends)
      BY Facts
    <3>2. NextFrame \in DOMAIN ends \/ NextFrame = Len(ends) + 1
      BY <3>1 DEF NextFrame
    <3>3. QED
      BY <3>2, <2>1, <2>2
<1>10. PositionInv'
  BY <1>1, <1>2, <1>9 DEF IInv, PositionInv
<1>11. OversizedInv' /\ BufferInv'
  BY <1>1, <1>2, <1>3, <1>9 DEF IInv, OversizedInv, BufferInv, Buffered, Size
<1>12. QED
  BY <1>6, <1>7, <1>8, <1>10, <1>11 DEF IInv

\* What a frame is, in terms of where the buffer begins.
LEMMA NextPayload ==
    ASSUME IInv, caller = "receiving", NextFrame \in DOMAIN ends
    PROVE  /\ framing = "newline" => Payload(NextFrame) = <<taken, ends[NextFrame] - 1>>
           /\ framing # "newline" /\ length = Absent =>
                 Payload(NextFrame) = <<taken + Prefix, ends[NextFrame]>>
           /\ length # Absent => Payload(NextFrame) = <<taken, taken + length>>
<1>1. framing = "newline" => length = Absent
  BY Position
<1>2. QED
  BY <1>1, Position DEF Payload

\* Handing over the next frame, the buffer then beginning with the frame after it.
LEMMA HandInv ==
    ASSUME IInv, caller = "receiving", NextFrame \in DOMAIN ends, NEW frame \in Nat \X Nat,
           frame = Payload(NextFrame), Size(frame) \in 1..MaxFrame, HandOver(frame),
           ends' = ends, received' = received, taken' = ends[NextFrame], length' = Absent,
           ends[NextFrame] <= received
    PROVE  IInv'
<1>1. /\ handed' = Append(handed, frame) /\ framing' = framing /\ connected' = connected
      /\ attempt' = attempt
      /\ (caller' = "idle" /\ error' = error) \/ (caller' = "raised" /\ error' = "INVALID")
  BY DEF HandOver, Raise
<1>2. /\ Len(handed') = Len(handed) + 1 /\ DOMAIN handed' = 1..(Len(handed) + 1)
      /\ handed' \in Seq(Nat \X Nat) /\ handed'[Len(handed) + 1] = frame
      /\ \A i \in DOMAIN handed : handed'[i] = handed[i]
  BY <1>1, Facts, AppendProperties
<1>3. TypeOK'
  <2>1. Total' = Total /\ ends[NextFrame] \in Nat
    BY <1>1, SameStream, Facts
  <2>2. received' \in 0..Total' /\ taken' \in 0..received'
    BY <2>1, Facts
  <2>3. error' \in Errors \cup {Absent} /\ caller' \in {"idle", "receiving", "raised", "done"}
    BY <1>1 DEF IInv, TypeOK, Errors
  <2>4. QED
    BY <1>1, <1>2, <2>2, <2>3 DEF IInv, TypeOK
<1>4. StreamInv'
  BY <1>1, SameStream DEF IInv
<1>5. HandedInv'
  <2>1. Len(handed') <= Len(ends')
    BY <1>2, Facts DEF NextFrame
  <2>2. ASSUME NEW i \in DOMAIN handed'
        PROVE  handed'[i] = Payload(i)' /\ Size(handed'[i]) \in 1..MaxFrame
    <3>1. Payload(i)' = Payload(i)
      BY <1>1, SameStream
    <3>2. CASE i \in DOMAIN handed
      BY <3>1, <3>2, <1>2 DEF IInv, HandedInv
    <3>3. CASE i = NextFrame
      BY <3>1, <3>3, <1>2 DEF NextFrame
    <3>4. QED
      BY <3>2, <3>3, <1>2, Facts DEF NextFrame
  <2>3. QED
    BY <2>1, <2>2 DEF HandedInv, Size
<1>6. PositionInv'
  <2> DEFINE next == NextFrame + 1
  <2>1. NextFrame' = next /\ next # 1 /\ next - 1 = NextFrame
    BY <1>2, Facts DEF NextFrame
  <2>2. Begin(NextFrame)' = ends[NextFrame]
    BY <2>1 DEF Begin
  <2>3. QED
    BY <2>2 DEF PositionInv
<1>7. OversizedInv'
  BY <1>1 DEF OversizedInv
<1>8. BufferInv'
  <2>1. taken < ends[NextFrame] /\ ends[NextFrame] \in Nat /\ taken \in Nat /\ received \in Nat
    BY Position, Facts
  <2>2. received - taken <= MaxFrame + Prefix + MaxChunk
    BY DEF IInv, BufferInv, Buffered
  <2>3. received' - taken' <= MaxFrame + Prefix + MaxChunk
    BY <2>1, <2>2, TransportAssumption
  <2>4. QED
    BY <2>3 DEF BufferInv, Buffered
<1>9. QED
  BY <1>3, <1>4, <1>5, <1>6, <1>7, <1>8 DEF IInv

\* Raising with the frame at the beginning of the buffer.
LEMMA RaiseInv ==
    ASSUME IInv, NEW kind \in {"EMPTY", "OVERSIZED"}, Raise(kind),
           ends' = ends, received' = received, handed' = handed, length' = length,
           taken' \in Nat, taken <= taken', taken' <= received,
           kind = "OVERSIZED" => NextFrame \in DOMAIN ends /\ Size(Payload(NextFrame)) > MaxFrame
    PROVE  IInv'
<1>1. /\ framing' = framing /\ connected' = connected /\ attempt' = attempt
      /\ caller' = "raised" /\ error' = kind
  BY DEF Raise
<1>2. TypeOK'
  <2>1. Total' = Total
    BY <1>1, SameStream
  <2>2. received' \in 0..Total' /\ taken' \in 0..received'
    BY <2>1, Facts
  <2>3. QED
    BY <1>1, <2>2 DEF IInv, TypeOK, Errors
<1>3. StreamInv' /\ HandedInv'
  BY <1>1, SameStream DEF IInv, HandedInv, Size
<1>4. PositionInv'
  BY <1>1 DEF PositionInv
<1>5. OversizedInv'
  BY <1>1, SameStream DEF OversizedInv, NextFrame, Size
<1>6. BufferInv'
  BY Facts, TransportAssumption DEF BufferInv, Buffered, IInv
<1>7. QED
  BY <1>2, <1>3, <1>4, <1>5, <1>6 DEF IInv

\* A recv is made only while there is room for a chunk.
LEMMA RecvInv ==
    ASSUME IInv, NEW size \in 1..MaxChunk, Recv(size)
    PROVE  IInv'
<1>1. /\ caller = "receiving" /\ NeedsBytes /\ received + size <= Total
      /\ received' = received + size
      /\ framing' = framing /\ connected' = connected /\ ends' = ends /\ taken' = taken
      /\ length' = length /\ handed' = handed /\ caller' = caller /\ attempt' = attempt
      /\ error' = error
  BY DEF Recv
<1>2. size \in Nat /\ size <= MaxChunk /\ MaxChunk \in Nat /\ MaxFrame \in Nat /\ Prefix \in Nat
  BY TransportAssumption
<1>3. TypeOK'
  <2>1. Total' = Total
    BY <1>1, SameStream
  <2>2. received' \in 0..Total' /\ taken' \in 0..received'
    BY <1>1, <1>2, <2>1, Facts
  <2>3. QED
    BY <1>1, <2>2 DEF IInv, TypeOK
<1>4. StreamInv' /\ HandedInv'
  BY <1>1, SameStream DEF IInv, HandedInv, Size
<1>5. PositionInv'
  BY <1>1, SameStream DEF IInv, PositionInv, NextFrame
<1>6. OversizedInv'
  BY <1>1 DEF OversizedInv
<1>7. Buffered <= MaxFrame + Prefix
  <2>1. CASE framing = "newline"
    BY <2>1, <1>1, <1>2, Facts DEF NeedsBytes, TooLong, Buffered
  <2>2. CASE framing # "newline" /\ length = Absent
    BY <2>2, <1>1, <1>2, Facts DEF NeedsBytes, Buffered
  <2>3. CASE framing # "newline" /\ length # Absent
    <3>1. length \in 1..MaxFrame
      BY <2>3, <1>1, Position
    <3>2. QED
      BY <2>3, <3>1, <1>1, <1>2, Facts DEF NeedsBytes, Buffered
  <2>4. QED
    BY <2>1, <2>2, <2>3
<1>8. BufferInv'
  BY <1>1, <1>2, <1>7, Facts DEF BufferInv, Buffered
<1>9. QED
  BY <1>3, <1>4, <1>5, <1>6, <1>8 DEF IInv

\* One step of a connected receive.
LEMMA ReadInv ==
    ASSUME IInv,
           \/ RefuseLine \/ TakePayload
           \/ \E i \in DOMAIN ends : TakeLine(i) \/ TakeLength(i)
    PROVE  IInv'
<1>1. CASE RefuseLine
  <2>1. /\ caller = "receiving" /\ framing = "newline" /\ Raise("OVERSIZED")
        /\ ends' = ends /\ received' = received /\ taken' = taken /\ handed' = handed
        /\ length' = length
    BY <1>1 DEF RefuseLine, stream
  <2>2. length = Absent /\ taken = Begin(NextFrame)
    BY <2>1, Position
  <2>3. NextFrame \in DOMAIN ends /\ Size(Payload(NextFrame)) > MaxFrame
    <3>1. CASE \E i \in DOMAIN ends : Complete(i) /\ TooLong(ends[i] - 1 - taken)
      <4>1. PICK i \in DOMAIN ends : Complete(i) /\ TooLong(ends[i] - 1 - taken)
        BY <3>1
      <4>2. i = NextFrame
        BY <2>1, <4>1, CurrentIsNext DEF Complete
      <4>3. Payload(NextFrame) = <<taken, ends[NextFrame] - 1>>
        BY <2>1, <4>2, NextPayload
      <4>4. QED
        BY <4>1, <4>2, <4>3 DEF TooLong, Size
    <3>2. CASE (\A i \in DOMAIN ends : ~Complete(i)) /\ TooLong(Buffered)
      <4>1. Buffered > MaxFrame /\ MaxFrame \in Nat
        BY <3>2, TransportAssumption DEF TooLong
      <4>2. taken < Total
        BY <4>1, Facts DEF Buffered
      <4>3. NextFrame \in DOMAIN ends
        <5>1. CASE Len(handed) # Len(ends)
          <6>1. /\ Len(handed) \in Nat /\ Len(ends) \in Nat /\ Len(handed) <= Len(ends)
                /\ DOMAIN ends = 1..Len(ends)
            BY Facts
          <6>2. QED
            BY <5>1, <6>1 DEF NextFrame
        <5>2. CASE Len(handed) = Len(ends)
          <6>1. CASE ends = <<>>
            BY <6>1, <4>2, Facts DEF Total
          <6>2. CASE ends # <<>>
            <7>1. Len(handed) # 0
              BY <6>2, <5>2, Facts, EmptySeq
            <7>2. Begin(NextFrame) = Total
              BY <7>1, <6>2, <5>2, Facts DEF Total
            <7>3. QED
              BY <7>2, <2>2, <4>2, Facts
          <6>3. QED
            BY <6>1, <6>2
        <5>3. QED
          BY <5>1, <5>2
      <4>4. Current(NextFrame)
        <5>1. taken < ends[NextFrame]
          BY <4>3, <2>1, Position
        <5>2. ASSUME NEW j \in 1..(NextFrame - 1) PROVE ends[j] <= taken
          <6>1. /\ Len(handed) # 0 /\ j \in DOMAIN ends /\ j <= Len(handed)
                /\ Len(handed) \in DOMAIN ends
            BY Facts DEF NextFrame
          <6>2. ends[j] <= ends[Len(handed)] /\ ends[Len(handed)] = taken
            BY <6>1, <2>2, Facts
          <6>3. QED
            BY <6>2
        <5>3. QED
          BY <4>3, <5>1, <5>2 DEF Current
      <4>5. ends[NextFrame] > received /\ ends[NextFrame] \in Nat
        BY <3>2, <4>3, <4>4, Facts DEF Complete
      <4>6. Payload(NextFrame) = <<taken, ends[NextFrame] - 1>>
        BY <2>1, <4>3, NextPayload
      <4>7. ends[NextFrame] - 1 - taken > MaxFrame
        BY <4>1, <4>5, Facts DEF Buffered
      <4>8. QED
        BY <4>3, <4>6, <4>7 DEF Size
    <3>3. QED
      BY <1>1, <3>1, <3>2 DEF RefuseLine
  <2>4. taken' \in Nat /\ taken <= taken' /\ taken' <= received
    BY <2>1, Facts
  <2>5. QED
    BY <2>1, <2>3, <2>4, RaiseInv
<1>2. CASE TakePayload
  <2>1. /\ caller = "receiving" /\ length # Absent /\ Buffered >= length
        /\ HandOver(<<taken, taken + length>>)
        /\ ends' = ends /\ received' = received /\ taken' = taken + length /\ length' = Absent
    BY <1>2 DEF TakePayload
  <2>2. /\ NextFrame \in DOMAIN ends /\ ends[NextFrame] = taken + length /\ length \in 1..MaxFrame
    BY <2>1, Position
  <2>3. length \in Nat /\ <<taken, taken + length>> \in Nat \X Nat
    BY <2>2, Facts
  <2>4. <<taken, taken + length>> = Payload(NextFrame)
    BY <2>1, <2>2, NextPayload
  <2>5. Size(<<taken, taken + length>>) \in 1..MaxFrame
    <3>1. taken \in Nat
      BY Facts
    <3>2. QED
      BY <2>2, <2>3, <3>1 DEF Size
  <2>6. ends[NextFrame] <= received
    BY <2>1, <2>2, <2>3, Facts DEF Buffered
  <2>7. QED
    BY <2>1, <2>2, <2>3, <2>4, <2>5, <2>6, HandInv
<1>3. ASSUME NEW i \in DOMAIN ends, TakeLine(i) PROVE IInv'
  <2>1. /\ caller = "receiving" /\ framing = "newline" /\ Complete(i)
        /\ ~TooLong(ends[i] - 1 - taken)
        /\ ends' = ends /\ received' = received /\ taken' = ends[i] /\ length' = length
    BY <1>3 DEF TakeLine
  <2>2. i = NextFrame /\ taken < ends[i] /\ ends[i] <= received /\ ends[i] \in Nat
    BY <2>1, CurrentIsNext, Facts DEF Complete
  <2>3. CASE ends[i] - 1 = taken
    <3>1. Raise("EMPTY") /\ handed' = handed
      BY <1>3, <2>3 DEF TakeLine
    <3>2. taken' \in Nat /\ taken <= taken' /\ taken' <= received
      BY <2>1, <2>2, Facts
    <3>3. QED
      BY <2>1, <3>1, <3>2, RaiseInv
  <2>4. CASE ends[i] - 1 # taken
    <3> DEFINE frame == <<taken, ends[i] - 1>>
    <3>1. HandOver(frame)
      BY <1>3, <2>4 DEF TakeLine
    <3>2. length = Absent
      BY <2>1, Position
    <3>3. frame = Payload(NextFrame) /\ frame \in Nat \X Nat
      <4>1. Payload(NextFrame) = <<taken, ends[NextFrame] - 1>>
        BY <2>1, <2>2, NextPayload
      <4>2. taken \in Nat /\ ends[i] - 1 \in Nat
        <5>1. taken \in Nat
          BY Facts
        <5>2. QED
          BY <2>2, <5>1
      <4>3. QED
        BY <2>2, <4>1, <4>2
    <3>4. Size(frame) \in 1..MaxFrame
      <4>1. taken \in Nat /\ MaxFrame \in Nat
        BY Facts, TransportAssumption
      <4>2. ends[i] - 1 - taken <= MaxFrame
        BY <2>1, <2>2, <4>1 DEF TooLong
      <4>3. QED
        BY <2>2, <2>4, <4>1, <4>2 DEF Size
    <3> HIDE DEF frame
    <3>5. QED
      BY <2>1, <2>2, <3>1, <3>2, <3>3, <3>4, HandInv
  <2>5. QED
    BY <2>3, <2>4
<1>4. ASSUME NEW i \in DOMAIN ends, TakeLength(i) PROVE IInv'
  <2> DEFINE size == ends[i] - Prefix - taken
  <2>1. /\ caller = "receiving" /\ framing = "length-prefixed" /\ length = Absent
        /\ Buffered >= Prefix /\ Current(i)
        /\ ends' = ends /\ received' = received /\ handed' = handed /\ taken' = taken + Prefix
    BY <1>4 DEF TakeLength
  <2>2. i = NextFrame /\ ends[i] \in Nat /\ taken = Begin(NextFrame)
    BY <2>1, CurrentIsNext, Position, Facts
  <2>3. Prefix \in Nat /\ Overhead = Prefix /\ taken + Prefix <= ends[i]
    BY <2>1, <2>2, TransportAssumption DEF Overhead, IInv, StreamInv
  <2>4. taken' \in Nat /\ taken <= taken' /\ taken' <= received
    <3>1. taken \in Nat /\ received \in Nat /\ received - taken >= Prefix
      BY <2>1, Facts DEF Buffered
    <3>2. QED
      BY <2>1, <2>3, <3>1
  <2>5. Payload(NextFrame) = <<taken + Prefix, ends[i]>>
    BY <2>1, <2>2, NextPayload
  <2>6. Size(Payload(NextFrame)) = size
    BY <2>2, <2>3, <2>5, Facts DEF Size
  <2>7. CASE size = 0
    <3>1. Raise("EMPTY") /\ length' = length
      BY <1>4, <2>7 DEF TakeLength
    <3>2. QED
      BY <2>1, <2>4, <3>1, RaiseInv
  <2>8. CASE size # 0 /\ TooLong(size)
    <3>1. Raise("OVERSIZED") /\ length' = length
      BY <1>4, <2>8 DEF TakeLength
    <3>2. NextFrame \in DOMAIN ends /\ Size(Payload(NextFrame)) > MaxFrame
      BY <2>2, <2>6, <2>8 DEF TooLong
    <3>3. QED
      BY <2>1, <2>4, <3>1, <3>2, RaiseInv
  <2>9. CASE size # 0 /\ ~TooLong(size)
    <3>1. /\ length' = size /\ framing' = framing /\ connected' = connected
          /\ caller' = caller /\ attempt' = attempt /\ error' = error
      BY <1>4, <2>9 DEF TakeLength
    <3>2. size \in 1..MaxFrame /\ size \in Nat
      <4>1. taken \in Nat /\ MaxFrame \in Nat
        BY Facts, TransportAssumption
      <4>2. size \in Nat
        BY <2>2, <2>3, <4>1
      <4>3. size # 0 /\ size <= MaxFrame
        BY <2>9, <4>1, <4>2 DEF TooLong
      <4>4. QED
        BY <4>1, <4>2, <4>3
    <3>3. TypeOK'
      <4>1. Total' = Total
        BY <2>1, <3>1, SameStream
      <4>2. received' \in 0..Total' /\ taken' \in 0..received'
        BY <4>1, <2>1, <2>4, Facts
      <4>3. QED
        BY <2>1, <3>1, <3>2, <4>2 DEF IInv, TypeOK
    <3>4. StreamInv' /\ HandedInv'
      BY <2>1, <3>1, SameStream DEF IInv, HandedInv, Size
    <3>5. PositionInv'
      <4>1. NextFrame' = NextFrame /\ Begin(NextFrame)' = Begin(NextFrame)
        BY <2>1, <3>1, SameStream DEF NextFrame
      <4>2. NextFrame \in DOMAIN ends /\ taken' = Begin(NextFrame) + Prefix
            /\ ends[NextFrame] = taken' + size
        BY <2>1, <2>2, <2>3, Facts
      <4>3. QED
        BY <2>1, <3>1, <3>2, <4>1, <4>2, TransportAssumption DEF PositionInv
    <3>6. OversizedInv'
      BY <2>1, <3>1 DEF OversizedInv
    <3>7. BufferInv'
      <4>1. received - taken <= MaxFrame + Prefix + MaxChunk
        BY DEF IInv, BufferInv, Buffered
      <4>2. received' - taken' <= MaxFrame + Prefix + MaxChunk
        BY <4>1, <2>1, <2>3, Facts, TransportAssumption
      <4>3. QED
        BY <4>2 DEF BufferInv, Buffered
    <3>8. QED
      BY <3>3, <3>4, <3>5, <3>6, <3>7 DEF IInv
  <2>10. QED
    BY <2>7, <2>8, <2>9
<1>5. QED
  BY <1>1, <1>2, <1>3, <1>4

\* Every step keeps the invariant.
LEMMA StepInv == IInv /\ [Next]_vars => IInv'
<1> SUFFICES ASSUME IInv, [Next]_vars PROVE IInv'
  OBVIOUS
<1> USE DEF IInv
<1>0. /\ framing \in Framings /\ connected \in BOOLEAN
      /\ caller \in {"idle", "receiving", "raised", "done"}
      /\ attempt \in 0..ReconnectAttempts /\ error \in Errors \cup {Absent}
      /\ 0 \in 0..ReconnectAttempts
  BY TransportAssumption DEF TypeOK
<1>1. CASE Call
  <2>1. /\ caller = "idle" /\ caller' = "receiving" /\ attempt' = 0
        /\ framing' = framing /\ connected' = connected /\ ends' = ends /\ received' = received
        /\ taken' = taken /\ length' = length /\ handed' = handed /\ error' = error
    BY <1>1 DEF Call, stream
  <2>2. TypeOK'
    BY <1>0, <2>1, SameStream DEF TypeOK
  <2>3. StreamInv' /\ HandedInv'
    BY <2>1, SameStream DEF HandedInv, Size
  <2>4. PositionInv'
    BY <2>1, SameStream DEF PositionInv, NextFrame
  <2>5. OversizedInv' /\ BufferInv'
    BY <2>1 DEF OversizedInv, BufferInv, Buffered
  <2>6. QED
    BY <2>2, <2>3, <2>4, <2>5
<1>2. CASE Connect
  BY <1>0, <1>2, ClearInv DEF Connect
<1>3. CASE ConnectFails
  BY <1>3, FailInv DEF ConnectFails
<1>4. CASE RecvFails
  BY <1>4, FailInv DEF RecvFails
<1>5. CASE \E size \in 1..MaxChunk : Recv(size)
  BY <1>5, RecvInv
<1>6. CASE RefuseLine \/ TakePayload \/ \E i \in DOMAIN ends : TakeLine(i) \/ TakeLength(i)
  BY <1>6, ReadInv
<1>7. CASE Close
  BY <1>0, <1>7, ClearInv DEF Close
<1>8. CASE \E size \in Sizes : PeerSends(size)
  BY <1>8, SendInv
<1>9. CASE UNCHANGED vars
  <2>1. /\ framing' = framing /\ connected' = connected /\ ends' = ends /\ received' = received
        /\ taken' = taken /\ length' = length /\ handed' = handed /\ caller' = caller
        /\ attempt' = attempt /\ error' = error
    BY <1>9 DEF vars, stream
  <2>2. TypeOK'
    BY <1>0, <2>1, SameStream DEF TypeOK
  <2>3. StreamInv' /\ HandedInv'
    BY <2>1, SameStream DEF HandedInv, Size
  <2>4. PositionInv'
    BY <2>1, SameStream DEF PositionInv, NextFrame
  <2>5. OversizedInv' /\ BufferInv'
    BY <2>1, SameStream DEF OversizedInv, BufferInv, Buffered, NextFrame, Size
  <2>6. QED
    BY <2>2, <2>3, <2>4, <2>5
<1>10. QED
  BY <1>1, <1>2, <1>3, <1>4, <1>5, <1>6, <1>7, <1>8, <1>9 DEF Next, Receiving

\* The invariant of the transport.
THEOREM Invariance == Spec => []IInv
<1>1. Init => IInv
  BY InitInv
<1>2. IInv /\ [Next]_vars => IInv'
  BY StepInv
<1>3. QED
  BY <1>1, <1>2, PTL DEF Spec

(***************************************************************************)
(* The theorems.                                                           *)
(***************************************************************************)
\* Every reachable state has its types, and the buffer lies within the stream.
THEOREM TypeCorrect == Spec => []TypeOK
<1>1. IInv => TypeOK
  BY DEF IInv
<1>2. QED
  BY <1>1, Invariance, PTL

\* A frame is refused as oversized if and only if it is longer than max_frame_bytes, however its
\* bytes are chunked, and the buffer stays within the limit and a chunk.
THEOREM LimitsAreExact == Spec => []LimitIsExact
<1>1. IInv => LimitIsExact
  <2> SUFFICES ASSUME IInv PROVE LimitIsExact
    OBVIOUS
  <2>1. error = "OVERSIZED" /\ caller = "raised" =>
           \E i \in DOMAIN ends : i = Len(handed) + 1 /\ Size(Payload(i)) > MaxFrame
    BY DEF IInv, OversizedInv, NextFrame
  <2>2. \A i \in DOMAIN handed : Size(handed[i]) \in 1..MaxFrame
    BY DEF IInv, HandedInv
  <2>3. Buffered <= MaxFrame + Prefix + MaxChunk
    BY DEF IInv, BufferInv
  <2>4. QED
    BY <2>1, <2>2, <2>3 DEF LimitIsExact
<1>2. QED
  BY <1>1, Invariance, PTL

\* A connection is given up by receive only when no frame is complete in the buffer.
THEOREM WholeFramesDoSurvive == Spec => WholeFramesSurvive
<1>1. ASSUME IInv, [Next]_vars, connected, ~connected', caller' # "done"
      PROVE  \A i \in DOMAIN ends : ~Complete(i)
  <2>1. ConnectFails \/ RecvFails
    <3>1. ~Call /\ ~Connect /\ ~RefuseLine /\ ~Close /\ ~UNCHANGED vars
      BY <1>1 DEF Call, Connect, RefuseLine, Raise, Close, vars
    <3>2. ~TakePayload
      BY <1>1 DEF TakePayload, HandOver, Raise
    <3>3. ~(\E size \in 1..MaxChunk : Recv(size)) /\ ~(\E size \in Sizes : PeerSends(size))
      BY <1>1 DEF Recv, PeerSends
    <3>4. ~(\E i \in DOMAIN ends : TakeLine(i))
      BY <1>1 DEF TakeLine, HandOver, Raise
    <3>5. ~(\E i \in DOMAIN ends : TakeLength(i))
      BY <1>1 DEF TakeLength, Raise
    <3>6. QED
      BY <1>1, <3>1, <3>2, <3>3, <3>4, <3>5 DEF Next, Receiving
  <2>2. RecvFails
    BY <1>1, <2>1 DEF ConnectFails
  <2>3. caller = "receiving" /\ NeedsBytes
    BY <2>2 DEF RecvFails
  <2>4. CASE framing = "newline"
    BY <2>3, <2>4 DEF NeedsBytes
  <2>5. CASE framing # "newline"
    <3> SUFFICES ASSUME NEW i \in DOMAIN ends, Complete(i) PROVE FALSE
      OBVIOUS
    <3>1. /\ i = NextFrame /\ ends[i] <= received /\ ends[i] \in Nat
          /\ received \in Nat /\ taken \in Nat
      BY <1>1, <2>3, CurrentIsNext, Facts DEF Complete
    <3>2. CASE length = Absent
      <4>1. Begin(i) + Prefix <= ends[i] /\ taken = Begin(i)
        BY <1>1, <2>3, <2>5, <3>1, <3>2, Position DEF IInv, StreamInv, Overhead
      <4>2. received - taken < Prefix
        BY <2>3, <2>5, <3>2 DEF NeedsBytes, Buffered
      <4>3. QED
        BY <3>1, <4>1, <4>2, TransportAssumption
    <3>3. CASE length # Absent
      <4>1. ends[i] = taken + length /\ length \in 1..MaxFrame
        BY <1>1, <2>3, <3>1, <3>3, Position
      <4>2. received - taken < length
        BY <2>3, <2>5, <3>3 DEF NeedsBytes, Buffered
      <4>3. QED
        BY <3>1, <4>1, <4>2
    <3>4. QED
      BY <3>2, <3>3
  <2>6. QED
    BY <2>4, <2>5
<1>2. IInv /\ [Next]_vars =>
         [connected /\ ~connected' /\ caller' # "done" => \A i \in DOMAIN ends : ~Complete(i)]_vars
  BY <1>1
<1>3. QED
  BY <1>2, Invariance, PTL DEF Spec, WholeFramesSurvive

\* The transport hands over what the peer sent, whole and in order.
THEOREM TransportImplementsFrameStream == Spec => ImplementsFrameStream
<1> DEFINE sent == [i \in DOMAIN ends |-> Payload(i)]
<1>1. Init => Contract!Init
  <2> SUFFICES ASSUME Init PROVE Contract!Init
    OBVIOUS
  <2>1. ends = <<>> /\ handed = <<>> /\ DOMAIN ends = {}
    BY DEF Init
  <2>2. sent = <<>>
    BY <2>1
  <2>3. QED
    BY <2>1, <2>2 DEF Contract!Init
<1>2. ASSUME IInv, IInv', [Next]_vars PROVE [Contract!Next]_Contract!vars
  <2>1. Len(sent) = Len(ends) /\ DOMAIN sent = DOMAIN ends
    BY <1>2, Facts
  <2>2. ASSUME framing' = framing, ends' = ends PROVE sent' = sent
    BY <2>2, SameStream
  <2>3. CASE Clear
    <3>1. handed' = <<>> /\ (DOMAIN ends)' = {}
      BY <2>3 DEF Clear
    <3>2. sent' = <<>>
      BY <3>1
    <3>3. QED
      BY <3>1, <3>2 DEF Contract!Next, Contract!Disconnect
  <2>4. CASE framing' = framing /\ ends' = ends /\ handed' = handed
    BY <2>2, <2>4 DEF Contract!vars
  <2>5. ASSUME framing' = framing, ends' = ends, NEW frame, handed' = Append(handed, frame)
        PROVE  Contract!Hand
    <3>1. PICK n \in Nat : n = Len(handed) + 1
      BY <1>2, Facts
    <3>2. Len(handed') = n /\ handed'[n] = frame /\ DOMAIN handed' = 1..n
      <4>1. handed \in Seq(Nat \X Nat) /\ handed' \in Seq(Nat \X Nat)
        BY <1>2 DEF IInv, TypeOK
      <4>2. Len(handed') = n /\ handed'[n] = frame
        BY <2>5, <3>1, <4>1
      <4>3. QED
        BY <4>1, <4>2
    <3>3. n \in DOMAIN handed' /\ Len(ends') = Len(ends)
      BY <2>5, <3>1, <3>2, <1>2, Facts
    <3>4. n <= Len(ends) /\ frame = Payload(n)'
      BY <1>2, <3>2, <3>3 DEF IInv, HandedInv
    <3>5. Payload(n)' = Payload(n)
      BY <2>5, SameStream
    <3>6. n \in DOMAIN ends /\ Len(handed) < Len(sent)
      BY <1>2, <2>1, <3>1, <3>4, Facts
    <3>7. sent[n] = frame
      BY <3>4, <3>5, <3>6
    <3>8. QED
      BY <2>2, <2>5, <3>1, <3>6, <3>7 DEF Contract!Hand
  <2>6. CASE \E size \in Sizes : PeerSends(size)
    <3>1. PICK size \in Sizes : PeerSends(size)
      BY <2>6
    <3>2. /\ DOMAIN sent' = 1..(Len(ends) + 1) /\ DOMAIN sent = 1..Len(ends)
          /\ \A i \in DOMAIN sent' : sent'[i] = Payload(i)'
          /\ Len(ends) \in Nat /\ Len(sent) = Len(ends)
      BY <1>2, <2>1, <3>1, SendStream, Facts
    <3>3. \A i \in DOMAIN sent : sent'[i] = sent[i]
      BY <1>2, <3>1, <3>2, SendStream, Facts
    <3>4. ASSUME NEW i \in DOMAIN sent' PROVE sent'[i] \in Nat \X Nat
      <4>1. CASE i \in DOMAIN ends
        <5>1. /\ ends[i] \in Nat /\ Begin(i) \in Nat /\ Begin(i) + Overhead <= ends[i]
              /\ Overhead \in Nat \ {0} /\ Prefix \in Nat
          BY <1>2, <4>1, Facts, TransportAssumption DEF IInv, StreamInv
        <5>2. Payload(i) \in Nat \X Nat
          BY <5>1 DEF Payload
        <5>3. QED
          BY <4>1, <5>2, <3>3, <2>1
      <4>2. CASE i = Len(ends) + 1
        <5>1. /\ Begin(i)' = Total /\ ends'[i] = Total + size + Overhead /\ Total \in Nat
              /\ size \in Nat /\ Overhead \in Nat \ {0} /\ Prefix \in Nat
          BY <1>2, <3>1, <3>2, <4>2, SendStream, Facts, TransportAssumption
        <5>2. Payload(i)' \in Nat \X Nat
          BY <5>1 DEF Payload
        <5>3. QED
          BY <5>2, <3>2
      <4>3. QED
        BY <1>2, <3>2, <4>1, <4>2, Facts
    <3>5. sent' \in Seq(Nat \X Nat) /\ Len(sent') = Len(sent) + 1
      <4>1. \A i \in 1..(Len(ends) + 1) : sent'[i] \in Nat \X Nat
        BY <3>2, <3>4
      <4>2. sent' = [i \in 1..(Len(ends) + 1) |-> sent'[i]]
        BY <3>1, <1>2, SendStream
      <4>3. QED
        BY <3>2, <4>1, <4>2
    <3>6. handed' = handed
      BY <1>2, <3>1, SendStream
    <3>7. QED
      BY <3>3, <3>5, <3>6 DEF Contract!Next, Contract!Send
  <2>7. CASE Connect \/ ConnectFails \/ RecvFails \/ Close
    BY <2>3, <2>7 DEF Connect, ConnectFails, RecvFails, Close, Fail
  <2>8. CASE \/ Call \/ RefuseLine \/ \E size \in 1..MaxChunk : Recv(size)
             \/ UNCHANGED vars
    BY <2>4, <2>8 DEF Call, RefuseLine, Raise, Recv, vars, stream
  <2>9. CASE TakePayload
    <3>1. handed' = Append(handed, <<taken, taken + length>>) /\ framing' = framing /\ ends' = ends
      BY <2>9 DEF TakePayload, HandOver, Raise
    <3>2. QED
      BY <3>1, <2>5 DEF Contract!Next
  <2>10. ASSUME NEW i \in DOMAIN ends, TakeLine(i) PROVE [Contract!Next]_Contract!vars
    <3>1. CASE ends[i] - 1 = taken
      BY <2>4, <2>10, <3>1 DEF TakeLine, Raise
    <3>2. CASE ends[i] - 1 # taken
      <4>1. handed' = Append(handed, <<taken, ends[i] - 1>>) /\ framing' = framing /\ ends' = ends
        BY <2>10, <3>2 DEF TakeLine, HandOver, Raise
      <4>2. QED
        BY <4>1, <2>5 DEF Contract!Next
    <3>3. QED
      BY <3>1, <3>2
  <2>11. ASSUME NEW i \in DOMAIN ends, TakeLength(i) PROVE [Contract!Next]_Contract!vars
    <3>1. framing' = framing /\ ends' = ends /\ handed' = handed
      BY <2>11 DEF TakeLength, Raise
    <3>2. QED
      BY <3>1, <2>4
  <2>12. QED
    BY <1>2, <2>6, <2>7, <2>8, <2>9, <2>10, <2>11 DEF Next, Receiving
<1>3. QED
  BY <1>1, <1>2, Invariance, PTL DEF Spec, ImplementsFrameStream, Contract!Spec
=============================================================================
