------------------------- MODULE FeedMonitorProofs -------------------------
(***************************************************************************)
(* Theorems of FeedMonitor, for every set of streams and numbers, every    *)
(* duplicate window and every history of starts, stops and arrivals.       *)
(***************************************************************************)
EXTENDS FeedMonitor, SequenceTheorems, TLAPS

\* A stream without a highest number has received and counted nothing; one with a highest
\* number has a first one.
StreamInv(s) ==
    /\ highest[s] = Absent => arrivals[s] = <<>> /\ advances[s] = 0 /\ reported[s] = 0
    /\ highest[s] # Absent => first[s] # Absent /\ first[s] <= highest[s]

IInv == TypeOK /\ GapLedger /\ TrackerMatchesArrivals /\ \A s \in Streams : StreamInv(s)

\* Where the last Window members of a sequence begin.
Since(length) == IF length > Window THEN length - Window + 1 ELSE 1

\* Latest is a sequence of at most Window members, taken from the end.
LEMMA LatestProperties ==
    ASSUME NEW all \in Seq(Numbers)
    PROVE  /\ Latest(all) \in Seq(Numbers)
           /\ Len(Latest(all)) = IF Len(all) > Window THEN Window ELSE Len(all)
           /\ \A i \in 1..Len(Latest(all)) : Latest(all)[i] = all[Since(Len(all)) + i - 1]
<1> DEFINE k == Len(all)
           from == Since(k)
<1>1. k \in Nat /\ \A i \in 1..k : all[i] \in Numbers
  OBVIOUS
<1>2. Latest(all) = SubSeq(all, from, k)
  BY DEF Latest, Since
<1> HIDE DEF k
<1>3. /\ from \in Int /\ from >= 1 /\ from <= k + 1
      /\ k - from + 1 = IF k > Window THEN Window ELSE k
  BY <1>1, FeedAssumption DEF Since
<1> HIDE DEF from
<1>4. \A i \in from..k : all[i] \in Numbers
  BY <1>1, <1>3
<1>5. /\ SubSeq(all, from, k) \in Seq(Numbers)
      /\ Len(SubSeq(all, from, k)) = IF from <= k THEN k - from + 1 ELSE 0
      /\ \A i \in 1..(k - from + 1) : SubSeq(all, from, k)[i] = all[from + i - 1]
  BY <1>1, <1>3, <1>4, SubSeqProperties
<1>6. Len(SubSeq(all, from, k)) = k - from + 1
  BY <1>1, <1>3, <1>5
<1>7. QED
  BY <1>2, <1>3, <1>5, <1>6 DEF k, from

\* Appending and cutting keeps the window the last Window members of the sequence.
LEMMA SlideLatest ==
    ASSUME NEW all \in Seq(Numbers), NEW n \in Numbers
    PROVE  Slide(Latest(all), n) = Latest(Append(all, n))
<1> DEFINE k == Len(all)
           new == Append(all, n)
           old == Latest(all)
           longer == Append(old, n)
<1>1. /\ k \in Nat /\ new \in Seq(Numbers) /\ Len(new) = k + 1
      /\ \A i \in 1..k : new[i] = all[i]
      /\ new[k + 1] = n
  OBVIOUS
<1>2. /\ old \in Seq(Numbers) /\ Len(old) = IF k > Window THEN Window ELSE k
      /\ \A i \in 1..Len(old) : old[i] = all[Since(k) + i - 1]
  BY LatestProperties
<1>3. /\ Latest(new) \in Seq(Numbers)
      /\ Len(Latest(new)) = IF k + 1 > Window THEN Window ELSE k + 1
      /\ \A i \in 1..Len(Latest(new)) : Latest(new)[i] = new[Since(k + 1) + i - 1]
  <2> HIDE DEF new, k
  <2>1. /\ Latest(new) \in Seq(Numbers)
        /\ Len(Latest(new)) = IF Len(new) > Window THEN Window ELSE Len(new)
        /\ \A i \in 1..Len(Latest(new)) : Latest(new)[i] = new[Since(Len(new)) + i - 1]
    BY <1>1, LatestProperties
  <2>2. Len(new) = k + 1
    BY <1>1
  <2> HIDE DEF old
  <2>3. QED
    BY <2>1, <2>2
<1> HIDE DEF old
<1>4. /\ longer \in Seq(Numbers) /\ Len(longer) = Len(old) + 1
      /\ \A i \in 1..Len(old) : longer[i] = old[i]
      /\ longer[Len(old) + 1] = n
  BY <1>2
<1>5. Slide(old, n) = IF Len(longer) > Window THEN Tail(longer) ELSE longer
  BY DEF Slide
<1> HIDE DEF k, new, longer
<1>6. CASE k < Window
  <2>1. Since(k) = 1 /\ Since(k + 1) = 1 /\ Len(old) = k /\ Len(longer) = k + 1
    BY <1>1, <1>2, <1>4, <1>6, FeedAssumption DEF Since
  <2>2. Len(Latest(new)) = k + 1
    BY <1>1, <1>3, <1>6, FeedAssumption
  <2>3. ASSUME NEW i \in 1..Len(longer)
        PROVE  longer[i] = Latest(new)[i]
    <3>1. Latest(new)[i] = new[i]
      <4>1. i \in 1..Len(Latest(new)) /\ Since(k + 1) + i - 1 = i
        BY <1>1, <2>1, <2>2, <2>3
      <4>2. QED
        BY <1>3, <4>1
    <3>2. CASE i = k + 1
      BY <1>1, <1>4, <2>1, <3>1, <3>2
    <3>3. CASE i \in 1..k
      BY <1>1, <1>2, <1>4, <2>1, <3>1, <3>3
    <3>4. QED
      BY <1>1, <2>1, <3>2, <3>3
  <2>4. longer = Latest(new)
    BY <1>3, <1>4, <2>1, <2>2, <2>3, SeqEqual
  <2>5. QED
    BY <1>1, <1>5, <1>6, <2>1, <2>4, FeedAssumption DEF old, new
<1>7. CASE k >= Window
  <2>1. /\ Since(k) = k - Window + 1 /\ Since(k + 1) = k - Window + 2
        /\ Len(old) = Window /\ Len(longer) = Window + 1
    BY <1>1, <1>2, <1>4, <1>7, FeedAssumption DEF Since
  <2>2. Len(Latest(new)) = Window
    BY <1>1, <1>3, <1>7, FeedAssumption
  <2>3. longer # <<>>
    BY <2>1, FeedAssumption
  <2>4. /\ Tail(longer) \in Seq(Numbers) /\ Len(Tail(longer)) = Window
        /\ \A i \in 1..Window : Tail(longer)[i] = longer[i + 1]
    BY <1>4, <2>1, <2>3, HeadTailProperties, FeedAssumption
  <2>5. ASSUME NEW i \in 1..Window
        PROVE  Tail(longer)[i] = Latest(new)[i]
    <3>1. Latest(new)[i] = new[k - Window + 1 + i]
      <4>1. i \in 1..Len(Latest(new)) /\ Since(k + 1) + i - 1 = k - Window + 1 + i
        BY <1>1, <2>1, <2>2, <2>5, FeedAssumption
      <4>2. QED
        BY <1>3, <4>1
    <3>2. CASE i = Window
      BY <1>1, <1>4, <2>1, <2>4, <3>1, <3>2, FeedAssumption
    <3>3. CASE i < Window
      <4>1. longer[i + 1] = old[i + 1] /\ old[i + 1] = all[k - Window + 1 + i]
        BY <1>1, <1>2, <1>4, <2>1, <3>3, FeedAssumption
      <4>2. k - Window + 1 + i \in 1..k
        BY <1>1, <1>7, <3>3, FeedAssumption
      <4>3. QED
        BY <1>1, <2>4, <3>1, <4>1, <4>2
    <3>4. i = Window \/ i < Window
      BY <2>5, FeedAssumption
    <3>5. QED
      BY <3>2, <3>3, <3>4
  <2>6. Tail(longer) = Latest(new)
    BY <1>3, <2>2, <2>4, <2>5, SeqEqual
  <2>7. QED
    BY <1>5, <2>1, <2>6, FeedAssumption DEF old, new
<1>8. QED
  BY <1>1, <1>6, <1>7, FeedAssumption

\* What the window holds has arrived.
LEMMA WindowArrived ==
    ASSUME IInv, NEW s \in Streams PROVE Occurring(recent[s]) \subseteq Occurring(arrivals[s])
<1> DEFINE all == arrivals[s]
<1>1. all \in Seq(Numbers) /\ recent[s] = Latest(all)
  BY DEF IInv, TypeOK, TrackerMatchesArrivals
<1>2. Len(all) \in Nat
  BY <1>1
<1> HIDE DEF all
<1>3. \A i \in 1..Len(Latest(all)) : /\ Since(Len(all)) + i - 1 \in 1..Len(all)
                                     /\ Latest(all)[i] = all[Since(Len(all)) + i - 1]
  BY <1>1, <1>2, LatestProperties, FeedAssumption DEF Since
<1>4. QED
  BY <1>1, <1>3 DEF Occurring, all

\* What a classification says about the number and the tracker it was made with.
Meaning(row, s, n) ==
    /\ row \in Rows
    /\ row.status = "FIRST" => highest[s] = Absent /\ row.missing = 0
    /\ row.status \in {"IN_ORDER", "GAP"} =>
          highest[s] # Absent /\ n = highest[s] + 1 + row.missing
    /\ row.status = "IN_ORDER" => row.missing = 0
    /\ row.status = "GAP" => row.expected = highest[s] + 1
    /\ row.status \notin Advancing =>
          row.missing = 0 /\ highest[s] # Absent /\ n <= highest[s]

\* Reachable states classify a number as the tracker's table says.
LEMMA Classification ==
    ASSUME IInv, NEW s \in Streams, NEW n \in Numbers
    PROVE  Meaning(Observation(s, n), s, n)
<1> USE FeedAssumption, AbsentAssumption
<1> DEFINE next == highest[s] + 1
<1>1. CASE n \in Occurring(recent[s])
  <2>1. n \in Occurring(arrivals[s])
    BY <1>1, WindowArrived
  <2>2. highest[s] # Absent /\ n <= highest[s]
    BY <2>1 DEF IInv, TrackerMatchesArrivals
  <2>3. highest[s] \in Nat
    BY <2>2 DEF IInv, TypeOK, Held
  <2>4. Observation(s, n) = Row("DUPLICATE", next, 0)
    BY <1>1 DEF Observation
  <2>5. QED
    BY <2>2, <2>3, <2>4 DEF Meaning, Row, Rows, Statuses, Held, Advancing
<1>2. CASE n \notin Occurring(recent[s]) /\ highest[s] = Absent
  <2>1. Observation(s, n) = Row("FIRST", Absent, 0)
    BY <1>2 DEF Observation
  <2>2. QED
    BY <1>2, <2>1 DEF Meaning, Row, Rows, Statuses, Held, Advancing
<1>3. CASE n \notin Occurring(recent[s]) /\ highest[s] # Absent
  <2>1. highest[s] \in Nat /\ n \in Nat
    BY <1>3 DEF IInv, TypeOK, Held
  <2>2. CASE n = next
    <3>1. Observation(s, n) = Row("IN_ORDER", next, 0)
      BY <1>3, <2>1, <2>2 DEF Observation
    <3>2. QED
      BY <1>3, <2>1, <2>2, <3>1 DEF Meaning, Row, Rows, Statuses, Held, Advancing
  <2>3. CASE n > next
    <3>1. Observation(s, n) = Row("GAP", next, n - next)
      BY <1>3, <2>1, <2>3 DEF Observation
    <3>2. n - next \in Nat
      BY <2>1, <2>3
    <3>3. QED
      BY <1>3, <2>1, <2>3, <3>1, <3>2 DEF Meaning, Row, Rows, Statuses, Held, Advancing
  <2>4. CASE n < next
    <3>1. Observation(s, n) = Row("REORDERED", next, 0)
      BY <1>3, <2>1, <2>4 DEF Observation
    <3>2. QED
      BY <1>3, <2>1, <2>4, <3>1 DEF Meaning, Row, Rows, Statuses, Held, Advancing
  <2>5. QED
    BY <2>1, <2>2, <2>3, <2>4
<1>4. QED
  BY <1>1, <1>2, <1>3

\* Nothing has arrived: the window is empty.
LEMMA EmptyWindow ==
    <<>> \in Seq(Numbers) /\ Latest(<<>>) = <<>> /\ Occurring(<<>>) = {}
<1>1. Len(<<>>) = 0 /\ SubSeq(<<>>, 1, 0) = <<>>
  BY SubSeqEmpty
<1>2. QED
  BY <1>1, FeedAssumption DEF Latest, Occurring

\* An arrival adds its number to those that occurred.
LEMMA OccurringAppend ==
    ASSUME NEW all \in Seq(Numbers), NEW n \in Numbers
    PROVE  Occurring(Append(all, n)) = Occurring(all) \cup {n}
<1>1. /\ Len(all) \in Nat /\ Len(Append(all, n)) = Len(all) + 1
      /\ \A i \in 1..Len(all) : Append(all, n)[i] = all[i]
      /\ Append(all, n)[Len(all) + 1] = n
  OBVIOUS
<1>2. 1..Len(Append(all, n)) = 1..Len(all) \cup {Len(all) + 1}
  BY <1>1
<1>3. QED
  BY <1>1, <1>2 DEF Occurring

\* IInv holds before the first monitor starts.
LEMMA InitInv == Init => IInv
<1> SUFFICES ASSUME Init PROVE IInv
  OBVIOUS
<1>1. TypeOK
  BY EmptyWindow DEF Init, TypeOK, Held
<1>2. GapLedger
  BY DEF Init, GapLedger
<1>3. \A s \in Streams : StreamInv(s)
  BY DEF Init, StreamInv
<1>4. TrackerMatchesArrivals
  BY EmptyWindow DEF Init, TrackerMatchesArrivals
<1>5. QED
  BY <1>1, <1>2, <1>3, <1>4 DEF IInv

\* A step that leaves the tracker and the history alone keeps what IInv says of them.
LEMMA QuietStep ==
    ASSUME IInv, TypeOK', UNCHANGED <<tracker, history>> PROVE IInv'
BY DEF IInv, GapLedger, TrackerMatchesArrivals, StreamInv, tracker, history, Occurring

\* A new process starts with nothing seen and nothing counted.
LEMMA StartStep ==
    ASSUME IInv, Start PROVE IInv'
<1>1. TypeOK'
  BY EmptyWindow DEF IInv, TypeOK, Start, Held
<1>2. GapLedger' /\ \A s \in Streams : StreamInv(s)'
  BY DEF Start, GapLedger, StreamInv
<1>3. TrackerMatchesArrivals'
  BY EmptyWindow DEF Start, TrackerMatchesArrivals
<1>4. QED
  BY <1>1, <1>2, <1>3 DEF IInv

\* What Receive does, with the meaning of the classification it makes.
Received(s, n, row) ==
    /\ Meaning(row, s, n)
    /\ highest' = IF row.status \in Advancing THEN [highest EXCEPT ![s] = n] ELSE highest
    /\ recent' = [recent EXCEPT ![s] = Slide(@, n)]
    /\ pending' = [event |-> <<s, n>>, row |-> row]
    /\ first' = IF row.status = "FIRST" THEN [first EXCEPT ![s] = n] ELSE first
    /\ arrivals' = [arrivals EXCEPT ![s] = Append(@, n)]
    /\ advances' = IF row.status \in Advancing
                   THEN [advances EXCEPT ![s] = @ + 1] ELSE advances
    /\ reported' = [reported EXCEPT ![s] = @ + row.missing]
    /\ UNCHANGED <<up, journal, inherited, starts>>

\* Receiving keeps the types.
LEMMA ReceiveType ==
    ASSUME IInv, NEW s \in Streams, NEW n \in Numbers, NEW row, Received(s, n, row)
    PROVE  TypeOK'
<1>1. TypeOK /\ row \in Rows /\ row.missing \in Nat
  BY DEF IInv, Received, Meaning, Rows
<1>2. recent' \in [Streams -> Seq(Numbers)]
  <2>1. recent[s] = Latest(arrivals[s]) /\ arrivals[s] \in Seq(Numbers)
    BY <1>1 DEF IInv, TrackerMatchesArrivals, TypeOK
  <2>2. Append(arrivals[s], n) \in Seq(Numbers)
    BY <2>1
  <2>3. Slide(recent[s], n) \in Seq(Numbers)
    BY <2>1, <2>2, SlideLatest, LatestProperties
  <2>4. QED
    BY <1>1, <2>3 DEF TypeOK, Received
<1>3. arrivals' \in [Streams -> Seq(Numbers)]
  BY <1>1 DEF TypeOK, Received
<1>4. pending' \in Held(Classified)
  BY <1>1 DEF Received, Held, Classified, Events
<1>5. /\ highest' \in [Streams -> Held(Numbers)] /\ first' \in [Streams -> Held(Numbers)]
      /\ advances' \in [Streams -> Nat] /\ reported' \in [Streams -> Nat]
  BY <1>1 DEF TypeOK, Received, Held
<1>6. QED
  BY <1>1, <1>2, <1>3, <1>4, <1>5 DEF TypeOK, Received

\* Receiving keeps the ledger: what the highest number gains is counted, one for the
\* number itself and missing for those it skipped.
LEMMA ReceiveLedger ==
    ASSUME IInv, NEW s \in Streams, NEW n \in Numbers, NEW row, Received(s, n, row)
    PROVE  GapLedger' /\ \A t \in Streams : StreamInv(t)'
<1>1. TypeOK /\ TypeOK' /\ GapLedger /\ \A t \in Streams : StreamInv(t)
  BY ReceiveType DEF IInv
<1>2. /\ row.missing \in Nat /\ row.status \in Statuses /\ n \in Nat
      /\ \A t \in Streams : highest[t] \in Held(Nat) /\ first[t] \in Held(Nat)
                         /\ advances[t] \in Nat /\ reported[t] \in Nat
                         /\ arrivals[t] \in Seq(Numbers)
  BY <1>1, FeedAssumption DEF TypeOK, Received, Meaning, Rows, Held
<1>3. SUFFICES ASSUME NEW t \in Streams
               PROVE  /\ highest'[t] # Absent =>
                            advances'[t] + reported'[t] = highest'[t] - first'[t] + 1
                      /\ StreamInv(t)'
  BY DEF GapLedger
<1>4. CASE t # s
  <2>1. /\ highest'[t] = highest[t] /\ first'[t] = first[t] /\ arrivals'[t] = arrivals[t]
        /\ advances'[t] = advances[t] /\ reported'[t] = reported[t]
    BY <1>1, <1>4 DEF Received, TypeOK
  <2>2. QED
    BY <1>1, <2>1 DEF GapLedger, StreamInv
<1>5. CASE t = s
  <2>1. reported'[s] = reported[s] + row.missing /\ arrivals'[s] = Append(arrivals[s], n)
    BY <1>1 DEF Received, TypeOK
  <2>2. n # Absent /\ Append(arrivals[s], n) # <<>>
    BY <1>2, AbsentAssumption
  <2>3. CASE row.status = "FIRST"
    <3>1. highest'[s] = n /\ first'[s] = n /\ advances'[s] = advances[s] + 1
      BY <1>1, <2>3 DEF Received, TypeOK, Advancing
    <3>2. highest[s] = Absent /\ row.missing = 0
      BY <2>3 DEF Received, Meaning
    <3>3. advances[s] = 0 /\ reported[s] = 0
      BY <1>1, <3>2 DEF StreamInv
    <3>4. advances'[s] + reported'[s] = highest'[s] - first'[s] + 1
      BY <1>2, <2>1, <3>1, <3>2, <3>3
    <3>5. QED
      BY <1>2, <1>5, <2>2, <3>1, <3>4 DEF StreamInv
  <2>4. CASE row.status \in {"IN_ORDER", "GAP"}
    <3>1. highest'[s] = n /\ first'[s] = first[s] /\ advances'[s] = advances[s] + 1
      BY <1>1, <2>4 DEF Received, TypeOK, Advancing
    <3>2. highest[s] # Absent /\ n = highest[s] + 1 + row.missing
      BY <2>4 DEF Received, Meaning
    <3>3. /\ highest[s] \in Nat /\ first[s] \in Nat /\ first[s] <= highest[s]
          /\ first[s] # Absent /\ advances[s] \in Nat /\ reported[s] \in Nat
          /\ advances[s] + reported[s] = highest[s] - first[s] + 1
      BY <1>1, <1>2, <3>2 DEF GapLedger, StreamInv, Held
    <3>4. advances'[s] + reported'[s] = highest'[s] - first'[s] + 1
      <4>1. ASSUME NEW a \in Nat, NEW r \in Nat, NEW h \in Nat, NEW f \in Nat, NEW m \in Nat,
                   a + r = h - f + 1
            PROVE  (a + 1) + (r + m) = (h + 1 + m) - f + 1
        BY <4>1
      <4>2. row.missing \in Nat
        BY <1>2
      <4>3. (advances[s] + 1) + (reported[s] + row.missing)
              = (highest[s] + 1 + row.missing) - first[s] + 1
        BY <3>3, <4>1, <4>2
      <4>4. QED
        BY <2>1, <3>1, <3>2, <4>3
    <3>5. first'[s] # Absent /\ first'[s] <= highest'[s]
      BY <1>2, <3>1, <3>2, <3>3
    <3>6. QED
      BY <1>5, <2>2, <3>1, <3>4, <3>5 DEF StreamInv
  <2>5. CASE row.status \notin Advancing
    <3>1. highest'[s] = highest[s] /\ first'[s] = first[s] /\ advances'[s] = advances[s]
      BY <1>1, <2>5 DEF Received, TypeOK, Advancing
    <3>2. highest[s] # Absent /\ row.missing = 0
      BY <2>5 DEF Received, Meaning
    <3>3. reported'[s] = reported[s]
      BY <1>2, <2>1, <3>2
    <3>4. QED
      BY <1>1, <1>5, <3>1, <3>2, <3>3 DEF GapLedger, StreamInv
  <2>6. QED
    BY <1>2, <2>3, <2>4, <2>5 DEF Statuses, Advancing
<1>6. QED
  BY <1>4, <1>5

\* Receiving keeps the tracker the summary of what arrived.
LEMMA ReceiveTracker ==
    ASSUME IInv, NEW s \in Streams, NEW n \in Numbers, NEW row, Received(s, n, row)
    PROVE  TrackerMatchesArrivals'
<1>1. TypeOK /\ TrackerMatchesArrivals /\ \A t \in Streams : StreamInv(t)
  BY DEF IInv
<1>2. SUFFICES ASSUME NEW t \in Streams
               PROVE  /\ recent'[t] = Latest(arrivals'[t])
                      /\ highest'[t] # Absent => highest'[t] \in Occurring(arrivals'[t])
                      /\ \A m \in Occurring(arrivals'[t]) :
                            highest'[t] # Absent /\ m <= highest'[t]
  BY DEF TrackerMatchesArrivals, Latest, Occurring
<1>3. CASE t # s
  <2>1. /\ highest'[t] = highest[t] /\ recent'[t] = recent[t]
        /\ arrivals'[t] = arrivals[t]
    BY <1>1, <1>3 DEF Received, TypeOK
  <2>2. QED
    BY <1>1, <2>1 DEF TrackerMatchesArrivals
<1>4. CASE t = s
  <2>1. arrivals[s] \in Seq(Numbers) /\ n \in Nat /\ n # Absent
    BY <1>1, FeedAssumption, AbsentAssumption DEF TypeOK
  <2>2. arrivals'[s] = Append(arrivals[s], n) /\ recent'[s] = Slide(recent[s], n)
    BY <1>1 DEF Received, TypeOK
  <2>3. recent'[s] = Latest(arrivals'[s])
    BY <1>1, <2>1, <2>2, SlideLatest DEF TrackerMatchesArrivals
  <2>4. Occurring(arrivals'[s]) = Occurring(arrivals[s]) \cup {n}
    BY <2>1, <2>2, OccurringAppend
  <2>5. CASE row.status = "FIRST"
    <3>1. highest'[s] = n
      BY <1>1, <2>5 DEF Received, TypeOK, Advancing
    <3>2. arrivals[s] = <<>>
      BY <1>1, <2>5 DEF Received, Meaning, StreamInv
    <3>3. Occurring(arrivals'[s]) = {n}
      BY <2>4, <3>2, EmptyWindow
    <3>4. QED
      BY <1>4, <2>1, <2>3, <3>1, <3>3
  <2>6. CASE row.status \in {"IN_ORDER", "GAP"}
    <3>1. highest'[s] = n
      BY <1>1, <2>6 DEF Received, TypeOK, Advancing
    <3>2. highest[s] # Absent /\ n = highest[s] + 1 + row.missing /\ row.missing \in Nat
      BY <2>6 DEF Received, Meaning, Rows
    <3>3. highest[s] \in Nat /\ Occurring(arrivals[s]) \subseteq Nat
      <4>1. highest[s] \in Nat
        BY <1>1, <3>2, FeedAssumption DEF TypeOK, Held
      <4>2. \A i \in 1..Len(arrivals[s]) : arrivals[s][i] \in Numbers
        BY <2>1, ElementOfSeq
      <4>3. QED
        BY <4>1, <4>2, FeedAssumption DEF Occurring
    <3>4. \A m \in Occurring(arrivals[s]) : m <= highest[s]
      BY <1>1 DEF TrackerMatchesArrivals
    <3>5. \A m \in Occurring(arrivals[s]) : m <= n
      BY <3>2, <3>3, <3>4
    <3>6. QED
      BY <1>4, <2>1, <2>3, <2>4, <3>1, <3>5
  <2>7. CASE row.status \notin Advancing
    <3>1. highest'[s] = highest[s]
      BY <2>7 DEF Received
    <3>2. highest[s] # Absent /\ n <= highest[s]
      BY <2>7 DEF Received, Meaning
    <3>3. QED
      BY <1>1, <1>4, <2>3, <2>4, <3>1, <3>2 DEF TrackerMatchesArrivals
  <2>8. row.status \in Statuses
    BY DEF Received, Meaning, Rows
  <2>9. QED
    BY <2>5, <2>6, <2>7, <2>8 DEF Statuses, Advancing
<1>5. QED
  BY <1>3, <1>4

\* IInv is inductive.
LEMMA StepInv == IInv /\ [Next]_vars => IInv'
<1> SUFFICES ASSUME IInv, [Next]_vars PROVE IInv'
  OBVIOUS
<1>1. CASE Start
  BY <1>1, StartStep
<1>2. CASE Persist
  <2>1. TypeOK'
    BY <1>2, AbsentAssumption
    DEF IInv, TypeOK, Persist, Held, Classified, tracker, history
  <2>2. QED
    BY <1>2, <2>1, QuietStep DEF Persist
<1>3. CASE Stop
  <2>1. TypeOK'
    BY <1>3 DEF IInv, TypeOK, Stop, Held, tracker, history
  <2>2. QED
    BY <1>3, <2>1, QuietStep DEF Stop
<1>4. CASE UNCHANGED vars
  <2>1. TypeOK'
    BY <1>4 DEF IInv, TypeOK, vars, tracker, history
  <2>2. QED
    BY <1>4, <2>1, QuietStep DEF vars
<1>5. ASSUME NEW s \in Streams, NEW n \in Numbers, Receive(s, n) PROVE IInv'
  <2>1. Received(s, n, Observation(s, n))
    BY <1>5, Classification DEF Receive, Received
  <2>2. QED
    BY <2>1, ReceiveType, ReceiveLedger, ReceiveTracker DEF IInv
<1>6. QED
  BY <1>1, <1>2, <1>3, <1>4, <1>5 DEF Next, Rest

\* Every reachable state satisfies IInv.
THEOREM InductiveInvariant == Spec => []IInv
BY InitInv, StepInv, PTL DEF Spec

\* Every variable keeps its type.
THEOREM TypeCorrect == Spec => []TypeOK
<1>1. IInv => TypeOK
  BY DEF IInv
<1>2. QED
  BY <1>1, InductiveInvariant, PTL

\* SequenceTracker remembers what it says it does: the highest number and exactly the
\* last Window numbers of what this process received, duplicates included.
THEOREM TrackerAgrees == Spec => []TrackerMatchesArrivals
<1>1. IInv => TrackerMatchesArrivals
  BY DEF IInv
<1>2. QED
  BY <1>1, InductiveInvariant, PTL

\* Losses are counted exactly once, whatever arrives late, twice or out of the window.
THEOREM LossesCountedOnce == Spec => []GapLedger
<1>1. IInv => GapLedger
  BY DEF IInv
<1>2. QED
  BY <1>1, InductiveInvariant, PTL

(***************************************************************************)
(* What the journal can lack after any number of restarts.                 *)
(***************************************************************************)
\* Whether row, of number m, accounts for number n.
Covers(row, m, n) == m = n \/ (row.status = "GAP" /\ row.expected <= n /\ n < m)

\* Whether a row of the journal accounts for number n of stream s.
Stored(s, n) ==
    \E m \in Numbers : journal[<<s, m>>] # Absent /\ Covers(journal[<<s, m>>], m, n)

\* Whether the event in hand is the last of its stream and will account for number n.
InHand(s, n) ==
    /\ up /\ pending # Absent
    /\ pending.event = <<s, arrivals[s][Len(arrivals[s])]>> /\ journal[pending.event] = Absent
    /\ Covers(pending.row, arrivals[s][Len(arrivals[s])], n)

\* Whether number n was revealed by an event that an earlier process had journaled.
Hidden(s, n) ==
    \E i \in 1..Len(arrivals[s]) :
        Reveals(s, i, n) /\ <<s, arrivals[s][i]>> \in inherited

\* Whether number n was revealed by the event that is in hand or was when the process ended.
AtTheEnd(s, n) ==
    /\ arrivals[s] # <<>> /\ Reveals(s, Len(arrivals[s]), n)
    /\ ~up \/ InHand(s, n)

\* Only what arrived or was inherited is journaled, only what arrived is pending, only a
\* running monitor has a pending event, and every number is explained.
JournalInv ==
    /\ ~up => pending = Absent
    /\ \A s \in Streams, m \in Numbers :
          journal[<<s, m>>] # Absent =>
              m \in Occurring(arrivals[s]) \/ <<s, m>> \in inherited
    /\ \A s \in Streams, m \in Numbers :
          pending # Absent /\ pending.event = <<s, m>> => m \in Occurring(arrivals[s])
    /\ \A s \in Streams : highest[s] # Absent =>
          \A n \in first[s]..highest[s] : Stored(s, n) \/ Hidden(s, n) \/ AtTheEnd(s, n)

\* Nothing is pending, journaled or running at first.
LEMMA JournalInit == Init => JournalInv
BY DEF Init, JournalInv, Events

\* A new process inherits what is journaled and has gone over no number.
LEMMA JournalStart ==
    ASSUME IInv, JournalInv, Start PROVE JournalInv'
<1>1. /\ pending' = Absent /\ journal' = journal
      /\ inherited' = {e \in Events : journal[e] # Absent}
      /\ \A s \in Streams : highest'[s] = Absent
  BY DEF Start, JournalInv
<1>2. \A s \in Streams, m \in Numbers : journal'[<<s, m>>] # Absent => <<s, m>> \in inherited'
  BY <1>1 DEF Events
<1>3. QED
  BY <1>1, <1>2 DEF JournalInv

\* Persisting turns the pending row into the journal's, or leaves the one that is there.
LEMMA JournalPersist ==
    ASSUME IInv, JournalInv, Persist PROVE JournalInv'
<1>1. TypeOK /\ pending \in Classified /\ pending # Absent /\ pending' = Absent
      /\ pending.row # Absent
  BY AbsentAssumption DEF IInv, TypeOK, Held, Persist, Classified
<1>2. \A s \in Streams, m \in Numbers :
         journal'[<<s, m>>] = IF pending.event = <<s, m>> /\ journal[<<s, m>>] = Absent
                              THEN pending.row ELSE journal[<<s, m>>]
  BY <1>1 DEF Persist, TypeOK, Events
<1>3. UNCHANGED <<up, highest, first, arrivals, inherited>> /\ up
  BY <1>1 DEF Persist, tracker, history, JournalInv
<1>4. \A s \in Streams, m \in Numbers :
         journal'[<<s, m>>] # Absent =>
             m \in Occurring(arrivals'[s]) \/ <<s, m>> \in inherited'
  BY <1>1, <1>2, <1>3 DEF JournalInv
<1>5. SUFFICES ASSUME NEW s \in Streams, highest[s] # Absent, NEW n \in first[s]..highest[s]
               PROVE  Stored(s, n)' \/ Hidden(s, n)'
  BY <1>1, <1>3, <1>4 DEF JournalInv
<1>6. CASE Stored(s, n)
  BY <1>1, <1>2, <1>6 DEF Stored
<1>7. CASE Hidden(s, n)
  BY <1>3, <1>7 DEF Hidden, Reveals
<1>8. CASE AtTheEnd(s, n)
  <2> DEFINE m == arrivals[s][Len(arrivals[s])]
  <2>1. InHand(s, n)
    BY <1>3, <1>8 DEF AtTheEnd
  <2>2. m \in Numbers
    BY <1>1, <1>8 DEF AtTheEnd, TypeOK
  <2>3. pending.event = <<s, m>> /\ journal[<<s, m>>] = Absent /\ Covers(pending.row, m, n)
    BY <2>1 DEF InHand
  <2> HIDE DEF m
  <2>4. journal'[<<s, m>>] = pending.row
    BY <1>2, <2>2, <2>3
  <2>5. QED
    BY <1>1, <2>2, <2>3, <2>4 DEF Stored
<1>9. QED
  BY <1>5, <1>6, <1>7, <1>8 DEF JournalInv

\* A process that ends leaves the event in hand, the last of its stream, unpersisted.
LEMMA JournalStop ==
    ASSUME IInv, JournalInv, Stop PROVE JournalInv'
<1>1. /\ pending' = Absent /\ ~up'
      /\ UNCHANGED <<highest, first, arrivals, inherited, journal>>
  BY DEF Stop, tracker, history
<1>2. ASSUME NEW s \in Streams, NEW n
      PROVE  /\ Stored(s, n) => Stored(s, n)'
             /\ Hidden(s, n) => Hidden(s, n)'
             /\ AtTheEnd(s, n) => AtTheEnd(s, n)'
  BY <1>1 DEF Stored, Hidden, AtTheEnd, Reveals
<1>3. \A s \in Streams : highest'[s] # Absent =>
         \A n \in first'[s]..highest'[s] : Stored(s, n)' \/ Hidden(s, n)' \/ AtTheEnd(s, n)'
  BY <1>1, <1>2 DEF JournalInv
<1>4. \A s \in Streams, m \in Numbers :
         journal'[<<s, m>>] # Absent =>
             m \in Occurring(arrivals'[s]) \/ <<s, m>> \in inherited'
  BY <1>1 DEF JournalInv
<1>5. QED
  BY <1>1, <1>3, <1>4 DEF JournalInv

\* What arrives later does not change which arrival revealed a number.
LEMMA RevealsKept ==
    ASSUME TypeOK, NEW s \in Streams, NEW n \in Numbers,
           arrivals'[s] = Append(arrivals[s], n), inherited' = inherited,
           NEW k, Hidden(s, k)
    PROVE  Hidden(s, k)'
<1> DEFINE all == arrivals[s]
<1>1. /\ all \in Seq(Numbers) /\ Len(all) \in Nat /\ Len(Append(all, n)) = Len(all) + 1
      /\ \A i \in 1..Len(all) : Append(all, n)[i] = all[i]
  BY DEF TypeOK
<1>2. PICK i \in 1..Len(all) : Reveals(s, i, k) /\ <<s, all[i]>> \in inherited
  BY DEF Hidden
<1>3. i \in 1..Len(Append(all, n)) /\ Append(all, n)[i] = all[i]
  BY <1>1
<1>4. \A j \in 1..(i - 1) : Append(all, n)[j] = all[j]
  BY <1>1
<1>5. Reveals(s, i, k)'
  BY <1>2, <1>3, <1>4 DEF Reveals
<1>6. QED
  BY <1>2, <1>3, <1>5 DEF Hidden

\* Receiving: the numbers the highest one moves over are those the new row accounts for,
\* and it is the new event that reveals them.
LEMMA JournalReceive ==
    ASSUME IInv, JournalInv, up, pending = Absent,
           NEW s \in Streams, NEW n \in Numbers, NEW row, Received(s, n, row)
    PROVE  JournalInv'
<1> DEFINE all == arrivals[s]
<1>1. /\ TypeOK /\ TypeOK' /\ row \in Rows /\ row # Absent /\ up'
      /\ UNCHANGED <<up, journal, inherited>>
      /\ pending' = [event |-> <<s, n>>, row |-> row] /\ pending' # Absent
  <2>1. TypeOK /\ TypeOK' /\ row \in Rows
    BY ReceiveType DEF IInv, Received, Meaning
  <2>2. [event |-> <<s, n>>, row |-> row] \in Classified
    BY <2>1 DEF Classified, Events
  <2>3. QED
    BY <2>1, <2>2, AbsentAssumption DEF Received
<1>2. /\ arrivals'[s] = Append(all, n) /\ all \in Seq(Numbers) /\ Len(all) \in Nat
      /\ \A t \in Streams : t # s => arrivals'[t] = arrivals[t]
      /\ Occurring(arrivals'[s]) = Occurring(all) \cup {n}
  BY <1>1, OccurringAppend DEF Received, TypeOK
<1>3. /\ Len(arrivals'[s]) = Len(all) + 1 /\ arrivals'[s] # <<>>
      /\ arrivals'[s][Len(all) + 1] = n
      /\ \A j \in 1..Len(all) : arrivals'[s][j] = all[j] /\ all[j] \in Occurring(all)
  BY <1>2 DEF Occurring
<1>4. ASSUME NEW t \in Streams, NEW k, Stored(t, k) \/ Hidden(t, k)
      PROVE  Stored(t, k)' \/ Hidden(t, k)'
  <2>1. CASE Stored(t, k)
    BY <1>1, <2>1 DEF Stored
  <2>2. CASE Hidden(t, k) /\ t = s
    BY <1>1, <1>2, <2>2, RevealsKept
  <2>3. CASE Hidden(t, k) /\ t # s
    BY <1>1, <1>2, <2>3 DEF Hidden, Reveals
  <2>4. QED
    BY <1>4, <2>1, <2>2, <2>3
<1>5. ASSUME NEW t \in Streams, highest[t] # Absent, NEW k \in first[t]..highest[t]
      PROVE  Stored(t, k)' \/ Hidden(t, k)'
  <2>1. ~AtTheEnd(t, k)
    BY DEF AtTheEnd, InHand
  <2>2. QED
    BY <1>4, <1>5, <2>1 DEF JournalInv
<1>6. ASSUME n \notin Occurring(all), \A m \in Occurring(all) : m < n,
             NEW k \in Nat, k <= n, Covers(row, n, k), \A m \in Occurring(all) : m < k
      PROVE  Hidden(s, k)' \/ AtTheEnd(s, k)'
  <2>1. Reveals(s, Len(arrivals[s]), k)'
    <3>1. Len(arrivals'[s]) - 1 = Len(all) /\ k <= arrivals'[s][Len(arrivals'[s])]
      BY <1>2, <1>3, <1>6
    <3>2. \A j \in 1..Len(all) : arrivals'[s][j] < k
      BY <1>3, <1>6
    <3>3. QED
      BY <3>1, <3>2 DEF Reveals
  <2>2. CASE <<s, n>> \in inherited
    BY <1>1, <1>2, <1>3, <2>1, <2>2 DEF Hidden
  <2>3. CASE <<s, n>> \notin inherited
    <3>1. journal'[<<s, n>>] = Absent
      BY <1>1, <1>6, <2>3 DEF JournalInv
    <3>2. InHand(s, k)'
      BY <1>1, <1>3, <1>6, <3>1 DEF InHand
    <3>3. QED
      BY <1>3, <2>1, <3>2 DEF AtTheEnd
  <2>4. QED
    BY <2>2, <2>3
<1>7. ASSUME NEW t \in Streams, highest'[t] # Absent, NEW k \in first'[t]..highest'[t]
      PROVE  Stored(t, k)' \/ Hidden(t, k)' \/ AtTheEnd(t, k)'
  <2>1. CASE highest'[t] = highest[t] /\ first'[t] = first[t]
    BY <1>5, <1>7, <2>1
  <2>2. CASE t = s /\ row.status = "FIRST"
    <3>1. highest'[s] = n /\ first'[s] = n /\ n \in Nat /\ highest[s] = Absent
      BY <1>1, <2>2, FeedAssumption DEF Received, Meaning, TypeOK, Advancing
    <3>2. k = n /\ Occurring(all) = {}
      BY <1>7, <2>2, <3>1 DEF IInv, TrackerMatchesArrivals
    <3>3. QED
      BY <1>6, <2>2, <3>1, <3>2 DEF Covers
  <2>3. CASE t = s /\ row.status \in {"IN_ORDER", "GAP"}
    <3>1. highest'[s] = n /\ first'[s] = first[s]
      BY <1>1, <2>3 DEF Received, TypeOK, Advancing
    <3>2. /\ highest[s] # Absent /\ n = highest[s] + 1 + row.missing
          /\ row.status = "IN_ORDER" => row.missing = 0
          /\ row.status = "GAP" => row.expected = highest[s] + 1
      BY <2>3 DEF Received, Meaning
    <3>3. highest[s] \in Nat /\ first[s] \in Nat /\ row.missing \in Nat /\ n \in Nat
      BY <1>1, <3>2, FeedAssumption DEF IInv, StreamInv, TypeOK, Held, Rows
    <3>4. k \in first[s]..n /\ k \in Nat
      BY <1>7, <2>3, <3>1, <3>3
    <3>5. CASE k <= highest[s]
      <4>1. k \in first[s]..highest[s]
        BY <3>3, <3>4, <3>5
      <4>2. QED
        BY <1>5, <2>3, <3>2, <4>1
    <3>6. CASE k > highest[s]
      <4>1. Occurring(all) \subseteq Nat /\ \A m \in Occurring(all) : m <= highest[s]
        <5>1. \A i \in 1..Len(all) : all[i] \in Numbers
          BY <1>2, ElementOfSeq
        <5>2. Occurring(all) \subseteq Nat
          BY <5>1, FeedAssumption DEF Occurring
        <5>3. QED
          BY <5>2 DEF IInv, TrackerMatchesArrivals
      <4>2. \A m \in Occurring(all) : m < k /\ m < n
        BY <3>2, <3>3, <3>4, <3>6, <4>1
      <4>3. n \notin Occurring(all)
        BY <3>3, <4>2
      <4>4. Covers(row, n, k)
        BY <2>3, <3>2, <3>3, <3>4, <3>6 DEF Covers
      <4>5. QED
        BY <1>6, <2>3, <3>3, <3>4, <4>2, <4>3, <4>4
    <3>7. QED
      BY <3>3, <3>4, <3>5, <3>6
  <2>4. QED
    BY <1>1, <2>1, <2>2, <2>3 DEF Received, TypeOK, Advancing
<1>8. \A t \in Streams, m \in Numbers :
         journal'[<<t, m>>] # Absent => m \in Occurring(arrivals'[t]) \/ <<t, m>> \in inherited'
  BY <1>1, <1>2 DEF JournalInv
<1>9. \A t \in Streams, m \in Numbers :
         pending'.event = <<t, m>> => m \in Occurring(arrivals'[t])
  BY <1>1, <1>2
<1>10. QED
  BY <1>1, <1>7, <1>8, <1>9 DEF JournalInv

\* Whatever restarts a feed goes through, a number that a process went over is in the event
\* journal or counted as missing by a row that is, unless the event that revealed it had been
\* journaled by an earlier process or was in hand when its own process ended.
THEOREM LossesHiddenByRestartsOnly == Spec => []OnlyRestartsHideLosses
<1>1. IInv /\ JournalInv /\ [Next]_vars => JournalInv'
  <2> SUFFICES ASSUME IInv, JournalInv, [Next]_vars PROVE JournalInv'
    OBVIOUS
  <2>1. CASE Start
    BY <2>1, JournalStart
  <2>2. CASE Persist
    BY <2>2, JournalPersist
  <2>3. CASE Stop
    BY <2>3, JournalStop
  <2>4. CASE UNCHANGED vars
    BY <2>4 DEF vars, tracker, history, JournalInv, Stored, Hidden, AtTheEnd, InHand, Reveals
  <2>5. ASSUME NEW s \in Streams, NEW n \in Numbers, Receive(s, n) PROVE JournalInv'
    <3>1. Received(s, n, Observation(s, n)) /\ up /\ pending = Absent
      BY <2>5, Classification DEF Receive, Received
    <3>2. QED
      BY <3>1, JournalReceive
  <2>6. QED
    BY <2>1, <2>2, <2>3, <2>4, <2>5 DEF Next, Rest
<1>2. IInv /\ JournalInv => OnlyRestartsHideLosses
  <2> SUFFICES ASSUME IInv, JournalInv, NEW s \in Streams, highest[s] # Absent,
                      NEW n \in first[s]..highest[s],
                      ~Accounted(s, n)
               PROVE  \E i \in 1..Len(arrivals[s]) :
                         /\ Reveals(s, i, n)
                         /\ \/ <<s, arrivals[s][i]>> \in inherited
                            \/ ~up /\ i = Len(arrivals[s])
    BY DEF OnlyRestartsHideLosses
  <2>1. ~Stored(s, n)
    BY DEF Stored, Accounted, Covers
  <2>2. arrivals[s] \in Seq(Numbers) /\ TypeOK
    BY DEF IInv, TypeOK
  <2>3. CASE Hidden(s, n)
    BY <2>3 DEF Hidden
  <2>4. CASE AtTheEnd(s, n)
    <3> DEFINE last == Len(arrivals[s])
    <3>1. last \in 1..Len(arrivals[s]) /\ arrivals[s][last] \in Numbers
      BY <2>2, <2>4 DEF AtTheEnd
    <3>2. ~InHand(s, n)
      <4>1. SUFFICES ASSUME InHand(s, n) PROVE Accounted(s, n)
        OBVIOUS
      <4>2. pending \in Classified /\ pending.row # Absent
        BY <2>2, <4>1, AbsentAssumption DEF InHand, TypeOK, Held, Classified
      <4>3. QED
        BY <3>1, <4>1, <4>2 DEF InHand, Accounted, Covers
    <3>3. QED
      BY <2>4, <3>1, <3>2 DEF AtTheEnd
  <2>5. QED
    BY <2>1, <2>3, <2>4 DEF JournalInv
<1>3. QED
  BY JournalInit, InductiveInvariant, <1>1, <1>2, PTL DEF Spec
=============================================================================
