----------------------- MODULE AnomalyPipelineProofs -----------------------
(***************************************************************************)
(* Proofs about AnomalyPipeline, for all symbols, prices, thresholds,      *)
(* limits and numbers of processes that end: the journal explains itself,  *)
(* the panel shows it in order, in time, and counts what is recent.        *)
(***************************************************************************)
EXTENDS AnomalyPipeline, TLAPS, SequenceTheorems, FiniteSetTheorems, WellFoundedInduction

(***************************************************************************)
(* The inductive invariant: the scorer and its rows.                       *)
(***************************************************************************)
InHand == scorer \in {"scored", "journaled"}

\* How many rows the running scorer has in the journal, and how many are older.
Own == IF scorer = "scored" THEN sequence - 1 ELSE sequence
Before == Len(journal) - Own

\* Its rows are the last ones, numbered from zero.
ScorerInv ==
    /\ scorer = "down" => /\ sequence = 0 /\ Len(queue["raw"]) = 0
                          /\ \A s \in Symbols : prices[s] = None
    /\ previousSequence = IF sequence = 0 THEN None ELSE sequence - 1
    /\ InHand => sequence # 0 /\ annotated.sequence = sequence - 1
    /\ Own <= Len(journal)
    /\ \A k \in (Before + 1)..Len(journal) : journal[k].sequence = k - Before - 1
    /\ scorer = "journaled" => Len(journal) # 0 /\ annotated = journal[Len(journal)]

\* What earlier scorers wrote is older than whatever this one gets: two rows never have the
\* same identifier.
AgeInv ==
    /\ \A k \in DOMAIN journal : journal[k].at <= now
    /\ InHand => annotated.at <= now
    /\ \A i \in DOMAIN queue["raw"] : queue["raw"][i] # Invalid => queue["raw"][i].at <= now
    /\ \A k \in 1..Before :
          /\ scorer # "down" \/ ~ended => journal[k].at < now
          /\ InHand => journal[k].at < annotated.at
          /\ \A i \in DOMAIN queue["raw"] :
                queue["raw"][i] # Invalid => journal[k].at < queue["raw"][i].at

(***************************************************************************)
(* The journal.                                                            *)
(***************************************************************************)
\* Where the rows of the scorer of row k begin.
Start(rows, k) == k - rows[k].sequence

\* Of the rows from the first to the last of these, the last one of the symbol has the price.
LastPrice(rows, first, last, symbol, price) ==
    LET same == {j \in first..last : rows[j].symbol = symbol}
    IN  IF same = {} THEN price = None
        ELSE \E j \in same : price = rows[j].price /\ \A i \in same : i <= j

Judged(row) ==
    /\ row.anomaly = (row.previous # None /\ Exceeds(row.previous, row.price))
    /\ row.status = IF row.sequence = 0 THEN "FIRST" ELSE "IN_ORDER"

Explained(rows, k) ==
    /\ rows[k].sequence < k
    /\ \A j \in Start(rows, k)..k : rows[j].sequence = j - Start(rows, k)
    /\ LastPrice(rows, Start(rows, k), k - 1, rows[k].symbol, rows[k].previous)
    /\ Judged(rows[k])

\* The scorer remembers the last price of each symbol, of the rows it wrote and the one in hand.
PriceInv ==
    IF scorer = "scored"
    THEN /\ Judged(annotated) /\ prices[annotated.symbol] = annotated.price
         /\ LastPrice(journal, Before + 1, Len(journal), annotated.symbol, annotated.previous)
         /\ \A s \in Symbols \ {annotated.symbol} :
               LastPrice(journal, Before + 1, Len(journal), s, prices[s])
    ELSE \A s \in Symbols : LastPrice(journal, Before + 1, Len(journal), s, prices[s])

ExplainInv == \A k \in DOMAIN journal : Explained(journal, k)

(***************************************************************************)
(* The feed.                                                               *)
(***************************************************************************)
Recorded(row) == \E k \in DOMAIN journal : journal[k] = row

\* Rows that were shown, that wait to be shown, and that are in hand follow one another in the
\* journal.
FeedInv ==
    /\ \A k, l \in DOMAIN journal : EventId(journal[k]) = EventId(journal[l]) => k = l
    /\ \A i \in DOMAIN shown : Recorded(shown[i])
    /\ \A i \in DOMAIN queue["scored"] :
          queue["scored"][i] # Invalid => Recorded(queue["scored"][i].row)
    /\ \A i, j \in DOMAIN shown : i < j => Position(shown[i]) < Position(shown[j])
    /\ \A i, j \in DOMAIN queue["scored"] :
          i < j /\ queue["scored"][i] # Invalid /\ queue["scored"][j] # Invalid =>
             Position(queue["scored"][i].row) < Position(queue["scored"][j].row)
    /\ \A i \in DOMAIN shown, j \in DOMAIN queue["scored"] :
          queue["scored"][j] # Invalid => Position(shown[i]) < Position(queue["scored"][j].row)
    /\ scorer = "journaled" =>
          /\ \A i \in DOMAIN shown : Position(shown[i]) < Len(journal)
          /\ \A i \in DOMAIN queue["scored"] :
                queue["scored"][i] # Invalid => Position(queue["scored"][i].row) < Len(journal)

(***************************************************************************)
(* The panel.                                                              *)
(***************************************************************************)
\* Polls that it takes to drain a full topic, and the one under way.
Rounds == (Capacity + MaxMessages - 1) \div MaxMessages + 1

\* A message at this place of the topic has seen k snapshots that followed a full poll.
Seen(place, sent, k) ==
    /\ k # 0 => (k - 1) * MaxMessages + polled <= Capacity - place
    /\ refreshed <= sent + Refresh * (k + failures)

FreshInv ==
    /\ dashboard = "down" => queue["scored"] = <<>>
    /\ refreshed <= now /\ (dashboard = "up" => now <= refreshed + Refresh)
    /\ \A i \in DOMAIN queue["scored"] :
          queue["scored"][i] # Invalid => \E k \in Nat : Seen(i, queue["scored"][i].sent, k)
    /\ tracker.ticks # 0 =>
          /\ tracker.latest \in Shipments /\ tracker.lastAt \in Nat
          /\ tracker.lastAt <= tracker.latest.sent + Refresh * (Rounds + failures)

\* The tracker has the last anomalies; those it dropped are too old.
Dropped == Len(anomalous) - Len(tracker.anomalies)

AnomalyInv ==
    /\ dashboard = "down" => Len(anomalous) = 0
    /\ Len(tracker.anomalies) <= Len(anomalous)
    /\ \A j \in DOMAIN tracker.anomalies : tracker.anomalies[j] = anomalous[j + Dropped]
    /\ \A i \in 1..Dropped : anomalous[i] < now - Window
    /\ \A i \in DOMAIN anomalous : anomalous[i] <= now
    /\ \A i, j \in DOMAIN anomalous : i < j => anomalous[i] <= anomalous[j]

IInv == /\ TypeOK /\ ScorerInv /\ AgeInv /\ ExplainInv /\ PriceInv
        /\ FeedInv /\ FreshInv /\ AnomalyInv

\* The constants, one by one.
LEMMA Limits ==
    /\ StaleAfter \in Nat \ {0} /\ Window \in Nat \ {0} /\ Refresh \in Nat \ {0}
    /\ MaxMessages \in Nat \ {0} /\ Capacity \in Nat \ {0} /\ None \notin Nat
BY PipelineAssumption

(***************************************************************************)
(* What the steps do to a topic.                                           *)
(***************************************************************************)
Messages(topic) == IF topic = "raw" THEN Ticks \cup {Invalid} ELSE Shipments \cup {Invalid}

\* One message more at the end, the same or fewer, and one fewer at the front.
Grown(s, t, m) == /\ Len(t) = Len(s) + 1 /\ t[Len(t)] = m
                  /\ \A i \in 1..Len(s) : t[i] = s[i]
Cut(s, t) == Len(t) <= Len(s) /\ \A i \in 1..Len(t) : t[i] = s[i]
Advanced(s, t) == Len(t) = Len(s) - 1 /\ \A i \in 1..Len(t) : t[i] = s[i + 1]

\* Numbers and the panel, in the form the steps need.
LEMMA Facts ==
    ASSUME TypeOK
    PROVE  /\ now \in Nat /\ polled \in 0..MaxMessages /\ refreshed \in Nat /\ failures \in Nat
           /\ sequence \in Nat /\ publisher.published \in Nat
           /\ tracker \in Trackers /\ tracker.anomalies \in Seq(Nat) /\ anomalous \in Seq(Nat)
           /\ journal \in Seq(Rows) /\ shown \in Seq(Rows)
BY DEF TypeOK, Trackers

\* A topic in the form the steps need.
LEMMA QueueFacts ==
    ASSUME TypeOK, NEW topic \in Topics
    PROVE  /\ queue[topic] \in Seq(Messages(topic)) /\ Len(queue[topic]) \in 0..Capacity
           /\ DOMAIN queue[topic] = 1..Len(queue[topic])
           /\ \A i \in 1..Len(queue[topic]) : queue[topic][i] \in Messages(topic)
<1>1. queue[topic] \in Seq(Messages(topic)) /\ Len(queue[topic]) <= Capacity
  BY DEF TypeOK, QueuesOK, Messages, Topics
<1>2. QED
  BY <1>1, PipelineAssumption

\* A topic gets a new content of its own messages.
LEMMA Replaced ==
    ASSUME TypeOK, NEW topic \in Topics, NEW s \in Seq(Messages(topic)), Len(s) <= Capacity,
           queue' = [queue EXCEPT ![topic] = s]
    PROVE  /\ QueuesOK' /\ queue'[topic] = s
           /\ \A other \in Topics \ {topic} : queue'[other] = queue[other]
<1>1. queue \in [Topics -> Seq(Ticks \cup Shipments \cup {Invalid})]
  BY DEF TypeOK, QueuesOK
<1>2. s \in Seq(Ticks \cup Shipments \cup {Invalid})
  <2>1. Messages(topic) \subseteq Ticks \cup Shipments \cup {Invalid}
    BY DEF Messages
  <2>2. QED
    BY <2>1, SeqMonotonic
<1>3. /\ queue' \in [Topics -> Seq(Ticks \cup Shipments \cup {Invalid})] /\ queue'[topic] = s
      /\ \A other \in Topics \ {topic} : queue'[other] = queue[other]
  BY <1>1, <1>2
<1>4. \A other \in Topics : queue'[other] \in Seq(Messages(other)) /\ Len(queue'[other]) <= Capacity
  <2>1. ASSUME NEW other \in Topics, other # topic
        PROVE  queue'[other] \in Seq(Messages(other)) /\ Len(queue'[other]) <= Capacity
    BY <1>3, <2>1, QueueFacts
  <2>2. QED
    BY <1>3, <2>1
<1>5. QED
  BY <1>3, <1>4 DEF QueuesOK, Messages, Topics

\* A message is lost or arrives at the end.
LEMMA Delivered ==
    ASSUME TypeOK, NEW topic \in Topics, NEW m \in Messages(topic), Deliver(topic, m)
    PROVE  /\ QueuesOK' /\ \A other \in Topics \ {topic} : queue'[other] = queue[other]
           /\ \/ queue'[topic] = queue[topic]
              \/ Subscribed(topic) /\ Grown(queue[topic], queue'[topic], m)
<1>1. CASE UNCHANGED queue
  BY <1>1 DEF TypeOK, QueuesOK
<1>2. CASE /\ Subscribed(topic) /\ Len(queue[topic]) < Capacity
           /\ queue' = [queue EXCEPT ![topic] = Append(@, m)]
  <2> DEFINE s == queue[topic]
             t == Append(s, m)
  <2>1. s \in Seq(Messages(topic)) /\ Len(s) \in 0..Capacity
    BY QueueFacts
  <2>2. t \in Seq(Messages(topic)) /\ Grown(s, t, m)
    BY <2>1, AppendProperties DEF Grown
  <2>3. Len(t) <= Capacity
    BY <1>2, <2>1, <2>2, PipelineAssumption DEF Grown
  <2>4. queue' = [queue EXCEPT ![topic] = t]
    BY <1>2
  <2> HIDE DEF t
  <2>5. QED
    BY <1>2, <2>2, <2>3, <2>4, Replaced
<1>3. QED
  BY <1>1, <1>2 DEF Deliver

\* The message at the front is read.
LEMMA Taken ==
    ASSUME TypeOK, NEW topic \in Topics, queue[topic] # <<>>, Take(topic)
    PROVE  /\ QueuesOK' /\ \A other \in Topics \ {topic} : queue'[other] = queue[other]
           /\ Len(queue[topic]) # 0 /\ Head(queue[topic]) = queue[topic][1]
           /\ queue[topic][1] \in Messages(topic)
           /\ Advanced(queue[topic], queue'[topic])
<1> DEFINE s == queue[topic]
           t == Tail(s)
<1>1. s \in Seq(Messages(topic)) /\ Len(s) \in 0..Capacity
  BY QueueFacts
<1>2. t \in Seq(Messages(topic)) /\ Advanced(s, t)
  BY <1>1, HeadTailProperties DEF Advanced
<1>3. Len(s) # 0 /\ Head(s) = s[1] /\ s[1] \in Messages(topic)
  BY <1>1
<1>4. queue' = [queue EXCEPT ![topic] = t]
  BY DEF Take
<1>5. Len(t) <= Capacity
  BY <1>1, <1>2, PipelineAssumption DEF Advanced
<1> HIDE DEF t
<1>6. QED
  BY <1>2, <1>3, <1>4, <1>5, Replaced

\* The messages sent last are lost.
LEMMA CutShort ==
    ASSUME NEW S, NEW s \in Seq(S), NEW n \in 0..Len(s)
    PROVE  SubSeq(s, 1, n) \in Seq(S) /\ Cut(s, SubSeq(s, 1, n))
<1>1. Len(s) \in Nat /\ \A i \in 1..n : s[i] \in S
  OBVIOUS
<1>2. /\ SubSeq(s, 1, n) \in Seq(S) /\ Len(SubSeq(s, 1, n)) = IF 1 <= n THEN n - 1 + 1 ELSE 0
      /\ \A i \in 1..(n - 1 + 1) : SubSeq(s, 1, n)[i] = s[1 + i - 1]
  BY <1>1, SubSeqProperties
<1>3. QED
  BY <1>1, <1>2 DEF Cut

LEMMA HungUp ==
    ASSUME TypeOK, NEW topic \in Topics, HangUp(topic)
    PROVE  /\ QueuesOK' /\ \A other \in Topics \ {topic} : queue'[other] = queue[other]
           /\ Cut(queue[topic], queue'[topic])
<1>1. PICK n \in 0..Len(queue[topic]) : queue' = [queue EXCEPT ![topic] = SubSeq(@, 1, n)]
  BY DEF HangUp
<1> DEFINE s == queue[topic]
           t == SubSeq(s, 1, n)
<1>2. s \in Seq(Messages(topic)) /\ Len(s) \in 0..Capacity
  BY QueueFacts
<1>3. t \in Seq(Messages(topic)) /\ Cut(s, t)
  BY <1>2, CutShort
<1>4. Len(t) <= Capacity
  BY <1>2, <1>3, PipelineAssumption DEF Cut
<1>5. queue' = [queue EXCEPT ![topic] = t]
  BY <1>1
<1> HIDE DEF t
<1>6. QED
  BY <1>3, <1>4, <1>5, Replaced

\* A scorer that ends leaves nothing of the raw topic, and of the scored one what was sent.
LEMMA Emptied ==
    ASSUME TypeOK, ScorerEnds
    PROVE  QueuesOK' /\ queue'["raw"] = <<>> /\ Cut(queue["scored"], queue'["scored"])
<1>1. PICK n \in 0..Len(queue["scored"]) :
         queue' = [raw |-> <<>>, scored |-> SubSeq(queue["scored"], 1, n)]
  BY DEF ScorerEnds
<1> DEFINE s == queue["scored"]
           t == SubSeq(s, 1, n)
<1>2. s \in Seq(Messages("scored")) /\ Len(s) \in 0..Capacity
  BY QueueFacts DEF Topics
<1>3. t \in Seq(Messages("scored")) /\ Cut(s, t)
  BY <1>2, CutShort
<1>4. Len(t) <= Capacity
  BY <1>2, <1>3, PipelineAssumption DEF Cut
<1>5. queue' = [raw |-> <<>>, scored |-> t]
  BY <1>1
<1> HIDE DEF t
<1>6. /\ DOMAIN queue' = Topics /\ queue'["raw"] = <<>> /\ queue'["scored"] = t
      /\ queue' = [topic \in Topics |-> queue'[topic]]
  BY <1>5 DEF Topics
<1>7. t \in Seq(Ticks \cup Shipments \cup {Invalid}) /\ t \in Seq(Shipments \cup {Invalid})
  BY <1>3, SeqMonotonic DEF Messages
<1>8. <<>> \in Seq(Ticks \cup Shipments \cup {Invalid}) /\ <<>> \in Seq(Ticks \cup {Invalid})
      /\ Len(<<>>) <= Capacity
  BY PipelineAssumption
<1>9. \A topic \in Topics : /\ queue'[topic] \in Seq(Ticks \cup Shipments \cup {Invalid})
                            /\ Len(queue'[topic]) <= Capacity
  BY <1>4, <1>6, <1>7, <1>8 DEF Topics
<1>10. queue' \in [Topics -> Seq(Ticks \cup Shipments \cup {Invalid})]
  BY <1>6, <1>9
<1>11. QED
  BY <1>3, <1>6, <1>7, <1>8, <1>9, <1>10 DEF QueuesOK

(***************************************************************************)
(* Types.                                                                  *)
(***************************************************************************)
LEMMA TypeInit == Init => TypeOK
<1> SUFFICES ASSUME Init PROVE TypeOK
  OBVIOUS
<1>1. queue = [topic \in Topics |-> <<>>]
  BY DEF Init
<1>2. QueuesOK
  <2>1. /\ \A S : <<>> \in Seq(S)
        /\ Len(<<>>) = 0
    OBVIOUS
  <2>2. QED
    BY <1>1, <2>1, PipelineAssumption DEF QueuesOK, Topics
<1>3. tracker \in Trackers
  BY DEF Init, NewTracker, Trackers
<1>4. polled \in 0..MaxMessages
  BY Limits DEF Init
<1>5. publisher \in [up : BOOLEAN, symbol : Symbols \cup {None}, published : Nat] /\ ~publisher.up
  BY DEF Init, NoPublisher
<1>6. journal \in Seq(Rows) /\ shown \in Seq(Rows) /\ anomalous \in Seq(Nat)
  BY DEF Init
<1>7. QED
  BY <1>2, <1>3, <1>4, <1>5, <1>6 DEF Init, TypeOK

\* A row made of a tick.
LEMMA ScoredRow ==
    ASSUME TypeOK, NEW tick \in Ticks
    PROVE  /\ ScoreTick(tick, prices[tick.symbol]) \in Rows
           /\ ScoreTick(tick, prices[tick.symbol]) =
                 [symbol |-> tick.symbol, at |-> tick.at, price |-> tick.price,
                  previous |-> prices[tick.symbol],
                  anomaly |-> prices[tick.symbol] # None
                              /\ Exceeds(prices[tick.symbol], tick.price),
                  sequence |-> sequence, status |-> SequenceStatus(sequence, previousSequence)]
           /\ tick.symbol \in Symbols /\ tick.at \in Nat /\ tick.price \in Nat
<1>1. tick.symbol \in Symbols /\ tick.at \in Nat /\ tick.price \in Nat
  BY DEF Ticks
<1>2. prices[tick.symbol] \in Nat \cup {None} /\ sequence \in Nat
  BY <1>1 DEF TypeOK
<1>3. (prices[tick.symbol] # None /\ Exceeds(prices[tick.symbol], tick.price)) \in BOOLEAN
  BY DEF Exceeds
<1>4. SequenceStatus(sequence, previousSequence)
         \in {"FIRST", "IN_ORDER", "GAP", "DUPLICATE", "REORDERED"}
  BY DEF SequenceStatus
<1> HIDE DEF SequenceStatus
<1>5. QED
  BY <1>1, <1>2, <1>3, <1>4 DEF ScoreTick, Rows

\* The front of the anomaly times is dropped.
LEMMA LeastOf ==
    ASSUME NEW T, T \subseteq Nat, T # {}
    PROVE  \E x \in T : \A y \in T : x <= y
<1> DEFINE R == OpToRel(<, Nat)
<1>1. IsWellFoundedOn(R, Nat)
  BY NatLessThanWellFounded
<1>2. \A x, y \in Nat : <<y, x>> \in R <=> y < x
  BY DEF OpToRel
<1> HIDE DEF R
<1>3. PICK x \in T : \A y \in T : ~ (<<y, x>> \in R)
  BY <1>1, WFMin
<1>4. ASSUME NEW y \in T PROVE x <= y
  <2>1. ~(y < x) /\ x \in Nat /\ y \in Nat
    BY <1>2, <1>3
  <2>2. QED
    BY <2>1
<1>5. QED
  BY <1>3, <1>4

LEMMA PrunedFront ==
    ASSUME TypeOK, NEW times \in Seq(Nat)
    PROVE  \E n \in 0..Len(times) :
              /\ Pruned(times) \in Seq(Nat) /\ Len(Pruned(times)) = Len(times) - n
              /\ \A i \in 1..(Len(times) - n) : Pruned(times)[i] = times[i + n]
              /\ \A i \in 1..n : times[i] < now - Window
              /\ n < Len(times) => times[n + 1] >= now - Window
<1>1. /\ Len(times) \in Nat /\ \A i \in 1..Len(times) : times[i] \in Nat
      /\ now \in Nat /\ Window \in Nat
  <2>1. now \in Nat /\ Window \in Nat
    BY PipelineAssumption DEF TypeOK
  <2>2. QED
    BY <2>1
<1> DEFINE Front(n) == /\ \A i \in 1..n : times[i] < now - Window
                       /\ n < Len(times) => times[n + 1] >= now - Window
           T == {n \in 0..Len(times) : n < Len(times) => times[n + 1] >= now - Window}
<1>2. \E n \in 0..Len(times) : Front(n)
  <2>1. T \subseteq Nat /\ Len(times) \in T
    BY <1>1
  <2>2. PICK n \in T : \A m \in T : n <= m
    <3> HIDE DEF T
    <3>1. QED
      BY <2>1, LeastOf
  <2>3. ASSUME NEW i \in 1..n PROVE times[i] < now - Window
    <3>1. i - 1 \in 0..Len(times) /\ i - 1 < Len(times) /\ i - 1 < n /\ i \in 1..Len(times)
      BY <1>1
    <3>2. i - 1 \notin T
      BY <2>2, <3>1, <1>1
    <3>3. ~(times[i - 1 + 1] >= now - Window)
      BY <3>1, <3>2
    <3>4. i - 1 + 1 = i /\ times[i] \in Nat
      BY <1>1, <3>1
    <3>5. QED
      BY <1>1, <3>3, <3>4
  <2>4. QED
    BY <2>2, <2>3
<1> DEFINE old == CHOOSE n \in 0..Len(times) : Front(n)
<1>3. old \in 0..Len(times) /\ Front(old)
  BY <1>2
<1>4. Pruned(times) = SubSeq(times, old + 1, Len(times))
  BY DEF Pruned
<1> HIDE DEF old
<1>5. \A i \in (old + 1)..Len(times) : times[i] \in Nat
  BY <1>1, <1>3
<1> DEFINE kept == SubSeq(times, old + 1, Len(times))
<1>6. /\ kept \in Seq(Nat)
      /\ Len(kept) = IF old + 1 <= Len(times) THEN Len(times) - (old + 1) + 1 ELSE 0
      /\ \A i \in 1..(Len(times) - (old + 1) + 1) : kept[i] = times[old + 1 + i - 1]
  BY <1>1, <1>3, <1>5, SubSeqProperties
<1>7. Len(kept) = Len(times) - old /\ \A i \in 1..(Len(times) - old) : kept[i] = times[i + old]
  BY <1>1, <1>3, <1>6
<1> HIDE DEF kept
<1>8. QED
  BY <1>3, <1>4, <1>6, <1>7 DEF kept

\* The prices are published in a circle.
LEMMA PublishedPrice ==
    ASSUME TypeOK
    PROVE  Prices[(publisher.published % Len(Prices)) + 1] \in Nat
<1>1. publisher.published \in Nat /\ Prices \in Seq(Nat \ {0}) /\ Prices # <<>>
  BY Facts, PipelineAssumption
<1>2. Len(Prices) \in Nat /\ Len(Prices) # 0
      /\ \A i \in 1..Len(Prices) : Prices[i] \in Nat
  BY <1>1
<1>3. \A n, l \in Nat : l # 0 => n % l \in 0..(l - 1)
  OBVIOUS
<1> DEFINE r == publisher.published % Len(Prices)
<1>4. r \in 0..(Len(Prices) - 1)
  BY <1>1, <1>2, <1>3
<1> HIDE DEF r
<1>5. Prices[r + 1] \in Nat
  BY <1>2, <1>4
<1>6. QED
  BY <1>5 DEF r

\* Every step keeps the types.
LEMMA TypeStep == ASSUME TypeOK, [Next]_vars PROVE TypeOK'
<1>1. ASSUME NEW s \in Symbols, StartPublisher(s) PROVE TypeOK'
  BY <1>1 DEF StartPublisher, TypeOK, QueuesOK, counts, faults, scoring, display
<1>2. CASE Publish
  <2> DEFINE price == Prices[(publisher.published % Len(Prices)) + 1]
             tick == [symbol |-> publisher.symbol, at |-> now, price |-> price]
  <2>1. publisher.symbol \in Symbols /\ now \in Nat
    BY <1>2 DEF Publish, TypeOK
  <2>2. price \in Nat
    BY PublishedPrice
  <2>3. /\ Deliver("raw", tick) /\ ticks' = ticks + 1
        /\ UNCHANGED <<now, stops, faults, scoring, journal, display>>
    BY <1>2 DEF Publish
  <2> HIDE DEF price
  <2>4. tick \in Messages("raw")
    BY <2>1, <2>2 DEF Messages, Ticks
  <2>5. QueuesOK'
    <3> HIDE DEF tick
    <3>1. QED
      BY <2>3, <2>4, Delivered DEF Topics
  <2>6. publisher' \in [up : BOOLEAN, symbol : Symbols \cup {None}, published : Nat]
        /\ publisher'.up = publisher.up /\ publisher'.symbol = publisher.symbol
    <3>1. /\ publisher \in [up : BOOLEAN, symbol : Symbols \cup {None}, published : Nat]
          /\ publisher' = [publisher EXCEPT !.published = @ + 1]
      BY <1>2 DEF Publish, TypeOK
    <3>2. QED
      BY <3>1
  <2> HIDE DEF tick
  <2>7. QED
    BY <2>1, <2>3, <2>5, <2>6 DEF TypeOK, faults, scoring, display
<1>3. CASE StopPublisher
  <2>1. QueuesOK'
    BY <1>3, HungUp DEF StopPublisher, Topics
  <2>2. QED
    BY <1>3, <2>1 DEF StopPublisher, NoPublisher, TypeOK, faults, scoring, display
<1>4. ASSUME NEW topic \in Topics, Stray(topic) PROVE TypeOK'
  <2>1. Invalid \in Messages(topic) /\ Deliver(topic, Invalid)
    BY <1>4 DEF Stray, Messages, Deliver
  <2>2. QueuesOK'
    BY <2>1, Delivered
  <2>3. QED
    BY <1>4, <2>2 DEF Stray, TypeOK, scoring, display
<1>5. CASE StartScorer
  BY <1>5 DEF StartScorer, TypeOK, QueuesOK, counts, faults, display
<1>6. CASE Score
  <2> DEFINE tick == Head(queue["raw"])
             row == ScoreTick(tick, prices[tick.symbol])
  <2>1. QueuesOK' /\ tick \in Messages("raw")
    BY <1>6, Taken DEF Score, Topics
  <2>2. tick \in Ticks
    BY <1>6, <2>1 DEF Score, Messages
  <2>3. row \in Rows /\ tick.symbol \in Symbols /\ tick.price \in Nat
    BY <2>2, ScoredRow
  <2>4. /\ annotated' = row /\ prices' = [prices EXCEPT ![tick.symbol] = tick.price]
        /\ previousSequence' = sequence /\ sequence' = sequence + 1 /\ scorer' = "scored"
        /\ UNCHANGED <<now, counts, publisher, ended, journal, display>>
    BY <1>6 DEF Score
  <2> HIDE DEF tick, row
  <2>5. QED
    BY <2>1, <2>3, <2>4 DEF TypeOK, counts, faults, display
<1>7. CASE ScorerEnds /\ stops' \in {stops, stops + 1}
  <2>1. QueuesOK'
    BY <1>7, Emptied
  <2>2. QED
    BY <1>7, <2>1 DEF ScorerEnds, TypeOK, faults, display
<1>8. CASE Persist
  <2>1. annotated \in Rows /\ journal' \in Seq(Rows)
    BY <1>8 DEF Persist, TypeOK
  <2>2. QED
    BY <1>8, <2>1 DEF Persist, TypeOK, QueuesOK, counts, faults, display
<1>9. CASE Republish
  <2> DEFINE message == [row |-> annotated, sent |-> now]
  <2>1. message \in Messages("scored")
    BY <1>9 DEF Republish, TypeOK, Messages, Shipments
  <2>2. QueuesOK'
    <3> HIDE DEF message
    <3>1. Deliver("scored", message)
      BY <1>9 DEF Republish, message
    <3>2. QED
      BY <2>1, <3>1, Delivered DEF Topics
  <2>3. QED
    BY <1>9, <2>2 DEF Republish, TypeOK, counts, faults, display
<1>10. CASE StartDashboard
  <2>1. tracker' \in Trackers
    BY <1>10 DEF StartDashboard, NewTracker, Trackers, TypeOK
  <2>2. QED
    BY <1>10, <2>1 DEF StartDashboard, TypeOK, QueuesOK, counts, faults, scoring
<1>11. CASE Observe
  <2> DEFINE message == Head(queue["scored"])
  <2>1. QueuesOK' /\ message \in Messages("scored")
    BY <1>11, Taken DEF Observe, CanRead, Topics
  <2>2. message \in Shipments
    BY <1>11, <2>1 DEF Observe, Messages
  <2>3. message.row \in Rows /\ message.row.anomaly \in BOOLEAN
    BY <2>2 DEF Shipments, Rows
  <2>4. /\ polled < MaxMessages /\ polled' = polled + 1
        /\ tracker' = [tracker EXCEPT
               !.lastAt = now, !.latest = message, !.ticks = @ + 1, !.warning = FALSE,
               !.anomalies = IF message.row.anomaly THEN Append(@, now) ELSE @]
        /\ shown' = Append(shown, message.row)
        /\ anomalous' = IF message.row.anomaly THEN Append(anomalous, now) ELSE anomalous
        /\ UNCHANGED <<now, counts, publisher, scoring, journal, dashboard, refreshed>>
    BY <1>11 DEF Observe, CanRead
  <2> HIDE DEF message
  <2>5. now \in Nat /\ tracker \in Trackers /\ anomalous \in Seq(Nat) /\ shown \in Seq(Rows)
    BY DEF TypeOK
  <2>6. tracker' \in Trackers
    <3> DEFINE times == IF message.row.anomaly THEN Append(tracker.anomalies, now)
                        ELSE tracker.anomalies
    <3>1. times \in Seq(Nat)
      BY <2>5 DEF Trackers
    <3>2. tracker' = [tracker EXCEPT !.lastAt = now, !.latest = message, !.ticks = @ + 1,
                                     !.warning = FALSE, !.anomalies = times]
      BY <2>4
    <3> HIDE DEF times
    <3>3. /\ now \in Nat \cup {None} /\ message \in Shipments \cup {None}
          /\ tracker.ticks + 1 \in Nat /\ FALSE \in BOOLEAN
      BY <2>2, <2>5 DEF Trackers
    <3>4. tracker \in Trackers
      BY Facts
    <3>5. QED
      BY <3>1, <3>2, <3>3, <3>4 DEF Trackers
  <2>7. anomalous' \in Seq(Nat) /\ shown' \in Seq(Rows)
    BY <2>3, <2>4, <2>5
  <2>8. polled' \in 0..MaxMessages
    <3>1. polled \in 0..MaxMessages /\ MaxMessages \in Nat
      BY Limits, Facts
    <3>2. QED
      BY <2>4, <3>1
  <2>9. QED
    BY <2>1, <2>4, <2>6, <2>7, <2>8 DEF TypeOK, counts, faults, scoring
<1>12. CASE ObserveInvalid
  <2>1. QueuesOK'
    BY <1>12, Taken DEF ObserveInvalid, CanRead, Topics
  <2>2. tracker' \in Trackers
    BY <1>12 DEF ObserveInvalid, TypeOK, Trackers
  <2>3. polled' \in 0..MaxMessages
    BY <1>12, Limits, Facts DEF ObserveInvalid, CanRead
  <2>4. QED
    BY <1>12, <2>1, <2>2, <2>3 DEF ObserveInvalid, TypeOK, counts, faults, scoring
<1>13. CASE StopDashboard
  <2>1. <<>> \in Seq(Messages("scored")) /\ Len(<<>>) <= Capacity
    BY PipelineAssumption
  <2>2. QueuesOK'
    BY <1>13, <2>1, Replaced DEF StopDashboard, Topics
  <2>3. tracker' \in Trackers
    BY <1>13 DEF StopDashboard, NewTracker, Trackers
  <2>4. QED
    BY <1>13, <2>2, <2>3, Limits DEF StopDashboard, TypeOK, faults, scoring
<1>14. ASSUME NEW failed \in BOOLEAN, Snapshot(failed) PROVE TypeOK'
  <2>1. tracker \in Trackers /\ tracker.anomalies \in Seq(Nat) /\ tracker.warning \in BOOLEAN
    BY DEF TypeOK, Trackers
  <2>2. Pruned(tracker.anomalies) \in Seq(Nat)
    BY <2>1, PrunedFront
  <2>3. tracker' = [tracker EXCEPT !.warning = @ \/ failed, !.anomalies = Pruned(@)]
    BY <1>14 DEF Snapshot
  <2>4. tracker' \in Trackers
    BY <2>1, <2>2, <2>3 DEF Trackers
  <2>5. refreshed' \in Nat /\ polled' \in 0..MaxMessages /\ failures' \in Nat
    BY <1>14, Limits, Facts DEF Snapshot
  <2>6. UNCHANGED <<now, stops, ticks, strays, publisher, queue, scoring, journal, dashboard, shown,
                    anomalous>>
    BY <1>14 DEF Snapshot
  <2>7. QED
    BY <2>4, <2>5, <2>6 DEF TypeOK, QueuesOK, scoring
<1>15. CASE Tick
  <2>1. now' = now + 1 /\ ended' \in BOOLEAN
    BY <1>15 DEF Tick
  <2>2. UNCHANGED <<counts, publisher, queue, scorer, prices, sequence, previousSequence, annotated,
                    journal, display>>
    BY <1>15 DEF Tick
  <2>3. now' \in Nat
    BY <2>1, Facts
  <2>4. QED
    BY <2>1, <2>2, <2>3 DEF TypeOK, QueuesOK, counts, faults, display
<1>16. CASE UNCHANGED vars
  BY <1>16 DEF vars, TypeOK, QueuesOK, counts, faults, scoring, display
<1>17. QED
  BY <1>1, <1>2, <1>3, <1>4, <1>5, <1>6, <1>7, <1>8, <1>9, <1>10, <1>11, <1>12, <1>13, <1>14,
     <1>15, <1>16 DEF Next, Refuse, StopScorer

\* Every variable of the pipeline always has its type, and no topic exceeds its capacity.
THEOREM TypeCorrect == Spec => []TypeOK
<1>1. Init => TypeOK
  BY TypeInit
<1>2. TypeOK /\ [Next]_vars => TypeOK'
  BY TypeStep
<1>3. QED
  BY <1>1, <1>2, PTL DEF Spec

(***************************************************************************)
(* What a journal says of its rows.                                        *)
(***************************************************************************)
\* Rows that are the same say the same.
LEMMA LastPriceKept ==
    ASSUME NEW rows, NEW more, NEW first \in Int, NEW last \in Int, NEW symbol, NEW price,
           \A j \in first..last : more[j] = rows[j], LastPrice(rows, first, last, symbol, price)
    PROVE  LastPrice(more, first, last, symbol, price)
<1> DEFINE same == {j \in first..last : rows[j].symbol = symbol}
<1>1. {j \in first..last : more[j].symbol = symbol} = same
  OBVIOUS
<1>2. CASE same = {}
  BY <1>1, <1>2 DEF LastPrice
<1>3. CASE same # {}
  <2>1. PICK j \in same : price = rows[j].price /\ \A i \in same : i <= j
    BY <1>3 DEF LastPrice
  <2>2. price = more[j].price
    BY <2>1
  <2>3. QED
    BY <1>1, <1>3, <2>1, <2>2 DEF LastPrice
<1>4. QED
  BY <1>2, <1>3

\* One row more is the last one of its symbol, and of no other.
LEMMA LastPriceNext ==
    ASSUME NEW rows, NEW first \in Int, NEW last \in Int, first <= last, NEW symbol, NEW price,
           rows[last].symbol = symbol => price = rows[last].price,
           rows[last].symbol # symbol => LastPrice(rows, first, last - 1, symbol, price)
    PROVE  LastPrice(rows, first, last, symbol, price)
<1> DEFINE same == {j \in first..last : rows[j].symbol = symbol}
           older == {j \in first..(last - 1) : rows[j].symbol = symbol}
<1>1. CASE rows[last].symbol = symbol
  <2>1. last \in same /\ \A i \in same : i <= last
    BY <1>1
  <2>2. QED
    BY <1>1, <2>1 DEF LastPrice
<1>2. CASE rows[last].symbol # symbol
  <2>1. same = older
    BY <1>2
  <2>2. QED
    BY <1>2, <2>1 DEF LastPrice
<1>3. QED
  BY <1>1, <1>2

\* What follows a row does not change what explains it.
LEMMA ExplainedKept ==
    ASSUME NEW rows, NEW more, NEW k \in Nat, rows[k].sequence \in Nat,
           \A j \in 1..k : more[j] = rows[j], Explained(rows, k)
    PROVE  Explained(more, k)
<1>1. rows[k].sequence < k
  BY DEF Explained
<1>2. more[k] = rows[k] /\ Start(more, k) = Start(rows, k)
      /\ Start(rows, k) \in Int /\ Start(rows, k) >= 1 /\ Start(rows, k) <= k
  BY <1>1 DEF Start
<1>3. LastPrice(more, Start(rows, k), k - 1, rows[k].symbol, rows[k].previous)
  <2> DEFINE first == Start(rows, k)
             last == k - 1
  <2>1. first \in Int /\ last \in Int /\ \A j \in first..last : more[j] = rows[j]
    BY <1>2
  <2>2. LastPrice(rows, first, last, rows[k].symbol, rows[k].previous)
    BY DEF Explained
  <2> HIDE DEF first, last
  <2>3. LastPrice(more, first, last, rows[k].symbol, rows[k].previous)
    BY <2>1, <2>2, LastPriceKept
  <2>4. QED
    BY <2>3 DEF first, last
<1>4. \A j \in Start(rows, k)..k : more[j].sequence = j - Start(rows, k)
  <2>1. \A j \in Start(rows, k)..k : j \in 1..k
    BY <1>2
  <2>2. QED
    BY <2>1 DEF Explained
<1>5. QED
  BY <1>1, <1>2, <1>3, <1>4 DEF Explained

(***************************************************************************)
(* The scorer and the journal.                                             *)
(***************************************************************************)
JournalInv == ScorerInv /\ AgeInv /\ ExplainInv /\ PriceInv

LEMMA JournalFacts ==
    ASSUME IInv
    PROVE  /\ TypeOK /\ JournalInv
           /\ Own \in Nat /\ Before \in Nat /\ Len(journal) \in Nat /\ Len(journal) = Before + Own
           /\ DOMAIN journal = 1..Len(journal) /\ sequence \in Nat /\ now \in Nat
           /\ \A k \in 1..Len(journal) :
                 /\ journal[k].at \in Nat /\ journal[k].sequence \in Nat /\ journal[k].price \in Nat
                 /\ journal[k].symbol \in Symbols
           /\ InHand => /\ annotated \in Rows /\ annotated.symbol \in Symbols
                        /\ annotated.at \in Nat /\ annotated.sequence \in Nat
<1>1. TypeOK /\ JournalInv
  BY DEF IInv, JournalInv
<1>2. sequence \in Nat /\ now \in Nat /\ journal \in Seq(Rows)
  BY <1>1, Facts
<1>3. Len(journal) \in Nat /\ DOMAIN journal = 1..Len(journal)
      /\ \A k \in 1..Len(journal) : journal[k] \in Rows
  BY <1>2
<1>4. Own \in Nat
  BY <1>1, <1>2 DEF Own, JournalInv, ScorerInv, InHand
<1>5. Own <= Len(journal)
  BY <1>1 DEF JournalInv, ScorerInv
<1>6. Before \in Nat /\ Len(journal) = Before + Own
  BY <1>3, <1>4, <1>5 DEF Before
<1>7. InHand => annotated \in Rows
  BY <1>1 DEF TypeOK, InHand
<1>8. \A row \in Rows : /\ row.at \in Nat /\ row.sequence \in Nat /\ row.price \in Nat
                        /\ row.symbol \in Symbols
  BY DEF Rows
<1>9. QED
  BY <1>1, <1>2, <1>3, <1>4, <1>6, <1>7, <1>8

\* The raw topic may lose ticks and get new ones while the scorer is up.
LEMMA RawStep ==
    ASSUME IInv, UNCHANGED <<now, scoring, journal>>, scorer = "down" => Len(queue'["raw"]) = 0,
           \A i \in DOMAIN queue'["raw"] : queue'["raw"][i] # Invalid =>
              \/ \E j \in DOMAIN queue["raw"] : queue["raw"][j] = queue'["raw"][i]
              \/ scorer # "down" /\ queue'["raw"][i].at = now
    PROVE  JournalInv'
<1>1. /\ UNCHANGED <<now, scorer, prices, sequence, previousSequence, annotated, ended, journal>>
      /\ InHand' = InHand /\ Own' = Own /\ Before' = Before
  BY DEF scoring, InHand, Own, Before
<1>2. ScorerInv'
  BY <1>1 DEF IInv, ScorerInv
<1>3. AgeInv'
  <2>1. ASSUME NEW i \in DOMAIN queue'["raw"], queue'["raw"][i] # Invalid
        PROVE  /\ queue'["raw"][i].at <= now
               /\ \A k \in 1..Before : journal[k].at < queue'["raw"][i].at
    <3>1. CASE \E j \in DOMAIN queue["raw"] : queue["raw"][j] = queue'["raw"][i]
      BY <2>1, <3>1 DEF IInv, AgeInv
    <3>2. CASE scorer # "down" /\ queue'["raw"][i].at = now
      BY <3>2, JournalFacts DEF IInv, AgeInv
    <3>3. QED
      BY <2>1, <3>1, <3>2
  <2>2. QED
    BY <1>1, <2>1 DEF IInv, AgeInv
<1>4. ExplainInv' /\ PriceInv'
  BY <1>1 DEF IInv, ExplainInv, PriceInv
<1>5. QED
  BY <1>2, <1>3, <1>4 DEF JournalInv

\* An exchange timestamp and a number of its own make every row new: it is appended.
LEMMA NewRow ==
    ASSUME IInv, Persist
    PROVE  /\ Grown(journal, journal', annotated) /\ journal' = Append(journal, annotated)
           /\ \A k \in DOMAIN journal : EventId(journal[k]) # EventId(annotated)
<1>1. /\ scorer = "scored" /\ InHand /\ Own = sequence - 1 /\ ScorerInv /\ AgeInv
  BY DEF Persist, InHand, Own, IInv
<1>2. ASSUME NEW k \in DOMAIN journal PROVE EventId(journal[k]) # EventId(annotated)
  <2>1. k \in 1..Len(journal) /\ Before \in Nat /\ Len(journal) \in Nat
    BY JournalFacts
  <2>2. CASE k \in 1..Before
    <3>1. journal[k].at < annotated.at
      BY <1>1, <2>2 DEF AgeInv
    <3>2. journal[k].at # annotated.at
      BY <1>1, <2>1, <3>1, JournalFacts
    <3>3. QED
      BY <3>2 DEF EventId
  <2>3. CASE k \in (Before + 1)..Len(journal)
    <3>1. journal[k].sequence = k - Before - 1 /\ annotated.sequence = sequence - 1
      BY <1>1, <2>3 DEF ScorerInv
    <3>2. Len(journal) = Before + (sequence - 1) /\ sequence \in Nat
      BY <1>1, JournalFacts
    <3>3. journal[k].sequence # annotated.sequence
      BY <2>1, <2>3, <3>1, <3>2
    <3>4. QED
      BY <3>3 DEF EventId
  <2>4. QED
    BY <2>1, <2>2, <2>3
<1>3. journal' = Append(journal, annotated)
  BY <1>2 DEF Persist
<1>4. journal \in Seq(Rows) /\ annotated \in Rows
  BY <1>1, JournalFacts, Facts
<1>5. Grown(journal, journal', annotated)
  BY <1>3, <1>4, AppendProperties DEF Grown
<1>6. QED
  BY <1>2, <1>3, <1>5

LEMMA PersistJournal == ASSUME IInv, Persist PROVE JournalInv'
<1>1. /\ scorer = "scored" /\ InHand /\ Own = sequence - 1 /\ scorer' = "journaled" /\ InHand'
      /\ UNCHANGED <<now, queue, prices, sequence, previousSequence, annotated>>
  BY DEF Persist, InHand, Own
<1>2. ScorerInv /\ AgeInv /\ ExplainInv /\ PriceInv
  BY DEF IInv
<1> DEFINE n == Len(journal)
<1>3. /\ n \in Nat /\ Before \in Nat /\ sequence \in Nat /\ n = Before + (sequence - 1)
      /\ DOMAIN journal = 1..n /\ sequence # 0 /\ annotated.sequence = sequence - 1
  BY <1>1, <1>2, JournalFacts DEF ScorerInv
<1>4. /\ Len(journal') = n + 1 /\ journal'[n + 1] = annotated
      /\ \A k \in 1..n : journal'[k] = journal[k]
  BY NewRow DEF Grown
<1>5. Own' = sequence /\ Before' = Before
  <2>1. Own' = sequence
    BY <1>1 DEF Own
  <2>2. QED
    BY <1>3, <1>4, <2>1 DEF Before
<1>6. DOMAIN journal' = 1..(n + 1)
  BY <1>3, NewRow, Facts, JournalFacts
<1> HIDE DEF n
<1>7. \A k \in (Before + 1)..(n + 1) : journal'[k].sequence = k - Before - 1
  <2>1. ASSUME NEW k \in (Before + 1)..(n + 1) PROVE journal'[k].sequence = k - Before - 1
    <3>1. CASE k = n + 1
      BY <1>3, <1>4, <3>1
    <3>2. CASE k # n + 1
      <4>1. k \in (Before + 1)..n /\ k \in 1..n
        BY <1>3, <2>1, <3>2
      <4>2. journal[k].sequence = k - Before - 1
        BY <1>2, <4>1 DEF ScorerInv, n
      <4>3. QED
        BY <1>4, <4>1, <4>2
    <3>3. QED
      BY <3>1, <3>2
  <2>2. QED
    BY <2>1
<1>8. ScorerInv'
  <2>1. Own' <= Len(journal') /\ Len(journal') # 0
    BY <1>3, <1>4, <1>5
  <2>2. \A k \in (Before' + 1)..Len(journal') : journal'[k].sequence = k - Before' - 1
    BY <1>4, <1>5, <1>7
  <2>3. annotated' = journal'[Len(journal')]
    BY <1>1, <1>4
  <2>4. previousSequence' = IF sequence' = 0 THEN None ELSE sequence' - 1
    BY <1>1, <1>2 DEF ScorerInv
  <2>5. sequence' # 0 /\ annotated'.sequence = sequence' - 1
    BY <1>1, <1>3
  <2>6. QED
    BY <1>1, <2>1, <2>2, <2>3, <2>4, <2>5 DEF ScorerInv
<1>9. AgeInv'
  <2>1. \A k \in 1..Before : k \in 1..n /\ journal'[k] = journal[k]
    BY <1>3, <1>4
  <2>2. \A k \in DOMAIN journal' : journal'[k].at <= now'
    <3>1. ASSUME NEW k \in 1..(n + 1) PROVE journal'[k].at <= now
      <4>1. CASE k = n + 1
        BY <1>1, <1>2, <1>4, <4>1 DEF AgeInv
      <4>2. CASE k # n + 1
        <5>1. k \in 1..n
          BY <1>3, <3>1, <4>2
        <5>2. QED
          BY <1>2, <1>3, <1>4, <5>1 DEF AgeInv
      <4>3. QED
        BY <4>1, <4>2
    <3>2. QED
      BY <1>1, <1>6, <3>1
  <2>3. QED
    BY <1>1, <1>2, <1>5, <2>1, <2>2 DEF AgeInv
<1>10. \A k \in 1..n : Explained(journal', k)
  <2>1. ASSUME NEW k \in 1..n PROVE Explained(journal', k)
    <3>1. k \in Nat /\ journal[k].sequence \in Nat /\ Explained(journal, k)
      BY <1>2, <1>3, JournalFacts DEF ExplainInv, n
    <3>2. \A j \in 1..k : journal'[j] = journal[j]
      BY <1>3, <1>4
    <3>3. QED
      BY <3>1, <3>2, ExplainedKept
  <2>2. QED
    BY <2>1
<1>11. /\ Before + 1 \in Int /\ n \in Int /\ \A j \in (Before + 1)..n : journal'[j] = journal[j]
  BY <1>3, <1>4
<1>12. /\ Judged(annotated) /\ prices[annotated.symbol] = annotated.price
       /\ LastPrice(journal, Before + 1, n, annotated.symbol, annotated.previous)
       /\ \A s \in Symbols \ {annotated.symbol} : LastPrice(journal, Before + 1, n, s, prices[s])
  BY <1>1, <1>2 DEF PriceInv, n
<1>13. Explained(journal', n + 1)
  <2>1. journal'[n + 1].sequence = sequence - 1 /\ sequence - 1 < n + 1
        /\ Start(journal', n + 1) = Before + 1
    BY <1>3, <1>4 DEF Start
  <2>2. \A j \in (Before + 1)..(n + 1) : journal'[j].sequence = j - (Before + 1)
    BY <1>3, <1>7
  <2>3. LastPrice(journal', Before + 1, n, annotated.symbol, annotated.previous)
    BY <1>11, <1>12, LastPriceKept
  <2> DEFINE k == n + 1
  <2>4. LastPrice(journal', Start(journal', k), k - 1, journal'[k].symbol, journal'[k].previous)
    <3>1. k - 1 = n /\ Start(journal', k) = Before + 1 /\ journal'[k] = annotated
      BY <1>3, <1>4, <2>1
    <3> HIDE DEF k
    <3>2. QED
      BY <2>3, <3>1
  <2>5. Judged(journal'[k]) /\ journal'[k].sequence < k
    BY <1>4, <1>12, <2>1
  <2>6. \A j \in Start(journal', k)..k : journal'[j].sequence = j - Start(journal', k)
    BY <2>1, <2>2
  <2> HIDE DEF k
  <2>7. Explained(journal', k)
    BY <2>4, <2>5, <2>6 DEF Explained
  <2>8. QED
    BY <2>7 DEF k
<1>14. ExplainInv'
  <2>1. \A k \in 1..(n + 1) : k \in 1..n \/ k = n + 1
    BY <1>3
  <2>2. QED
    BY <1>6, <1>10, <1>13, <2>1 DEF ExplainInv
<1>15. PriceInv'
  <2>1. ASSUME NEW s \in Symbols PROVE LastPrice(journal', Before + 1, n + 1, s, prices[s])
    <3>1. /\ n + 1 \in Int /\ Before + 1 <= n + 1 /\ n + 1 - 1 = n
      BY <1>3
    <3>2. journal'[n + 1].symbol = s => prices[s] = journal'[n + 1].price
      BY <1>4, <1>12
    <3>3. journal'[n + 1].symbol # s => LastPrice(journal', Before + 1, n + 1 - 1, s, prices[s])
      <4>1. SUFFICES ASSUME annotated.symbol # s
                     PROVE  LastPrice(journal', Before + 1, n, s, prices[s])
        BY <1>4, <3>1
      <4>2. LastPrice(journal, Before + 1, n, s, prices[s])
        BY <1>12, <4>1
      <4>3. QED
        BY <1>11, <4>2, LastPriceKept
    <3>4. QED
      BY <1>11, <3>1, <3>2, <3>3, LastPriceNext
  <2>2. QED
    BY <1>1, <1>4, <1>5, <2>1 DEF PriceInv
<1>16. QED
  BY <1>8, <1>9, <1>14, <1>15 DEF JournalInv

LEMMA ScoreJournal == ASSUME IInv, Score PROVE JournalInv'
<1> DEFINE tick == Head(queue["raw"])
<1>1. /\ scorer = "receiving" /\ tick # Invalid /\ scorer' = "scored" /\ sequence' = sequence + 1
      /\ annotated' = ScoreTick(tick, prices[tick.symbol])
      /\ prices' = [prices EXCEPT ![tick.symbol] = tick.price] /\ previousSequence' = sequence
      /\ UNCHANGED <<now, ended, journal>>
  BY DEF Score
<1>2. ScorerInv /\ AgeInv /\ ExplainInv /\ PriceInv /\ TypeOK
  BY DEF IInv
<1>3. /\ tick = queue["raw"][1] /\ 1 \in DOMAIN queue["raw"] /\ tick \in Messages("raw")
      /\ Advanced(queue["raw"], queue'["raw"])
      /\ DOMAIN queue["raw"] = 1..Len(queue["raw"]) /\ Len(queue["raw"]) \in Nat
  BY <1>2, Taken, QueueFacts DEF Score, Topics
<1>4. tick \in Ticks /\ tick.symbol \in Symbols /\ prices \in [Symbols -> Nat \cup {None}]
  BY <1>1, <1>2, <1>3 DEF Messages, Ticks, TypeOK
<1>5. Own = sequence /\ Own' = Own /\ Before' = Before /\ InHand'
  <2>1. sequence \in Nat
    BY JournalFacts
  <2>2. Own = sequence /\ Own' = Own
    BY <1>1, <2>1 DEF Own
  <2>3. QED
    BY <1>1, <2>2 DEF Before, InHand
<1>6. QueuesOK'
  BY <1>2, Taken DEF Score, Topics
<1>7. DOMAIN queue'["raw"] = 1..Len(queue'["raw"]) /\ Len(queue'["raw"]) \in Nat
  BY <1>6 DEF QueuesOK, Topics
<1> HIDE DEF tick
<1>8. ScorerInv'
  <2>1. sequence \in Nat /\ sequence' # 0 /\ sequence' - 1 = sequence
    BY <1>1, JournalFacts
  <2>2. annotated'.sequence = sequence
    BY <1>1 DEF ScoreTick
  <2>3. Own' <= Len(journal')
        /\ \A k \in (Before' + 1)..Len(journal') : journal'[k].sequence = k - Before' - 1
    BY <1>1, <1>2, <1>5 DEF ScorerInv
  <2>4. QED
    BY <1>1, <2>1, <2>2, <2>3 DEF ScorerInv
<1>9. AgeInv'
  <2>1. ASSUME NEW i \in DOMAIN queue'["raw"]
        PROVE  i + 1 \in DOMAIN queue["raw"] /\ queue'["raw"][i] = queue["raw"][i + 1]
    BY <1>3, <1>7, <2>1 DEF Advanced
  <2>2. annotated'.at = queue["raw"][1].at /\ queue["raw"][1] # Invalid
    BY <1>1, <1>3 DEF ScoreTick
  <2>3. \A i \in DOMAIN queue'["raw"] : queue'["raw"][i] # Invalid =>
           queue'["raw"][i].at <= now
           /\ \A k \in 1..Before : journal[k].at < queue'["raw"][i].at
    BY <1>2, <2>1 DEF AgeInv
  <2>4. annotated'.at <= now /\ \A k \in 1..Before : journal[k].at < annotated'.at
    BY <1>2, <1>3, <2>2 DEF AgeInv
  <2>5. \A k \in 1..Before : journal[k].at < now
    BY <1>1, <1>2 DEF AgeInv
  <2>6. \A k \in DOMAIN journal : journal[k].at <= now
    BY <1>2 DEF AgeInv
  <2>7. QED
    BY <1>1, <1>5, <2>3, <2>4, <2>5, <2>6 DEF AgeInv
<1>10. ExplainInv'
  BY <1>1, <1>2 DEF ExplainInv
<1>11. \A s \in Symbols : LastPrice(journal, Before + 1, Len(journal), s, prices[s])
  BY <1>1, <1>2 DEF PriceInv
<1>12. /\ annotated'.symbol = tick.symbol /\ annotated'.price = tick.price
       /\ annotated'.previous = prices[tick.symbol] /\ annotated'.sequence = sequence
       /\ annotated'.anomaly = (prices[tick.symbol] # None /\ Exceeds(prices[tick.symbol], tick.price))
       /\ annotated'.status = SequenceStatus(sequence, previousSequence)
  BY <1>1 DEF ScoreTick
<1>13. Judged(annotated')
  <2>1. SequenceStatus(sequence, previousSequence) = IF sequence = 0 THEN "FIRST" ELSE "IN_ORDER"
    <3>1. previousSequence = IF sequence = 0 THEN None ELSE sequence - 1
      BY <1>2 DEF ScorerInv
    <3>2. sequence \in Nat /\ None \notin Nat
      BY JournalFacts, Limits
    <3>3. CASE sequence = 0
      BY <3>1, <3>3 DEF SequenceStatus
    <3>4. CASE sequence # 0
      <4>1. previousSequence \in Nat /\ sequence = previousSequence + 1
        BY <3>1, <3>2, <3>4
      <4>2. previousSequence # None
        BY <3>2, <4>1
      <4>3. QED
        BY <3>4, <4>1, <4>2 DEF SequenceStatus
    <3>5. QED
      BY <3>3, <3>4
  <2>2. QED
    BY <1>12, <2>1 DEF Judged
<1>14. PriceInv'
  <2>1. prices'[tick.symbol] = tick.price
        /\ \A s \in Symbols \ {tick.symbol} : prices'[s] = prices[s]
    BY <1>1, <1>4
  <2>2. QED
    BY <1>1, <1>4, <1>5, <1>11, <1>12, <1>13, <2>1 DEF PriceInv
<1>15. QED
  BY <1>8, <1>9, <1>10, <1>14 DEF JournalInv

\* What the scorer sends does not change what it knows.
LEMMA RepublishJournal == ASSUME IInv, Republish PROVE JournalInv'
<1>1. /\ scorer = "journaled" /\ scorer' = "receiving"
      /\ UNCHANGED <<now, prices, sequence, previousSequence, ended, journal>>
  BY DEF Republish
<1>2. ScorerInv /\ AgeInv /\ ExplainInv /\ PriceInv /\ TypeOK
  BY DEF IInv
<1>3. queue'["raw"] = queue["raw"]
  <2> DEFINE message == [row |-> annotated, sent |-> now]
  <2>1. message \in Messages("scored")
    BY <1>1, <1>2 DEF TypeOK, Messages, Shipments
  <2>2. Deliver("scored", message)
    BY DEF Republish
  <2> HIDE DEF message
  <2>3. QED
    BY <1>2, <2>1, <2>2, Delivered DEF Topics
<1>4. Own' = Own /\ Before' = Before /\ ~InHand'
  BY <1>1 DEF Own, Before, InHand
<1>5. ScorerInv'
  BY <1>1, <1>2, <1>4 DEF ScorerInv
<1>6. AgeInv'
  BY <1>1, <1>2, <1>3, <1>4 DEF AgeInv
<1>7. ExplainInv' /\ PriceInv'
  BY <1>1, <1>2, <1>4 DEF ExplainInv, PriceInv
<1>8. QED
  BY <1>5, <1>6, <1>7 DEF JournalInv

\* The next scorer begins anew, and not at once.
LEMMA EndJournal == ASSUME IInv, ScorerEnds PROVE JournalInv'
<1>1. /\ scorer' = "down" /\ ended' = TRUE /\ prices' = [s \in Symbols |-> None] /\ sequence' = 0
      /\ previousSequence' = None /\ UNCHANGED <<now, journal>>
  BY DEF ScorerEnds
<1>2. ScorerInv /\ AgeInv /\ ExplainInv /\ TypeOK
  BY DEF IInv
<1>3. queue'["raw"] = <<>> /\ Len(queue'["raw"]) = 0 /\ DOMAIN queue'["raw"] = {}
  <2>1. queue'["raw"] = <<>>
    BY <1>2, Emptied
  <2>2. QED
    BY <2>1
<1>4. Own' = 0 /\ Before' = Len(journal) /\ ~InHand' /\ Len(journal) \in Nat
  <2>1. Own' = 0
    BY <1>1 DEF Own
  <2>2. QED
    BY <1>1, <2>1, JournalFacts DEF Before, InHand
<1>5. ScorerInv'
  <2>1. (Before' + 1)..Len(journal') = {}
    BY <1>1, <1>4
  <2>2. QED
    BY <1>1, <1>3, <1>4, <2>1 DEF ScorerInv
<1>6. AgeInv'
  BY <1>1, <1>2, <1>3, <1>4 DEF AgeInv
<1>7. ExplainInv'
  BY <1>1, <1>2 DEF ExplainInv
<1>8. PriceInv'
  <2>1. {j \in (Before' + 1)..Len(journal') : FALSE} = {}
    OBVIOUS
  <2>2. (Before' + 1)..Len(journal') = {}
    BY <1>1, <1>4
  <2>3. \A s \in Symbols : LastPrice(journal', Before' + 1, Len(journal'), s, None)
    BY <2>2 DEF LastPrice
  <2>4. \A s \in Symbols : prices'[s] = None
    BY <1>1
  <2>5. QED
    BY <1>1, <2>3, <2>4 DEF PriceInv
<1>9. QED
  BY <1>5, <1>6, <1>7, <1>8 DEF JournalInv

\* A scorer that starts has written nothing yet.
LEMMA StartJournal == ASSUME IInv, StartScorer PROVE JournalInv'
<1>1. /\ scorer = "down" /\ ~ended /\ scorer' = "receiving"
      /\ UNCHANGED <<now, queue, annotated, prices, sequence, previousSequence, ended, journal>>
  BY DEF StartScorer
<1>2. ScorerInv /\ AgeInv /\ ExplainInv /\ PriceInv
  BY DEF IInv
<1>3. Own' = Own /\ Before' = Before /\ ~InHand'
  BY <1>1 DEF Own, Before, InHand
<1>4. ScorerInv'
  BY <1>1, <1>2, <1>3 DEF ScorerInv
<1>5. AgeInv'
  BY <1>1, <1>2, <1>3 DEF AgeInv
<1>6. ExplainInv' /\ PriceInv'
  BY <1>1, <1>2, <1>3 DEF ExplainInv, PriceInv
<1>7. QED
  BY <1>4, <1>5, <1>6 DEF JournalInv

\* Time passes after whatever was written.
LEMMA TickJournal == ASSUME IInv, Tick PROVE JournalInv'
<1>1. /\ now' = now + 1 /\ ended' = FALSE
      /\ UNCHANGED <<queue, scorer, prices, sequence, previousSequence, annotated, journal>>
  BY DEF Tick
<1>2. ScorerInv /\ AgeInv /\ ExplainInv /\ PriceInv /\ TypeOK
  BY DEF IInv
<1>3. Own' = Own /\ Before' = Before /\ InHand' = InHand
  BY <1>1 DEF Own, Before, InHand
<1>4. ScorerInv' /\ ExplainInv' /\ PriceInv'
  BY <1>1, <1>2, <1>3 DEF ScorerInv, ExplainInv, PriceInv
<1>5. \A t \in Nat : t <= now => t < now + 1 /\ t <= now + 1
  BY JournalFacts
<1>6. \A k \in DOMAIN journal : journal[k].at < now + 1 /\ journal[k].at <= now + 1
  BY <1>2, <1>5, JournalFacts DEF AgeInv
<1>7. InHand => annotated.at <= now + 1
  BY <1>2, <1>5, JournalFacts DEF AgeInv
<1>8. \A i \in DOMAIN queue["raw"] : queue["raw"][i] # Invalid => queue["raw"][i].at <= now + 1
  <2>1. \A i \in DOMAIN queue["raw"] : queue["raw"][i] # Invalid => queue["raw"][i].at \in Nat
    BY <1>2, QueueFacts DEF Topics, Messages, Ticks
  <2>2. QED
    BY <1>2, <1>5, <2>1 DEF AgeInv
<1>9. \A k \in 1..Before : k \in DOMAIN journal
  BY JournalFacts
<1>10. AgeInv'
  BY <1>1, <1>2, <1>3, <1>6, <1>7, <1>8, <1>9 DEF AgeInv
<1>11. QED
  BY <1>4, <1>10 DEF JournalInv

LEMMA JournalInit == Init => JournalInv
<1> SUFFICES ASSUME Init PROVE JournalInv
  OBVIOUS
<1>1. /\ now = 0 /\ scorer = "down" /\ prices = [s \in Symbols |-> None] /\ sequence = 0
      /\ previousSequence = None /\ journal = <<>> /\ ~ended
  BY DEF Init
<1>2. queue["raw"] = <<>> /\ Len(queue["raw"]) = 0 /\ DOMAIN queue["raw"] = {}
  BY DEF Init, Topics
<1>3. Len(journal) = 0 /\ DOMAIN journal = {} /\ Own = 0 /\ Before = 0 /\ ~InHand
  BY <1>1 DEF Own, Before, InHand
<1>4. ScorerInv
  BY <1>1, <1>2, <1>3 DEF ScorerInv
<1>5. AgeInv /\ ExplainInv
  BY <1>2, <1>3 DEF AgeInv, ExplainInv
<1>6. PriceInv
  <2>1. (Before + 1)..Len(journal) = {}
    BY <1>3
  <2>2. \A s \in Symbols : LastPrice(journal, Before + 1, Len(journal), s, None)
    BY <2>1 DEF LastPrice
  <2>3. QED
    BY <1>1, <2>2 DEF PriceInv
<1>7. QED
  BY <1>4, <1>5, <1>6 DEF JournalInv

\* Every step keeps the invariant of the journal.
LEMMA JournalStep == ASSUME IInv, [Next]_vars PROVE JournalInv'
<1>1. TypeOK /\ ScorerInv
  BY DEF IInv
<1>2. ASSUME UNCHANGED <<now, scoring, journal>>, queue'["raw"] = queue["raw"] PROVE JournalInv'
  BY <1>1, <1>2, RawStep DEF ScorerInv
<1>3. ASSUME NEW s \in Symbols, StartPublisher(s) PROVE JournalInv'
  BY <1>2, <1>3 DEF StartPublisher
<1>4. ASSUME NEW m \in Messages("raw"), m = Invalid \/ m.at = now, Deliver("raw", m),
             UNCHANGED <<now, scoring, journal>>
      PROVE  JournalInv'
  <2>1. CASE queue'["raw"] = queue["raw"]
    BY <1>2, <1>4, <2>1
  <2>2. CASE Subscribed("raw") /\ Grown(queue["raw"], queue'["raw"], m)
    <3>1. QueuesOK'
      BY <1>1, <1>4, Delivered DEF Topics
    <3>2. /\ DOMAIN queue'["raw"] = 1..Len(queue'["raw"]) /\ Len(queue["raw"]) \in Nat
          /\ DOMAIN queue["raw"] = 1..Len(queue["raw"])
      BY <1>1, <3>1, QueueFacts DEF QueuesOK, Topics
    <3>3. ASSUME NEW i \in DOMAIN queue'["raw"], queue'["raw"][i] # Invalid
          PROVE  \/ \E j \in DOMAIN queue["raw"] : queue["raw"][j] = queue'["raw"][i]
                 \/ scorer # "down" /\ queue'["raw"][i].at = now
      <4>1. CASE i = Len(queue'["raw"])
        BY <1>4, <2>2, <3>3, <4>1 DEF Subscribed, Grown
      <4>2. CASE i # Len(queue'["raw"])
        <5>1. i \in 1..Len(queue["raw"])
          BY <2>2, <3>2, <3>3, <4>2 DEF Grown
        <5>2. QED
          BY <2>2, <3>2, <5>1 DEF Grown
      <4>3. QED
        BY <4>1, <4>2
    <3>4. scorer # "down"
      BY <2>2 DEF Subscribed
    <3>5. QED
      BY <1>4, <3>3, <3>4, RawStep DEF scoring
  <2>3. QED
    BY <1>1, <1>4, <2>1, <2>2, Delivered DEF Topics
<1>5. CASE Publish
  <2> DEFINE price == Prices[(publisher.published % Len(Prices)) + 1]
             tick == [symbol |-> publisher.symbol, at |-> now, price |-> price]
  <2>1. price \in Nat
    BY <1>1, PublishedPrice
  <2>2. publisher.symbol \in Symbols /\ now \in Nat
    BY <1>1, <1>5 DEF Publish, TypeOK
  <2>3. Deliver("raw", tick) /\ UNCHANGED <<now, scoring, journal>>
    BY <1>5 DEF Publish
  <2> HIDE DEF price
  <2>4. tick \in Messages("raw") /\ tick.at = now
    BY <2>1, <2>2 DEF Messages, Ticks
  <2> HIDE DEF tick
  <2>5. QED
    BY <1>4, <2>3, <2>4
<1>6. CASE StopPublisher
  <2>1. Cut(queue["raw"], queue'["raw"]) /\ QueuesOK'
    BY <1>1, <1>6, HungUp DEF StopPublisher, Topics
  <2>2. /\ DOMAIN queue'["raw"] = 1..Len(queue'["raw"]) /\ Len(queue'["raw"]) \in Nat
        /\ DOMAIN queue["raw"] = 1..Len(queue["raw"]) /\ Len(queue["raw"]) \in Nat
    BY <1>1, <2>1, QueueFacts DEF QueuesOK, Topics
  <2>3. \A i \in DOMAIN queue'["raw"] : i \in DOMAIN queue["raw"] /\ queue["raw"][i] = queue'["raw"][i]
    BY <2>1, <2>2 DEF Cut
  <2>4. scorer = "down" => Len(queue'["raw"]) = 0
    BY <1>1, <2>1, <2>2 DEF Cut, ScorerInv
  <2>5. UNCHANGED <<now, scoring, journal>>
    BY <1>6 DEF StopPublisher
  <2>6. QED
    BY <2>3, <2>4, <2>5, RawStep
<1>7. ASSUME NEW topic \in Topics, Stray(topic) PROVE JournalInv'
  <2>1. Invalid \in Messages(topic) /\ Deliver(topic, Invalid) /\ UNCHANGED <<now, scoring, journal>>
    BY <1>7 DEF Stray, Messages, Deliver
  <2>2. CASE topic = "raw"
    BY <1>4, <2>1, <2>2
  <2>3. CASE topic # "raw"
    <3>1. queue'["raw"] = queue["raw"]
      BY <1>1, <2>1, <2>3, Delivered DEF Topics
    <3>2. QED
      BY <1>2, <2>1, <3>1
  <2>4. QED
    BY <2>2, <2>3
<1>8. CASE Observe \/ ObserveInvalid
  <2>1. queue["scored"] # <<>> /\ Take("scored") /\ UNCHANGED <<now, scoring, journal>>
    BY <1>8 DEF Observe, ObserveInvalid, CanRead
  <2>2. queue'["raw"] = queue["raw"]
    BY <1>1, <2>1, Taken DEF Topics
  <2>3. QED
    BY <1>2, <2>1, <2>2
<1>9. CASE StopDashboard
  <2>1. UNCHANGED <<now, scoring, journal>> /\ queue'["raw"] = queue["raw"]
    BY <1>1, <1>9 DEF StopDashboard, TypeOK, QueuesOK
  <2>2. QED
    BY <1>2, <2>1
<1>10. CASE StartDashboard
  BY <1>2, <1>10 DEF StartDashboard
<1>11. ASSUME NEW failed \in BOOLEAN, Snapshot(failed) PROVE JournalInv'
  BY <1>2, <1>11 DEF Snapshot
<1>12. CASE UNCHANGED vars
  BY <1>2, <1>12 DEF vars
<1>13. CASE ScorerEnds
  BY <1>13, EndJournal
<1>14. QED
  BY <1>3, <1>5, <1>6, <1>7, <1>8, <1>9, <1>10, <1>11, <1>12, <1>13, StartJournal, ScoreJournal,
     PersistJournal, RepublishJournal, TickJournal DEF Next, Refuse, StopScorer

LEMMA ExplainedJournal == ASSUME IInv PROVE JournalExplains
<1> SUFFICES ASSUME NEW k \in DOMAIN journal
             PROVE  LET row == journal[k]
                        first == CHOOSE f \in 1..k : journal[f].sequence = 0
                                    /\ \A j \in (f + 1)..k : journal[j].sequence # 0
                        base == {j \in first..(k - 1) : journal[j].symbol = row.symbol}
                    IN  /\ row.sequence = k - first
                        /\ row.status = (IF k = first THEN "FIRST" ELSE "IN_ORDER")
                        /\ IF base = {} THEN row.previous = None /\ ~row.anomaly
                           ELSE \E j \in base : /\ \A i \in base : i <= j
                                   /\ row.previous = journal[j].price
                                   /\ row.anomaly = Exceeds(journal[j].price, row.price)
  BY DEF JournalExplains
<1> DEFINE row == journal[k]
           Begins(f) == journal[f].sequence = 0 /\ \A j \in (f + 1)..k : journal[j].sequence # 0
           first == CHOOSE f \in 1..k : Begins(f)
           base == {j \in first..(k - 1) : journal[j].symbol = row.symbol}
           start == k - row.sequence
<1>1. k \in 1..Len(journal) /\ Len(journal) \in Nat /\ row.sequence \in Nat
  BY JournalFacts
<1>2. /\ row.sequence < k /\ \A j \in start..k : journal[j].sequence = j - start
      /\ LastPrice(journal, start, k - 1, row.symbol, row.previous) /\ Judged(row)
  BY DEF IInv, ExplainInv, Explained, Start
<1>3. start \in 1..k /\ row.sequence = k - start
  BY <1>1, <1>2
<1>4. first = start
  <2> HIDE DEF start
  <2>1. Begins(start)
    <3>1. journal[start].sequence = 0
      BY <1>2, <1>3
    <3>2. ASSUME NEW j \in (start + 1)..k PROVE journal[j].sequence # 0
      <4>1. j \in start..k /\ j - start # 0
        BY <1>1, <1>3, <3>2
      <4>2. QED
        BY <1>2, <4>1
    <3>3. QED
      BY <3>1, <3>2
  <2>2. ASSUME NEW f \in 1..k, Begins(f) PROVE f = start
    <3>1. CASE f < start
      <4>1. start \in (f + 1)..k
        BY <1>1, <1>3, <2>2, <3>1
      <4>2. QED
        BY <2>1, <2>2, <4>1
    <3>2. CASE start < f
      <4>1. f \in (start + 1)..k
        BY <1>1, <1>3, <2>2, <3>2
      <4>2. QED
        BY <2>1, <2>2, <4>1
    <3>3. QED
      BY <1>1, <1>3, <3>1, <3>2
  <2>3. QED
    BY <1>3, <2>1, <2>2
<1> HIDE DEF first, start
<1>5. row.status = (IF k = first THEN "FIRST" ELSE "IN_ORDER")
  <2>1. k = first <=> row.sequence = 0
    BY <1>1, <1>3, <1>4
  <2>2. QED
    BY <1>2, <2>1 DEF Judged
<1>6. row.anomaly = (row.previous # None /\ Exceeds(row.previous, row.price))
  BY <1>2 DEF Judged
<1>7. /\ base = {} => row.previous = None
      /\ base # {} => \E j \in base : row.previous = journal[j].price /\ \A i \in base : i <= j
  BY <1>2, <1>4 DEF LastPrice
<1>8. CASE base = {}
  BY <1>3, <1>4, <1>5, <1>6, <1>7, <1>8 DEF first
<1>9. CASE base # {}
  <2>1. PICK j \in base : row.previous = journal[j].price /\ \A i \in base : i <= j
    BY <1>7, <1>9
  <2>2. j \in 1..Len(journal)
    BY <1>1, <1>3, <1>4, <2>1
  <2>3. row.previous # None
    BY <2>1, <2>2, JournalFacts, Limits
  <2>4. row.anomaly = Exceeds(journal[j].price, row.price)
    <3> DEFINE exceeds == Exceeds(row.previous, row.price)
    <3>1. exceeds \in BOOLEAN
      BY DEF Exceeds
    <3> HIDE DEF exceeds
    <3>2. row.anomaly = exceeds
      <4>1. row.anomaly = (row.previous # None /\ exceeds)
        BY <1>6 DEF exceeds
      <4>2. QED
        BY <2>3, <3>1, <4>1
    <3>3. QED
      BY <2>1, <3>2 DEF exceeds
  <2>5. QED
    BY <1>3, <1>4, <1>5, <1>9, <2>1, <2>4 DEF first
<1>10. QED
  BY <1>8, <1>9

(***************************************************************************)
(* The feed and the journal.                                               *)
(***************************************************************************)
\* Where a recorded row is.
LEMMA PositionOf ==
    ASSUME NEW row, Recorded(row)
    PROVE  Position(row) \in DOMAIN journal /\ journal[Position(row)] = row
BY DEF Recorded, Position

LEMMA FeedFacts ==
    ASSUME IInv
    PROVE  /\ TypeOK /\ FeedInv
           /\ DOMAIN shown = 1..Len(shown) /\ Len(shown) \in Nat /\ shown \in Seq(Rows)
           /\ DOMAIN journal = 1..Len(journal) /\ Len(journal) \in Nat
           /\ DOMAIN queue["scored"] = 1..Len(queue["scored"]) /\ Len(queue["scored"]) \in Nat
           /\ \A i \in DOMAIN shown : Position(shown[i]) \in DOMAIN journal
           /\ \A i \in DOMAIN queue["scored"] :
                 queue["scored"][i] # Invalid => Position(queue["scored"][i].row) \in DOMAIN journal
<1>1. TypeOK /\ FeedInv
  BY DEF IInv
<1>2. /\ DOMAIN shown = 1..Len(shown) /\ Len(shown) \in Nat /\ shown \in Seq(Rows)
      /\ DOMAIN journal = 1..Len(journal) /\ Len(journal) \in Nat
  BY <1>1, Facts
<1>3. DOMAIN queue["scored"] = 1..Len(queue["scored"]) /\ Len(queue["scored"]) \in Nat
  BY <1>1, QueueFacts DEF Topics
<1>4. QED
  BY <1>1, <1>2, <1>3, PositionOf DEF FeedInv

\* The scored topic loses messages at either end, or gets one of a stranger.
LEMMA FeedKept ==
    ASSUME IInv, journal' = journal, shown' = shown, NEW off \in Nat,
           scorer' = "journaled" => scorer = "journaled",
           DOMAIN queue'["scored"] \subseteq Nat,
           \A i \in DOMAIN queue'["scored"] : queue'["scored"][i] # Invalid =>
              i + off \in DOMAIN queue["scored"] /\ queue'["scored"][i] = queue["scored"][i + off]
    PROVE  FeedInv'
<1>1. \A row : Position(row)' = Position(row) /\ Recorded(row)' = Recorded(row)
  BY DEF Position, Recorded
<1>2. FeedInv
  BY DEF IInv
<1> DEFINE old == queue["scored"]
           new == queue'["scored"]
<1>3. \A i \in DOMAIN new : new[i] # Invalid => Recorded(new[i].row)
  BY <1>2 DEF FeedInv
<1>4. \A i, j \in DOMAIN new :
         i < j /\ new[i] # Invalid /\ new[j] # Invalid => Position(new[i].row) < Position(new[j].row)
  <2>1. SUFFICES ASSUME NEW i \in DOMAIN new, NEW j \in DOMAIN new, i < j, new[i] # Invalid,
                        new[j] # Invalid
                 PROVE  Position(new[i].row) < Position(new[j].row)
    OBVIOUS
  <2>2. i + off < j + off
    BY <2>1
  <2>3. i + off \in DOMAIN old /\ new[i] = old[i + off] /\ j + off \in DOMAIN old
        /\ new[j] = old[j + off]
    BY <2>1
  <2>4. QED
    BY <1>2, <2>1, <2>2, <2>3 DEF FeedInv
<1>5. \A i \in DOMAIN shown, j \in DOMAIN new :
         new[j] # Invalid => Position(shown[i]) < Position(new[j].row)
  BY <1>2 DEF FeedInv
<1>6. scorer' = "journaled" =>
         \A i \in DOMAIN new : new[i] # Invalid => Position(new[i].row) < Len(journal)
  BY <1>2 DEF FeedInv
<1> HIDE DEF old, new
<1>7. (\A i \in DOMAIN queue["scored"] :
          queue["scored"][i] # Invalid => Recorded(queue["scored"][i].row))'
  BY <1>3 DEF new, Recorded
<1>8. QED
  BY <1>1, <1>2, <1>4, <1>5, <1>6, <1>7 DEF FeedInv, new, EventId

\* A row that was written stays where it is.
LEMMA PositionKept ==
    ASSUME IInv, Persist, NEW row, Recorded(row)
    PROVE  Recorded(row)' /\ Position(row)' = Position(row)
<1> DEFINE k == Position(row)
<1>1. k \in DOMAIN journal /\ journal[k] = row
  BY PositionOf
<1>2. DOMAIN journal' = 1..Len(journal') /\ DOMAIN journal = 1..Len(journal) /\ Len(journal) \in Nat
  BY NewRow, FeedFacts, JournalFacts, Facts
<1>3. /\ Len(journal') = Len(journal) + 1 /\ journal'[Len(journal')] = annotated
      /\ \A j \in DOMAIN journal : journal'[j] = journal[j]
  BY <1>2, NewRow DEF Grown
<1> HIDE DEF k
<1>4. k \in DOMAIN journal' /\ journal'[k] = row
  BY <1>1, <1>2, <1>3
<1>5. ASSUME NEW j \in DOMAIN journal', journal'[j] = row PROVE j = k
  <2>1. CASE j \in DOMAIN journal
    BY <1>1, <1>3, <1>5, <2>1, FeedFacts DEF FeedInv
  <2>2. CASE j \notin DOMAIN journal
    <3>1. j = Len(journal')
      BY <1>2, <1>3, <1>5, <2>2
    <3>2. annotated = journal[k]
      BY <1>1, <1>3, <1>5, <3>1
    <3>3. QED
      BY <1>1, <3>2, NewRow
  <2>3. QED
    BY <2>1, <2>2
<1>6. Position(row)' = k /\ Recorded(row)'
  BY <1>4, <1>5 DEF Position, Recorded
<1>7. QED
  BY <1>6 DEF k

LEMMA PersistFeed == ASSUME IInv, Persist PROVE FeedInv'
<1>1. UNCHANGED <<queue, shown>> /\ FeedInv
  BY FeedFacts DEF Persist, display
<1>2. DOMAIN journal' = 1..Len(journal') /\ DOMAIN journal = 1..Len(journal) /\ Len(journal) \in Nat
  BY NewRow, FeedFacts, JournalFacts, Facts
<1>3. /\ Len(journal') = Len(journal) + 1 /\ journal'[Len(journal')] = annotated
      /\ \A j \in DOMAIN journal : journal'[j] = journal[j]
  BY <1>2, NewRow DEF Grown
<1>4. (\A k, l \in DOMAIN journal : EventId(journal[k]) = EventId(journal[l]) => k = l)'
  <2>1. SUFFICES ASSUME NEW k \in DOMAIN journal', NEW l \in DOMAIN journal',
                        EventId(journal'[k]) = EventId(journal'[l])
                 PROVE  k = l
    BY DEF EventId
  <2>2. \A i \in DOMAIN journal' : i \in DOMAIN journal \/ i = Len(journal')
    BY <1>2, <1>3
  <2>3. CASE k \in DOMAIN journal /\ l \in DOMAIN journal
    BY <1>1, <1>3, <2>1, <2>3 DEF FeedInv
  <2>4. CASE k = Len(journal') /\ l \in DOMAIN journal
    BY <1>3, <2>1, <2>4, NewRow
  <2>5. CASE l = Len(journal') /\ k \in DOMAIN journal
    BY <1>3, <2>1, <2>5, NewRow
  <2>6. QED
    BY <2>2, <2>3, <2>4, <2>5
<1>5. /\ \A i \in DOMAIN shown : Recorded(shown[i])
      /\ \A i \in DOMAIN queue["scored"] :
            queue["scored"][i] # Invalid => Recorded(queue["scored"][i].row)
  BY <1>1 DEF FeedInv
<1>6. \A i \in DOMAIN shown : /\ Recorded(shown[i])' /\ Position(shown[i])' < Len(journal')
                              /\ Position(shown[i])' = Position(shown[i])
  <2>1. ASSUME NEW i \in DOMAIN shown
        PROVE  /\ Recorded(shown[i])' /\ Position(shown[i])' < Len(journal')
               /\ Position(shown[i])' = Position(shown[i])
    <3> DEFINE row == shown[i]
    <3>1. Recorded(row) /\ Position(row) \in DOMAIN journal
      BY <1>5, PositionOf
    <3>2. row' = row
      BY <1>1
    <3> HIDE DEF row
    <3>3. Recorded(row)' /\ Position(row)' = Position(row)
      BY <3>1, <3>2, PositionKept DEF Recorded, Position
    <3>4. Position(row)' < Len(journal')
      BY <1>2, <1>3, <3>1, <3>3
    <3>5. QED
      BY <3>3, <3>4 DEF row
  <2>2. QED
    BY <2>1
<1>7. \A i \in DOMAIN queue["scored"] : queue["scored"][i] # Invalid =>
         /\ Recorded(queue["scored"][i].row)' /\ Position(queue["scored"][i].row)' < Len(journal')
         /\ Position(queue["scored"][i].row)' = Position(queue["scored"][i].row)
  <2>1. ASSUME NEW i \in DOMAIN queue["scored"], queue["scored"][i] # Invalid
        PROVE  /\ Recorded(queue["scored"][i].row)'
               /\ Position(queue["scored"][i].row)' < Len(journal')
               /\ Position(queue["scored"][i].row)' = Position(queue["scored"][i].row)
    <3> DEFINE row == queue["scored"][i].row
    <3>1. Recorded(row) /\ Position(row) \in DOMAIN journal
      BY <1>5, <2>1, PositionOf
    <3>2. row' = row
      BY <1>1
    <3> HIDE DEF row
    <3>3. Recorded(row)' /\ Position(row)' = Position(row)
      BY <3>1, <3>2, PositionKept DEF Recorded, Position
    <3>4. Position(row)' < Len(journal')
      BY <1>2, <1>3, <3>1, <3>3
    <3>5. QED
      BY <3>3, <3>4 DEF row
  <2>2. QED
    BY <2>1
<1>8. \A i, j \in DOMAIN shown : i < j => Position(shown[i])' < Position(shown[j])'
  BY <1>1, <1>6 DEF FeedInv
<1>9. \A i, j \in DOMAIN queue["scored"] :
         i < j /\ queue["scored"][i] # Invalid /\ queue["scored"][j] # Invalid =>
            Position(queue["scored"][i].row)' < Position(queue["scored"][j].row)'
  BY <1>1, <1>7 DEF FeedInv
<1>10. \A i \in DOMAIN shown, j \in DOMAIN queue["scored"] :
          queue["scored"][j] # Invalid => Position(shown[i])' < Position(queue["scored"][j].row)'
  BY <1>1, <1>6, <1>7 DEF FeedInv
<1>11. QED
  BY <1>1, <1>4, <1>6, <1>7, <1>8, <1>9, <1>10 DEF FeedInv

\* The row in hand is the last one of the journal, and none of it waits yet.
LEMMA LastRow ==
    ASSUME IInv, scorer = "journaled"
    PROVE  Recorded(annotated) /\ Position(annotated) = Len(journal)
<1>1. annotated = journal[Len(journal)] /\ Len(journal) \in DOMAIN journal
  <2>1. annotated = journal[Len(journal)] /\ Len(journal) # 0
    BY DEF IInv, ScorerInv
  <2>2. QED
    BY <2>1, FeedFacts
<1>2. \A k \in DOMAIN journal : journal[k] = annotated => k = Len(journal)
  BY <1>1, FeedFacts DEF FeedInv
<1>3. QED
  BY <1>1, <1>2 DEF Recorded, Position

LEMMA RepublishFeed == ASSUME IInv, Republish PROVE FeedInv'
<1> DEFINE message == [row |-> annotated, sent |-> now]
           old == queue["scored"]
           new == queue'["scored"]
<1>1. /\ scorer = "journaled" /\ scorer' = "receiving" /\ UNCHANGED <<journal, shown>> /\ FeedInv
  BY FeedFacts DEF Republish, display
<1>2. message \in Messages("scored") /\ message.row = annotated
  BY <1>1, FeedFacts DEF TypeOK, Messages, Shipments
<1>3. Deliver("scored", message)
  BY DEF Republish
<1> HIDE DEF message
<1>4. QueuesOK' /\ (new = old \/ Grown(old, new, message))
  BY <1>2, <1>3, FeedFacts, Delivered DEF Topics
<1>5. /\ DOMAIN new = 1..Len(new) /\ Len(new) \in Nat /\ DOMAIN old = 1..Len(old) /\ Len(old) \in Nat
  BY <1>4, FeedFacts DEF QueuesOK, Topics
<1>6. CASE new = old
  <2>1. 0 \in Nat /\ \A i \in DOMAIN new : i + 0 \in DOMAIN old /\ new[i] = old[i + 0]
    BY <1>5, <1>6
  <2>2. QED
    BY <1>1, <1>5, <2>1, FeedKept
<1>7. CASE Grown(old, new, message)
  <2>1. Recorded(annotated) /\ Position(annotated) = Len(journal)
    BY <1>1, LastRow
  <2>2. /\ Len(new) = Len(old) + 1 /\ new[Len(new)] = message
        /\ \A i \in DOMAIN old : new[i] = old[i]
    BY <1>5, <1>7 DEF Grown
  <2>3. \A i \in DOMAIN new : i \in DOMAIN old \/ i = Len(new)
    BY <1>5, <2>2
  <2>4. \A i \in DOMAIN old : i \in DOMAIN new /\ i < Len(new)
    BY <1>5, <2>2
  <2> HIDE DEF old, new
  <2>5. /\ \A i \in DOMAIN old : old[i] # Invalid =>
              Recorded(old[i].row) /\ Position(old[i].row) < Len(journal)
        /\ \A i, j \in DOMAIN old : i < j /\ old[i] # Invalid /\ old[j] # Invalid =>
              Position(old[i].row) < Position(old[j].row)
        /\ \A i \in DOMAIN shown : Position(shown[i]) < Len(journal)
        /\ \A i \in DOMAIN shown, j \in DOMAIN old : old[j] # Invalid =>
              Position(shown[i]) < Position(old[j].row)
    BY <1>1 DEF FeedInv, old
  <2>6. \A i \in DOMAIN new : new[i] # Invalid => Recorded(new[i].row)
    BY <1>2, <2>1, <2>2, <2>3, <2>5
  <2>7. ASSUME NEW i \in DOMAIN new, NEW j \in DOMAIN new, i < j, new[i] # Invalid, new[j] # Invalid
        PROVE  Position(new[i].row) < Position(new[j].row)
    <3>1. i \in DOMAIN old
      BY <1>5, <2>3, <2>7
    <3>2. CASE j \in DOMAIN old
      BY <2>2, <2>5, <2>7, <3>1, <3>2
    <3>3. CASE j = Len(new)
      BY <1>2, <2>1, <2>2, <2>5, <2>7, <3>1, <3>3
    <3>4. QED
      BY <2>3, <3>2, <3>3
  <2>8. \A i \in DOMAIN shown, j \in DOMAIN new :
           new[j] # Invalid => Position(shown[i]) < Position(new[j].row)
    BY <1>2, <2>1, <2>2, <2>3, <2>5
  <2>9. \A row : Position(row)' = Position(row) /\ Recorded(row)' = Recorded(row)
    BY <1>1 DEF Position, Recorded
  <2>10. (\A i \in DOMAIN queue["scored"] :
             queue["scored"][i] # Invalid => Recorded(queue["scored"][i].row))'
    BY <1>1, <2>6 DEF new, Recorded
  <2>11. QED
    BY <1>1, <2>7, <2>8, <2>9, <2>10 DEF FeedInv, new, EventId
<1>8. QED
  BY <1>4, <1>6, <1>7

\* The row that is shown next.
LEMMA NextShown ==
    ASSUME IInv, Observe
    PROVE  LET row == Head(queue["scored"]).row IN
           /\ Recorded(row) /\ row \in Rows /\ journal' = journal /\ scorer' = scorer
           /\ shown' = Append(shown, row)
           /\ Len(shown') = Len(shown) + 1 /\ shown'[Len(shown')] = row
           /\ DOMAIN shown' = 1..Len(shown') /\ \A i \in DOMAIN shown : shown'[i] = shown[i]
           /\ \A i \in DOMAIN shown : Position(shown[i]) < Position(row)
<1> DEFINE message == Head(queue["scored"])
           row == message.row
<1>1. /\ message # Invalid /\ queue["scored"] # <<>> /\ Take("scored")
      /\ shown' = Append(shown, row) /\ UNCHANGED <<journal, scorer>>
  BY DEF Observe, CanRead, scoring
<1>2. /\ message = queue["scored"][1] /\ 1 \in DOMAIN queue["scored"] /\ message \in Messages("scored")
  BY <1>1, FeedFacts, Taken DEF Topics
<1>3. row \in Rows
  BY <1>1, <1>2 DEF Messages, Shipments
<1>4. Recorded(row) /\ \A i \in DOMAIN shown : Position(shown[i]) < Position(row)
  BY <1>1, <1>2, FeedFacts DEF FeedInv
<1>5. /\ Len(shown') = Len(shown) + 1 /\ shown'[Len(shown')] = row
      /\ \A i \in DOMAIN shown : shown'[i] = shown[i]
  BY <1>1, <1>3, FeedFacts, AppendProperties
<1>6. DOMAIN shown' = 1..Len(shown')
  BY <1>1, <1>3, FeedFacts
<1>7. QED
  BY <1>1, <1>3, <1>4, <1>5, <1>6

LEMMA ObserveFeed == ASSUME IInv, Observe PROVE FeedInv'
<1> DEFINE row == Head(queue["scored"]).row
           old == queue["scored"]
           new == queue'["scored"]
<1>1. /\ Recorded(row) /\ journal' = journal /\ scorer' = scorer
      /\ Len(shown') = Len(shown) + 1 /\ shown'[Len(shown')] = row
      /\ DOMAIN shown' = 1..Len(shown') /\ \A i \in DOMAIN shown : shown'[i] = shown[i]
      /\ \A i \in DOMAIN shown : Position(shown[i]) < Position(row)
  BY NextShown
<1>2. FeedInv /\ TypeOK
  BY FeedFacts
<1>3. Head(old) # Invalid /\ old # <<>> /\ Take("scored")
  BY DEF Observe, CanRead
<1>4. QueuesOK' /\ Advanced(old, new) /\ Head(old) = old[1] /\ Len(old) # 0
  BY <1>2, <1>3, Taken DEF Topics
<1>5. /\ DOMAIN new = 1..Len(new) /\ Len(new) \in Nat /\ DOMAIN old = 1..Len(old) /\ Len(old) \in Nat
  BY <1>4, FeedFacts DEF QueuesOK, Topics
<1>6. 1 \in DOMAIN old
      /\ \A i \in DOMAIN new : i + 1 \in DOMAIN old /\ 1 < i + 1 /\ new[i] = old[i + 1]
  BY <1>4, <1>5 DEF Advanced
<1>7. \A i \in DOMAIN shown' : i \in DOMAIN shown \/ i = Len(shown')
  BY <1>1, FeedFacts
<1> HIDE DEF row
<1>8. \A i \in DOMAIN shown' : Recorded(shown'[i])
  BY <1>1, <1>2, <1>7 DEF FeedInv
<1>9. ASSUME NEW i \in DOMAIN shown', NEW j \in DOMAIN shown', i < j
      PROVE  Position(shown'[i]) < Position(shown'[j])
  <2>1. i \in DOMAIN shown
    BY <1>1, <1>7, <1>9, FeedFacts
  <2>2. CASE j \in DOMAIN shown
    BY <1>1, <1>2, <1>9, <2>1, <2>2 DEF FeedInv
  <2>3. CASE j = Len(shown')
    BY <1>1, <2>1, <2>3
  <2>4. QED
    BY <1>7, <2>2, <2>3
<1>10. \A i \in DOMAIN new : new[i] # Invalid =>
          Recorded(new[i].row) /\ Position(row) < Position(new[i].row)
  <2>1. ASSUME NEW i \in DOMAIN new, new[i] # Invalid
        PROVE  Recorded(new[i].row) /\ Position(row) < Position(new[i].row)
    <3>1. i + 1 \in DOMAIN old /\ 1 < i + 1 /\ new[i] = old[i + 1] /\ old[1] # Invalid
      BY <1>3, <1>4, <1>6, <2>1
    <3>2. Recorded(old[i + 1].row) /\ Position(old[1].row) < Position(old[i + 1].row)
      BY <1>2, <1>6, <2>1, <3>1 DEF FeedInv
    <3>3. QED
      BY <1>4, <3>1, <3>2 DEF row
  <2>2. QED
    BY <2>1
<1>11. ASSUME NEW i \in DOMAIN new, NEW j \in DOMAIN new, i < j, new[i] # Invalid, new[j] # Invalid
       PROVE  Position(new[i].row) < Position(new[j].row)
  <2>1. /\ i + 1 \in DOMAIN old /\ new[i] = old[i + 1] /\ j + 1 \in DOMAIN old
        /\ new[j] = old[j + 1] /\ i + 1 < j + 1
    BY <1>5, <1>6, <1>11
  <2>2. QED
    BY <1>2, <1>11, <2>1 DEF FeedInv
<1>12. \A i \in DOMAIN shown', j \in DOMAIN new :
          new[j] # Invalid => Position(shown'[i]) < Position(new[j].row)
  <2>1. ASSUME NEW i \in DOMAIN shown', NEW j \in DOMAIN new, new[j] # Invalid
        PROVE  Position(shown'[i]) < Position(new[j].row)
    <3>1. CASE i = Len(shown')
      BY <1>1, <1>10, <2>1, <3>1
    <3>2. CASE i \in DOMAIN shown
      BY <1>1, <1>2, <1>6, <2>1, <3>2 DEF FeedInv
    <3>3. QED
      BY <1>7, <3>1, <3>2
  <2>2. QED
    BY <2>1
<1>13. scorer' = "journaled" =>
          /\ \A i \in DOMAIN shown' : Position(shown'[i]) < Len(journal)
          /\ \A i \in DOMAIN new : new[i] # Invalid => Position(new[i].row) < Len(journal)
  <2>1. scorer' = "journaled" =>
           \A i \in DOMAIN old : old[i] # Invalid => Position(old[i].row) < Len(journal)
    BY <1>1, <1>2 DEF FeedInv
  <2>2. scorer' = "journaled" => Position(row) < Len(journal)
    BY <1>3, <1>4, <1>6, <2>1 DEF row
  <2>3. QED
    BY <1>1, <1>2, <1>6, <1>7, <2>1, <2>2 DEF FeedInv
<1>14. \A r : Position(r)' = Position(r) /\ Recorded(r)' = Recorded(r)
  BY <1>1 DEF Position, Recorded
<1> HIDE DEF old, new
<1>15. /\ (\A i \in DOMAIN queue["scored"] :
             queue["scored"][i] # Invalid => Recorded(queue["scored"][i].row))'
       /\ (\A i \in DOMAIN shown : Recorded(shown[i]))'
  BY <1>1, <1>8, <1>10 DEF new, Recorded
<1>16. QED
  BY <1>1, <1>2, <1>9, <1>11, <1>12, <1>13, <1>14, <1>15 DEF FeedInv, new, EventId

LEMMA FeedInit == Init => FeedInv
<1> SUFFICES ASSUME Init PROVE FeedInv
  OBVIOUS
<1>1. /\ DOMAIN journal = {} /\ DOMAIN shown = {} /\ DOMAIN queue["scored"] = {}
      /\ scorer = "down"
  BY DEF Init, Topics
<1>2. QED
  BY <1>1 DEF FeedInv

\* Every step keeps the rows in the order of the journal.
LEMMA FeedStep == ASSUME IInv, [Next]_vars PROVE FeedInv'
<1> DEFINE old == queue["scored"]
           new == queue'["scored"]
<1>1. TypeOK
  BY FeedFacts
<1>2. /\ DOMAIN old = 1..Len(old) /\ Len(old) \in Nat
      /\ QueuesOK' => DOMAIN new = 1..Len(new) /\ Len(new) \in Nat
  BY FeedFacts DEF QueuesOK, Topics
<1>3. ASSUME journal' = journal, shown' = shown, scorer' = "journaled" => scorer = "journaled",
             QueuesOK', Cut(old, new)
      PROVE  FeedInv'
  <2>1. \A i \in DOMAIN new : i \in Nat /\ i + 0 \in DOMAIN old /\ new[i] = old[i + 0]
    BY <1>2, <1>3 DEF Cut
  <2>2. 0 \in Nat /\ DOMAIN new \subseteq Nat
    BY <2>1
  <2>3. QED
    BY <1>3, <2>1, <2>2, FeedKept
<1>4. ASSUME journal' = journal, shown' = shown, scorer' = "journaled" => scorer = "journaled",
             QueuesOK', new = old
      PROVE  FeedInv'
  <2>1. Cut(old, new)
    BY <1>2, <1>4 DEF Cut
  <2>2. QED
    BY <1>3, <1>4, <2>1
<1>5. QueuesOK'
  BY <1>1, TypeStep DEF TypeOK
<1> HIDE DEF old, new
<1>6. ASSUME NEW s \in Symbols, StartPublisher(s) PROVE FeedInv'
  BY <1>4, <1>5, <1>6 DEF StartPublisher, scoring, display, old, new
<1>7. CASE Publish
  <2> DEFINE price == Prices[(publisher.published % Len(Prices)) + 1]
             tick == [symbol |-> publisher.symbol, at |-> now, price |-> price]
  <2>1. price \in Nat /\ publisher.symbol \in Symbols /\ now \in Nat
    BY <1>1, <1>7, PublishedPrice DEF Publish, TypeOK
  <2>2. Deliver("raw", tick) /\ UNCHANGED <<scoring, journal, display>>
    BY <1>7 DEF Publish
  <2> HIDE DEF price
  <2>3. tick \in Messages("raw")
    BY <2>1 DEF Messages, Ticks
  <2> HIDE DEF tick
  <2>4. new = old
    BY <1>1, <2>2, <2>3, Delivered DEF Topics, old, new
  <2>5. QED
    BY <1>4, <1>5, <2>2, <2>4 DEF scoring, display
<1>8. CASE StopPublisher
  <2>1. new = old
    BY <1>1, <1>8, HungUp DEF StopPublisher, Topics, old, new
  <2>2. QED
    BY <1>4, <1>5, <1>8, <2>1 DEF StopPublisher, scoring, display
<1>9. ASSUME NEW topic \in Topics, Stray(topic) PROVE FeedInv'
  <2>1. Invalid \in Messages(topic) /\ Deliver(topic, Invalid)
        /\ UNCHANGED <<scoring, journal, display>>
    BY <1>9 DEF Stray, Messages, Deliver
  <2>2. /\ \A other \in Topics \ {topic} : queue'[other] = queue[other]
        /\ queue'[topic] = queue[topic] \/ Grown(queue[topic], queue'[topic], Invalid)
    BY <1>1, <2>1, Delivered
  <2>3. CASE new = old
    BY <1>4, <1>5, <2>1, <2>3 DEF scoring, display
  <2>4. CASE Grown(old, new, Invalid)
    <3>1. \A i \in DOMAIN new : i \in Nat /\ (i \in DOMAIN old \/ i = Len(new))
      BY <1>2, <1>5, <2>4 DEF Grown
    <3>2. \A i \in DOMAIN new : new[i] # Invalid => i \in DOMAIN old /\ new[i] = old[i] /\ i + 0 = i
      BY <1>2, <2>4, <3>1 DEF Grown
    <3>3. 0 \in Nat /\ DOMAIN new \subseteq Nat
          /\ \A i \in DOMAIN new : new[i] # Invalid => i + 0 \in DOMAIN old /\ new[i] = old[i + 0]
      BY <3>1, <3>2
    <3>4. QED
      BY <2>1, <3>3, FeedKept DEF scoring, display, old, new
  <2>5. QED
    BY <2>2, <2>3, <2>4 DEF Topics, old, new
<1>10. CASE StartScorer
  BY <1>4, <1>5, <1>10 DEF StartScorer, display, old, new
<1>11. CASE Score
  <2>1. new = old
    BY <1>1, <1>11, Taken DEF Score, Topics, old, new
  <2>2. QED
    BY <1>4, <1>5, <1>11, <2>1 DEF Score, display
<1>12. CASE ScorerEnds
  <2>1. Cut(old, new)
    BY <1>1, <1>12, Emptied DEF old, new
  <2>2. QED
    BY <1>3, <1>5, <1>12, <2>1 DEF ScorerEnds, display
<1>13. CASE StartDashboard
  BY <1>4, <1>5, <1>13 DEF StartDashboard, scoring, old, new
<1>14. CASE ObserveInvalid
  <2>1. Take("scored") /\ old # <<>> /\ UNCHANGED <<scoring, journal, shown>>
    BY <1>14 DEF ObserveInvalid, CanRead, old
  <2>2. Advanced(old, new)
    BY <1>1, <2>1, Taken DEF Topics, old, new
  <2>3. \A i \in DOMAIN new : i \in Nat /\ i + 1 \in DOMAIN old /\ new[i] = old[i + 1]
    BY <1>2, <1>5, <2>2 DEF Advanced
  <2>4. 1 \in Nat /\ DOMAIN new \subseteq Nat
    BY <2>3
  <2>5. QED
    BY <2>1, <2>3, <2>4, FeedKept DEF scoring, old, new
<1>15. CASE StopDashboard
  <2>1. new = <<>> /\ UNCHANGED <<scoring, journal, shown>>
    BY <1>1, <1>15 DEF StopDashboard, TypeOK, QueuesOK, Topics, new
  <2>2. Cut(old, new)
    BY <1>2, <2>1 DEF Cut
  <2>3. QED
    BY <1>3, <1>5, <2>1, <2>2 DEF scoring
<1>16. ASSUME NEW failed \in BOOLEAN, Snapshot(failed) PROVE FeedInv'
  BY <1>4, <1>5, <1>16 DEF Snapshot, scoring, old, new
<1>17. CASE Tick
  BY <1>4, <1>5, <1>17 DEF Tick, display, old, new
<1>18. CASE UNCHANGED vars
  BY <1>4, <1>5, <1>18 DEF vars, scoring, display, old, new
<1>19. QED
  BY <1>6, <1>7, <1>8, <1>9, <1>10, <1>11, <1>12, <1>13, <1>14, <1>15, <1>16, <1>17, <1>18,
     PersistFeed, RepublishFeed, ObserveFeed DEF Next, Refuse, StopScorer

\* Every step is one of the lossy feed, or none.
LEMMA FeedRefines == ASSUME IInv, [Next]_vars PROVE [Contract!Next]_Contract!vars
<1> DEFINE places == [i \in DOMAIN shown |-> Position(shown[i])]
<1>1. ASSUME journal' = journal, shown' = shown PROVE [Contract!Next]_Contract!vars
  <2>1. places' = places
    BY <1>1 DEF Position
  <2>2. QED
    BY <1>1, <2>1 DEF Contract!vars
<1>2. CASE Persist
  <2>1. /\ Len(journal') = Len(journal) + 1 /\ \A k \in DOMAIN journal : journal'[k] = journal[k]
    BY <1>2, NewRow, FeedFacts DEF Grown
  <2>2. shown' = shown
    BY <1>2 DEF Persist, display
  <2>3. ASSUME NEW i \in DOMAIN shown PROVE Position(shown[i])' = Position(shown[i])
    <3> DEFINE row == shown[i]
    <3>1. Recorded(row) /\ row' = row
      BY <2>2, FeedFacts DEF FeedInv
    <3> HIDE DEF row
    <3>2. Position(row)' = Position(row)
      BY <1>2, <3>1, PositionKept DEF Position
    <3>3. QED
      BY <3>2 DEF row
  <2>4. places' = places
    BY <2>2, <2>3
  <2>5. QED
    BY <2>1, <2>4 DEF Contract!Next, Contract!Record
<1>3. CASE Observe
  <2> DEFINE row == Head(queue["scored"]).row
  <2>1. /\ Recorded(row) /\ journal' = journal
        /\ Len(shown') = Len(shown) + 1 /\ shown'[Len(shown')] = row
        /\ DOMAIN shown' = 1..Len(shown') /\ \A i \in DOMAIN shown : shown'[i] = shown[i]
        /\ \A i \in DOMAIN shown : Position(shown[i]) < Position(row)
    BY <1>3, NextShown
  <2> HIDE DEF row
  <2> DEFINE k == Position(row)
             more == [i \in DOMAIN shown' |-> Position(shown'[i])]
             n == Len(shown)
  <2>2. k \in DOMAIN journal
    BY <2>1, PositionOf
  <2>3. places' = more
    BY <2>1 DEF Position
  <2>4. n \in Nat /\ DOMAIN shown = 1..n /\ DOMAIN shown' = 1..(n + 1) /\ shown'[n + 1] = row
    BY <2>1, FeedFacts
  <2>5. \A i \in 1..n : Position(shown[i]) \in Nat
    BY <2>4, FeedFacts
  <2>6. k \in Nat
    BY <2>2, FeedFacts
  <2>7. places \in Seq(Nat) /\ Len(places) = n /\ \A i \in 1..n : places[i] = Position(shown[i])
    BY <2>4, <2>5
  <2>8. more \in Seq(Nat) /\ Len(more) = n + 1 /\ more[n + 1] = k
        /\ \A i \in 1..n : more[i] = places[i]
    <3>1. \A i \in 1..n : i \in 1..(n + 1) /\ more[i] = places[i] /\ more[i] \in Nat
      BY <2>1, <2>4, <2>5
    <3>2. more[n + 1] = k /\ n + 1 \in 1..(n + 1)
      BY <2>4
    <3>3. \A i \in 1..(n + 1) : i \in 1..n \/ i = n + 1
      BY <2>4
    <3>4. \A i \in 1..(n + 1) : more[i] \in Nat
      BY <2>6, <3>1, <3>2, <3>3
    <3>5. more = [i \in 1..(n + 1) |-> more[i]] /\ n + 1 \in Nat
      BY <2>4
    <3> HIDE DEF more
    <3>6. more \in Seq(Nat) /\ Len(more) = n + 1
      BY <3>4, <3>5
    <3>7. QED
      BY <3>1, <3>2, <3>6
  <2> HIDE DEF places, more, k, n
  <2>9. more = Append(places, k)
    <3>1. /\ Append(places, k) \in Seq(Nat) /\ Len(Append(places, k)) = n + 1
          /\ Append(places, k)[n + 1] = k
          /\ \A i \in 1..n : Append(places, k)[i] = places[i]
      BY <2>4, <2>6, <2>7, AppendProperties DEF n
    <3>2. n + 1 \in Nat /\ \A i \in 1..(n + 1) : i \in 1..n \/ i = n + 1
      BY <2>4 DEF n
    <3>3. \A i \in 1..(n + 1) : more[i] = Append(places, k)[i]
      BY <2>8, <3>1, <3>2
    <3>4. QED
      BY <2>8, <3>1, <3>3, SeqEqual
  <2>10. \A i \in DOMAIN places : places[i] < k
    BY <2>1, <2>4, <2>7 DEF k, places
  <2>11. Contract!Show(k)
    BY <2>1, <2>3, <2>9, <2>10 DEF Contract!Show, places
  <2>12. QED
    BY <2>2, <2>11 DEF Contract!Next
<1>4. CASE Score \/ Republish \/ StopPublisher \/ StartScorer \/ Publish \/ ScorerEnds
  BY <1>1, <1>4 DEF Score, Republish, StopPublisher, StartScorer, Publish, ScorerEnds, display
<1>5. CASE StartDashboard \/ ObserveInvalid \/ StopDashboard \/ Tick \/ UNCHANGED vars
  BY <1>1, <1>5 DEF StartDashboard, ObserveInvalid, StopDashboard, Tick, vars, display
<1>6. ASSUME NEW s \in Symbols, StartPublisher(s) PROVE [Contract!Next]_Contract!vars
  BY <1>1, <1>6 DEF StartPublisher, display
<1>7. ASSUME NEW failed \in BOOLEAN, Snapshot(failed) PROVE [Contract!Next]_Contract!vars
  BY <1>1, <1>7 DEF Snapshot
<1>8. ASSUME NEW topic \in Topics, Stray(topic) PROVE [Contract!Next]_Contract!vars
  BY <1>1, <1>8 DEF Stray, display
<1>9. QED
  BY <1>2, <1>3, <1>4, <1>5, <1>6, <1>7, <1>8 DEF Next, Refuse, StopScorer

(***************************************************************************)
(* How old the latest tick of the panel can be.                            *)
(***************************************************************************)
LEMMA Products ==
    /\ \A r, a \in Nat : r * a \in Nat
    /\ \A r, a, b \in Nat : r * (a + b) = r * a + r * b
    /\ \A r, a, b \in Nat : a <= b => r * a <= r * b
<1>1. \A r, a \in Nat : r * a \in Nat
  OBVIOUS
<1>2. \A r, a, b \in Nat : r * (a + b) = r * a + r * b
  OBVIOUS
<1>3. ASSUME NEW r \in Nat, NEW a \in Nat, NEW b \in Nat, a <= b PROVE r * a <= r * b
  <2>1. b - a \in Nat /\ b = a + (b - a)
    BY <1>3
  <2>2. r * b = r * a + r * (b - a)
    BY <1>2, <2>1
  <2>3. r * a \in Nat /\ r * (b - a) \in Nat /\ r * b \in Nat
    BY <1>1, <2>1
  <2>4. QED
    BY <2>2, <2>3
<1>4. QED
  BY <1>1, <1>2, <1>3

\* A quotient is at least every number whose product is not too large.
LEMMA Quotient ==
    ASSUME NEW n \in Nat, NEW m \in Nat \ {0}, NEW k \in Nat, k * m <= n
    PROVE  n \div m \in Nat /\ k <= n \div m
<1> DEFINE q == n \div m
<1>1. q \in Nat /\ n < m * (q + 1)
  OBVIOUS
<1> HIDE DEF q
<1>2. ~(q + 1 <= k)
  <2>1. SUFFICES ASSUME q + 1 <= k PROVE FALSE
    OBVIOUS
  <2>2. m * (q + 1) <= m * k
    BY <1>1, <2>1, Products
  <2>3. m * k = k * m /\ m * k \in Nat /\ m * (q + 1) \in Nat
    BY <1>1
  <2>4. QED
    BY <1>1, <2>2, <2>3
<1>3. q \in Nat /\ k <= q
  BY <1>1, <1>2
<1>4. QED
  BY <1>3 DEF q

LEMMA RoundsType == Rounds \in Nat
<1> DEFINE n == Capacity + MaxMessages - 1
<1>1. n \in Nat /\ MaxMessages \in Nat \ {0} /\ 0 \in Nat /\ 0 * MaxMessages <= n
  BY Limits
<1> HIDE DEF n
<1>2. n \div MaxMessages \in Nat
  BY <1>1, Quotient
<1>3. QED
  BY <1>2 DEF Rounds, n

LEMMA FreshFacts ==
    ASSUME IInv
    PROVE  /\ TypeOK /\ FreshInv /\ now \in Nat /\ refreshed \in Nat /\ failures \in Nat
           /\ polled \in Nat /\ polled <= MaxMessages /\ tracker \in Trackers
           /\ Refresh \in Nat /\ MaxMessages \in Nat \ {0} /\ Capacity \in Nat \ {0}
           /\ DOMAIN queue["scored"] = 1..Len(queue["scored"]) /\ Len(queue["scored"]) \in 0..Capacity
           /\ \A i \in DOMAIN queue["scored"] : queue["scored"][i] # Invalid =>
                 queue["scored"][i] \in Shipments /\ queue["scored"][i].sent \in Nat
<1>1. TypeOK /\ FreshInv
  BY DEF IInv
<1>2. /\ now \in Nat /\ refreshed \in Nat /\ failures \in Nat
      /\ polled \in Nat /\ polled <= MaxMessages /\ tracker \in Trackers
  BY <1>1, Facts, Limits
<1>3. /\ DOMAIN queue["scored"] = 1..Len(queue["scored"]) /\ Len(queue["scored"]) \in 0..Capacity
      /\ \A i \in DOMAIN queue["scored"] : queue["scored"][i] \in Messages("scored")
  BY <1>1, QueueFacts DEF Topics
<1>4. QED
  BY <1>1, <1>2, <1>3, Limits DEF Messages, Shipments

\* A refresh more is allowed for when the next snapshot is due.
LEMMA RefreshLater ==
    ASSUME IInv, dashboard = "up", NEW sent \in Nat, NEW k \in Nat,
           refreshed <= sent + Refresh * (k + failures)
    PROVE  now <= sent + Refresh * ((k + failures) + 1)
<1>1. now <= refreshed + Refresh
  BY FreshFacts DEF FreshInv
<1>2. k + failures \in Nat /\ 1 \in Nat /\ Refresh * 1 = Refresh
  BY FreshFacts
<1>3. Refresh * ((k + failures) + 1) = Refresh * (k + failures) + Refresh
  BY <1>2, FreshFacts, Products
<1> DEFINE span == Refresh * (k + failures)
           next == Refresh * ((k + failures) + 1)
<1>4. span \in Nat /\ next = span + Refresh /\ refreshed <= sent + span
  BY <1>2, <1>3, FreshFacts, Products
<1>5. now \in Nat /\ refreshed \in Nat /\ Refresh \in Nat
  BY FreshFacts
<1> HIDE DEF span, next
<1>6. now <= sent + next
  BY <1>1, <1>4, <1>5
<1>7. QED
  BY <1>6 DEF next

\* Messages stay, leave at the end, or are joined by one sent now.
LEMMA FreshKept ==
    ASSUME IInv, QueuesOK', UNCHANGED <<now, failures, dashboard, tracker, polled, refreshed>>,
           dashboard = "down" => Len(queue'["scored"]) = 0,
           \A i \in DOMAIN queue'["scored"] : queue'["scored"][i] # Invalid =>
              \/ i \in DOMAIN queue["scored"] /\ queue["scored"][i] = queue'["scored"][i]
              \/ queue'["scored"][i].sent = now
    PROVE  FreshInv'
<1>1. FreshInv
  BY FreshFacts
<1>2. ASSUME NEW i \in DOMAIN queue'["scored"], queue'["scored"][i] # Invalid
      PROVE  (\E k \in Nat : Seen(i, queue["scored"][i].sent, k))'
  <2>1. CASE i \in DOMAIN queue["scored"] /\ queue["scored"][i] = queue'["scored"][i]
    <3>1. PICK k \in Nat : Seen(i, queue["scored"][i].sent, k)
      BY <1>1, <1>2, <2>1 DEF FreshInv
    <3>2. QED
      BY <2>1, <3>1 DEF Seen
  <2>2. CASE queue'["scored"][i].sent = now
    <3>1. refreshed <= now + Refresh * (0 + failures)
      <4>1. refreshed <= now /\ Refresh * (0 + failures) \in Nat
        BY <1>1, FreshFacts, Products DEF FreshInv
      <4>2. QED
        BY <4>1, FreshFacts
    <3>2. QED
      BY <2>2, <3>1 DEF Seen
  <2>3. QED
    BY <1>2, <2>1, <2>2
<1>3. dashboard' = "down" => queue'["scored"] = <<>>
  <2>1. queue'["scored"] \in Seq(Shipments \cup {Invalid})
    BY DEF QueuesOK
  <2>2. QED
    BY <2>1
<1>4. QED
  BY <1>1, <1>2, <1>3 DEF FreshInv, Rounds

\* Reading a message brings the others nearer to the front, by as many as are read.
LEMMA Nearer ==
    ASSUME IInv, CanRead, Take("scored"), polled' = polled + 1, UNCHANGED <<failures, refreshed>>
    PROVE  /\ \A i \in DOMAIN queue'["scored"] : queue'["scored"][i] # Invalid =>
                 (\E k \in Nat : Seen(i, queue["scored"][i].sent, k))'
           /\ Head(queue["scored"]) = queue["scored"][1] /\ 1 \in DOMAIN queue["scored"]
           /\ Head(queue["scored"]) # Invalid => Head(queue["scored"]) \in Shipments
<1> DEFINE old == queue["scored"]
           new == queue'["scored"]
<1>1. TypeOK /\ FreshInv /\ old # <<>>
  BY FreshFacts DEF CanRead
<1>2. /\ QueuesOK' /\ Advanced(old, new) /\ Head(old) = old[1] /\ Len(old) # 0
  BY <1>1, Taken DEF Topics
<1>3. /\ DOMAIN new = 1..Len(new) /\ Len(new) \in Nat /\ DOMAIN old = 1..Len(old)
      /\ Len(old) \in Nat
  BY <1>2, FreshFacts DEF QueuesOK, Topics
<1>4. ASSUME NEW i \in DOMAIN new, new[i] # Invalid
      PROVE  (\E k \in Nat : Seen(i, queue["scored"][i].sent, k))'
  <2>1. i \in Nat /\ i + 1 \in DOMAIN old /\ new[i] = old[i + 1]
    BY <1>2, <1>3, <1>4 DEF Advanced
  <2>2. PICK k \in Nat : Seen(i + 1, old[i + 1].sent, k)
    BY <1>1, <1>4, <2>1 DEF FreshInv
  <2>3. k # 0 => (k - 1) * MaxMessages + polled' <= Capacity - i
    <3> DEFINE read == (k - 1) * MaxMessages
    <3>1. SUFFICES ASSUME k # 0 PROVE read + (polled + 1) <= Capacity - i
      OBVIOUS
    <3>2. read + polled <= Capacity - (i + 1)
      BY <2>2, <3>1 DEF Seen
    <3>3. read \in Nat
      BY <3>1, FreshFacts, Products
    <3>4. polled \in Nat /\ Capacity \in Nat
      BY FreshFacts
    <3> HIDE DEF read
    <3>5. QED
      BY <2>1, <3>2, <3>3, <3>4
  <2>4. refreshed' <= new[i].sent + Refresh * (k + failures')
    BY <2>1, <2>2 DEF Seen
  <2>5. QED
    BY <2>3, <2>4 DEF Seen
<1>5. 1 \in DOMAIN old
  BY <1>2, <1>3
<1>6. QED
  BY <1>2, <1>4, <1>5, FreshFacts

\* What is read has waited for no more rounds than it takes to drain a full topic.
LEMMA ReadInTime ==
    ASSUME IInv, CanRead, queue["scored"][1] # Invalid, 1 \in DOMAIN queue["scored"]
    PROVE  now <= queue["scored"][1].sent + Refresh * (Rounds + failures)
<1> DEFINE sent == queue["scored"][1].sent
           n == Capacity + MaxMessages - 1
<1>1. sent \in Nat
  BY FreshFacts
<1>2. PICK k \in Nat : Seen(1, sent, k)
  BY FreshFacts DEF FreshInv
<1>3. n \in Nat /\ MaxMessages \in Nat \ {0} /\ k * MaxMessages <= n
  <2>1. n \in Nat /\ MaxMessages \in Nat \ {0}
    BY FreshFacts
  <2>2. CASE k = 0
    BY <2>1, <2>2
  <2>3. CASE k # 0
    <3> DEFINE read == (k - 1) * MaxMessages
    <3>1. read + polled <= Capacity - 1
      BY <1>2, <2>3 DEF Seen
    <3>2. k - 1 \in Nat /\ k = (k - 1) + 1
      BY <2>3
    <3>3. k * MaxMessages = read + MaxMessages
      BY <2>1, <3>2
    <3>4. read \in Nat
      BY <2>1, <3>2, Products
    <3>5. polled \in Nat /\ Capacity \in Nat
      BY FreshFacts
    <3> HIDE DEF read
    <3>6. QED
      BY <2>1, <3>1, <3>3, <3>4, <3>5
  <2>4. QED
    BY <2>1, <2>2, <2>3
<1> HIDE DEF n
<1>4. n \div MaxMessages \in Nat /\ k <= n \div MaxMessages
  BY <1>3, Quotient
<1>5. Rounds = n \div MaxMessages + 1
  BY DEF Rounds, n
<1>6. Rounds \in Nat /\ (k + failures) + 1 <= Rounds + failures
  BY <1>4, <1>5, FreshFacts
<1> HIDE DEF sent
<1>7. now <= sent + Refresh * ((k + failures) + 1)
  BY <1>1, <1>2, RefreshLater DEF Seen, CanRead
<1> DEFINE due == (k + failures) + 1
           most == Rounds + failures
<1>8. Refresh \in Nat /\ due \in Nat /\ most \in Nat /\ due <= most /\ now \in Nat
  BY <1>6, FreshFacts
<1> HIDE DEF due, most
<1>9. Refresh * due <= Refresh * most /\ Refresh * due \in Nat /\ Refresh * most \in Nat
  BY <1>8, Products
<1>10. now <= sent + Refresh * due
  BY <1>7 DEF due
<1>11. now <= sent + Refresh * most
  <2> DEFINE a == Refresh * due
             b == Refresh * most
  <2>1. a <= b /\ a \in Nat /\ b \in Nat /\ now <= sent + a
    BY <1>9, <1>10
  <2> HIDE DEF a, b
  <2>2. now <= sent + b
    BY <1>1, <1>8, <2>1
  <2>3. QED
    BY <2>2 DEF b
<1>12. QED
  BY <1>11 DEF sent, most

LEMMA ObserveFresh == ASSUME IInv, Observe PROVE FreshInv'
<1> DEFINE message == Head(queue["scored"])
<1>1. /\ CanRead /\ message # Invalid /\ Take("scored") /\ polled' = polled + 1
      /\ UNCHANGED <<now, failures, dashboard, refreshed>> /\ dashboard = "up"
      /\ tracker' = [tracker EXCEPT
             !.lastAt = now, !.latest = message, !.ticks = @ + 1, !.warning = FALSE,
             !.anomalies = IF message.row.anomaly THEN Append(@, now) ELSE @]
  BY DEF Observe, CanRead, counts, faults
<1>2. /\ \A i \in DOMAIN queue'["scored"] : queue'["scored"][i] # Invalid =>
            (\E k \in Nat : Seen(i, queue["scored"][i].sent, k))'
      /\ message = queue["scored"][1] /\ 1 \in DOMAIN queue["scored"] /\ message \in Shipments
  BY <1>1, Nearer
<1>3. now <= message.sent + Refresh * (Rounds + failures)
  BY <1>1, <1>2, ReadInTime
<1> HIDE DEF message
<1>4. tracker'.latest = message /\ tracker'.lastAt = now
  BY <1>1, FreshFacts DEF Trackers
<1>5. refreshed <= now /\ now <= refreshed + Refresh /\ now \in Nat
  BY <1>1, FreshFacts DEF FreshInv
<1>6. QED
  BY <1>1, <1>2, <1>3, <1>4, <1>5 DEF FreshInv, Rounds

LEMMA ObserveInvalidFresh == ASSUME IInv, ObserveInvalid PROVE FreshInv'
<1>1. /\ CanRead /\ Take("scored") /\ polled' = polled + 1
      /\ UNCHANGED <<now, failures, dashboard, refreshed>> /\ dashboard = "up"
      /\ tracker' = [tracker EXCEPT !.warning = TRUE]
  BY DEF ObserveInvalid, CanRead, counts, faults
<1>2. \A i \in DOMAIN queue'["scored"] : queue'["scored"][i] # Invalid =>
         (\E k \in Nat : Seen(i, queue["scored"][i].sent, k))'
  BY <1>1, Nearer
<1>3. tracker'.latest = tracker.latest /\ tracker'.lastAt = tracker.lastAt
      /\ tracker'.ticks = tracker.ticks
  BY <1>1, FreshFacts DEF Trackers
<1>4. QED
  BY <1>1, <1>2, <1>3, FreshFacts DEF FreshInv, Rounds

\* After a full poll everything is nearer by a poll; a poll that fails is counted.
LEMMA SnapshotFresh == ASSUME IInv, NEW failed \in BOOLEAN, Snapshot(failed) PROVE FreshInv'
<1>1. /\ dashboard = "up" /\ refreshed' = now /\ polled' = 0
      /\ failures' = IF failed THEN failures + 1 ELSE failures
      /\ tracker' = [tracker EXCEPT !.warning = @ \/ failed, !.anomalies = Pruned(@)]
      /\ UNCHANGED <<now, queue, dashboard>>
      /\ ~failed => polled = MaxMessages \/ queue["scored"] = <<>>
  BY DEF Snapshot, Drained
<1>2. FreshInv
  BY FreshFacts
<1>3. ASSUME NEW i \in DOMAIN queue["scored"], queue["scored"][i] # Invalid
      PROVE  (\E k \in Nat : Seen(i, queue["scored"][i].sent, k))'
  <2> DEFINE sent == queue["scored"][i].sent
  <2>1. PICK k \in Nat : Seen(i, sent, k)
    BY <1>2, <1>3 DEF FreshInv
  <2>2. sent \in Nat /\ i \in 1..Capacity
    BY <1>3, FreshFacts
  <2>3. now <= sent + Refresh * ((k + failures) + 1)
    BY <1>1, <2>1, <2>2, RefreshLater DEF Seen
  <2>4. CASE failed
    <3>1. k + failures' = (k + failures) + 1
      BY <1>1, <2>4, FreshFacts
    <3>2. refreshed' <= sent + Refresh * (k + failures')
      BY <1>1, <2>3, <3>1
    <3>3. k # 0 => (k - 1) * MaxMessages + polled' <= Capacity - i
      <4>1. SUFFICES ASSUME k # 0 PROVE (k - 1) * MaxMessages + 0 <= Capacity - i
        BY <1>1
      <4>2. (k - 1) * MaxMessages + polled <= Capacity - i
        BY <2>1, <4>1 DEF Seen
      <4>3. (k - 1) * MaxMessages \in Nat
        BY <4>1, FreshFacts, Products
      <4>4. QED
        BY <2>2, <4>2, <4>3, FreshFacts
    <3>4. QED
      BY <1>1, <3>2, <3>3 DEF Seen
  <2>5. CASE ~failed
    <3>1. queue["scored"] # <<>>
      BY <1>3
    <3>2. polled = MaxMessages
      BY <1>1, <2>5, <3>1
    <3>3. (k + 1) + failures' = (k + failures) + 1
      BY <1>1, <2>5, FreshFacts
    <3>4. refreshed' <= sent + Refresh * ((k + 1) + failures')
      BY <1>1, <2>3, <3>3
    <3>5. k * MaxMessages <= Capacity - i
      <4>1. CASE k = 0
        BY <2>2, <4>1, FreshFacts
      <4>2. CASE k # 0
        <5>1. (k - 1) * MaxMessages + MaxMessages <= Capacity - i
          BY <2>1, <3>2, <4>2 DEF Seen
        <5>2. k * MaxMessages = (k - 1) * MaxMessages + MaxMessages
          BY <4>2, FreshFacts
        <5>3. QED
          BY <5>1, <5>2
      <4>3. QED
        BY <4>1, <4>2
    <3>6. ((k + 1) - 1) * MaxMessages + polled' <= Capacity - i
      <4>1. (k + 1) - 1 = k /\ k * MaxMessages \in Nat
        BY FreshFacts, Products
      <4>2. QED
        BY <1>1, <3>5, <4>1
    <3>7. k + 1 \in Nat
      OBVIOUS
    <3>8. QED
      BY <1>1, <3>4, <3>6, <3>7 DEF Seen
  <2>6. QED
    BY <2>4, <2>5
<1>4. /\ tracker'.latest = tracker.latest /\ tracker'.lastAt = tracker.lastAt
      /\ tracker'.ticks = tracker.ticks
  BY <1>1, FreshFacts DEF Trackers
<1>5. ASSUME tracker.ticks # 0
      PROVE  tracker.lastAt <= tracker.latest.sent + Refresh * (Rounds + failures')
  <2> DEFINE sent == tracker.latest.sent
  <2>1. /\ tracker.lastAt \in Nat /\ sent \in Nat /\ tracker.lastAt <= sent + Refresh * (Rounds + failures)
    BY <1>2, <1>5 DEF FreshInv, Shipments
  <2>2. Rounds \in Nat
    BY RoundsType
  <2>3. failures' \in Nat /\ failures <= failures' /\ Rounds + failures <= Rounds + failures'
        /\ Rounds + failures \in Nat /\ Rounds + failures' \in Nat
    BY <1>1, <2>2, FreshFacts
  <2>4. Refresh * (Rounds + failures) <= Refresh * (Rounds + failures')
    BY <2>3, FreshFacts, Products
  <2>5. Refresh * (Rounds + failures) \in Nat /\ Refresh * (Rounds + failures') \in Nat
    BY <2>3, FreshFacts, Products
  <2> HIDE DEF sent
  <2>6. tracker.lastAt <= sent + Refresh * (Rounds + failures')
    BY <2>1, <2>4, <2>5
  <2>7. QED
    BY <2>6 DEF sent
<1>6. now' <= refreshed' + Refresh /\ refreshed' <= now'
  BY <1>1, FreshFacts
<1>7. Rounds' = Rounds
  BY DEF Rounds
<1>8. QED
  BY <1>1, <1>2, <1>3, <1>4, <1>5, <1>6, <1>7 DEF FreshInv

LEMMA FreshInit == Init => FreshInv
<1> SUFFICES ASSUME Init PROVE FreshInv
  OBVIOUS
<1>1. /\ queue["scored"] = <<>> /\ dashboard = "down" /\ refreshed = 0 /\ now = 0
      /\ tracker.ticks = 0
  BY DEF Init, Topics, NewTracker
<1>2. QED
  BY <1>1 DEF FreshInv

\* Every step keeps the messages and the panel fresh.
LEMMA FreshStep == ASSUME IInv, [Next]_vars PROVE FreshInv'
<1> DEFINE old == queue["scored"]
           new == queue'["scored"]
<1>1. TypeOK /\ FreshInv
  BY FreshFacts
<1>2. /\ DOMAIN old = 1..Len(old) /\ Len(old) \in Nat /\ (dashboard = "down" => Len(old) = 0)
      /\ QueuesOK' => DOMAIN new = 1..Len(new) /\ Len(new) \in Nat
  BY <1>1, FreshFacts DEF FreshInv, QueuesOK, Topics
<1>3. QueuesOK'
  BY <1>1, TypeStep DEF TypeOK
<1> DEFINE Still == UNCHANGED <<now, failures, dashboard, tracker, polled, refreshed>>
<1>4. ASSUME Still, Cut(old, new) PROVE FreshInv'
  <2>1. \A i \in DOMAIN new : i \in DOMAIN old /\ old[i] = new[i]
    BY <1>2, <1>3, <1>4 DEF Cut
  <2>2. dashboard = "down" => Len(new) = 0
    BY <1>2, <1>3, <1>4 DEF Cut
  <2>3. QED
    BY <1>3, <1>4, <2>1, <2>2, FreshKept
<1>5. ASSUME Still, new = old PROVE FreshInv'
  <2>1. Cut(old, new)
    BY <1>2, <1>5 DEF Cut
  <2>2. QED
    BY <1>4, <1>5, <2>1
<1>6. ASSUME NEW m, m = Invalid \/ m.sent = now, Still, Subscribed("scored"), Grown(old, new, m)
      PROVE  FreshInv'
  <2>1. \A i \in DOMAIN new : i \in DOMAIN old \/ i = Len(new)
    BY <1>2, <1>3, <1>6 DEF Grown
  <2>2. \A i \in DOMAIN new : new[i] # Invalid =>
           (i \in DOMAIN old /\ old[i] = new[i]) \/ new[i].sent = now
    BY <1>2, <1>6, <2>1 DEF Grown
  <2>3. dashboard # "down"
    BY <1>6 DEF Subscribed
  <2>4. QED
    BY <1>3, <1>6, <2>2, <2>3, FreshKept
<1> HIDE DEF old, new
<1>7. ASSUME NEW s \in Symbols, StartPublisher(s) PROVE FreshInv'
  BY <1>5, <1>7 DEF StartPublisher, counts, faults, display, old, new
<1>8. CASE Publish
  <2> DEFINE price == Prices[(publisher.published % Len(Prices)) + 1]
             tick == [symbol |-> publisher.symbol, at |-> now, price |-> price]
  <2>1. price \in Nat /\ publisher.symbol \in Symbols /\ now \in Nat
    BY <1>1, <1>8, PublishedPrice DEF Publish, TypeOK
  <2>2. Deliver("raw", tick) /\ UNCHANGED <<now, faults, display>>
    BY <1>8 DEF Publish
  <2> HIDE DEF price
  <2>3. tick \in Messages("raw")
    BY <2>1 DEF Messages, Ticks
  <2> HIDE DEF tick
  <2>4. new = old
    BY <1>1, <2>2, <2>3, Delivered DEF Topics, old, new
  <2>5. QED
    BY <1>5, <2>2, <2>4 DEF faults, display
<1>9. CASE StopPublisher
  <2>1. new = old
    BY <1>1, <1>9, HungUp DEF StopPublisher, Topics, old, new
  <2>2. QED
    BY <1>5, <1>9, <2>1 DEF StopPublisher, faults, display
<1>10. ASSUME NEW topic \in Topics, Stray(topic) PROVE FreshInv'
  <2>1. Invalid \in Messages(topic) /\ Deliver(topic, Invalid) /\ UNCHANGED <<now, failures, display>>
    BY <1>10 DEF Stray, Messages, Deliver
  <2>2. /\ \A other \in Topics \ {topic} : queue'[other] = queue[other]
        /\ \/ queue'[topic] = queue[topic]
           \/ Subscribed(topic) /\ Grown(queue[topic], queue'[topic], Invalid)
    BY <1>1, <2>1, Delivered
  <2>3. CASE new = old
    BY <1>5, <2>1, <2>3 DEF display
  <2>4. CASE Subscribed("scored") /\ Grown(old, new, Invalid)
    BY <1>6, <2>1, <2>4 DEF display
  <2>5. QED
    BY <2>2, <2>3, <2>4 DEF Topics, old, new
<1>11. CASE StartScorer \/ Persist
  BY <1>5, <1>11 DEF StartScorer, Persist, counts, faults, display, old, new
<1>12. CASE Score
  <2>1. new = old
    BY <1>1, <1>12, Taken DEF Score, Topics, old, new
  <2>2. QED
    BY <1>5, <1>12, <2>1 DEF Score, counts, faults, display
<1>13. CASE Republish
  <2> DEFINE message == [row |-> annotated, sent |-> now]
  <2>1. message \in Messages("scored") /\ message.sent = now
    BY <1>1, <1>13 DEF Republish, TypeOK, Messages, Shipments
  <2>2. Deliver("scored", message) /\ UNCHANGED <<now, counts, display>>
    BY <1>13 DEF Republish
  <2> HIDE DEF message
  <2>3. new = old \/ (Subscribed("scored") /\ Grown(old, new, message))
    BY <1>1, <2>1, <2>2, Delivered DEF Topics, old, new
  <2>4. Still
    BY <2>2 DEF counts, faults, display
  <2> HIDE DEF Still
  <2>5. QED
    BY <1>5, <1>6, <2>1, <2>3, <2>4
<1>14. CASE ScorerEnds
  <2>1. Cut(old, new)
    BY <1>1, <1>14, Emptied DEF old, new
  <2>2. QED
    BY <1>4, <1>14, <2>1 DEF ScorerEnds, faults, display
<1>15. CASE StartDashboard
  <2>1. queue' = queue /\ Len(old) = 0 /\ refreshed' = now /\ now' = now /\ tracker' = NewTracker(now)
        /\ dashboard' = "up"
    BY <1>2, <1>15 DEF StartDashboard
  <2>2. DOMAIN queue'["scored"] = {} /\ tracker'.ticks = 0
    BY <1>2, <2>1 DEF NewTracker, old
  <2>3. QED
    BY <2>1, <2>2, FreshFacts DEF FreshInv
<1>16. CASE StopDashboard
  <2>1. new = <<>> /\ refreshed' = 0 /\ now' = now /\ tracker' = NewTracker(0) /\ dashboard' = "down"
    BY <1>1, <1>16 DEF StopDashboard, TypeOK, QueuesOK, Topics, new
  <2>2. DOMAIN queue'["scored"] = {} /\ tracker'.ticks = 0
    BY <2>1 DEF NewTracker, new
  <2>3. QED
    BY <2>1, <2>2, FreshFacts DEF FreshInv, new
<1>17. CASE Tick
  <2>1. /\ now' = now + 1 /\ (dashboard = "up" => now < refreshed + Refresh)
        /\ UNCHANGED <<queue, failures, dashboard, tracker, polled, refreshed>>
    BY <1>17 DEF Tick, counts, faults, display
  <2>2. dashboard' = "up" => now' <= refreshed' + Refresh
    BY <2>1, FreshFacts
  <2>3. refreshed' <= now'
    BY <1>1, <2>1, FreshFacts DEF FreshInv
  <2>4. QED
    BY <1>1, <2>1, <2>2, <2>3 DEF FreshInv, Seen, Rounds
<1>18. CASE UNCHANGED vars
  BY <1>5, <1>18 DEF vars, counts, faults, display, old, new
<1>19. QED
  BY <1>7, <1>8, <1>9, <1>10, <1>11, <1>12, <1>13, <1>14, <1>15, <1>16, <1>17, <1>18,
     ObserveFresh, ObserveInvalidFresh, SnapshotFresh DEF Next, Refuse, StopScorer

LEMMA FreshReport == ASSUME IInv PROVE FreshWhenShown
<1> SUFFICES ASSUME Report(tracker).ticks > 0, Report(tracker).status # "STALE"
             PROVE  now - tracker.latest.sent < StaleAfter + Refresh *
                       ((Capacity + MaxMessages - 1) \div MaxMessages + 1 + failures)
  BY DEF FreshWhenShown
<1> DEFINE sent == tracker.latest.sent
           span == Refresh * (Rounds + failures)
<1>1. tracker.ticks \in Nat /\ tracker.ticks > 0 /\ Status(tracker) # "STALE"
  BY FreshFacts DEF Report, Trackers
<1>2. tracker.latest \in Shipments /\ tracker.lastAt \in Nat /\ tracker.lastAt <= sent + span
  BY <1>1, FreshFacts DEF FreshInv
<1>3. ~(now - tracker.lastAt >= StaleAfter)
  BY <1>1, <1>2, Limits DEF Status
<1>4. sent \in Nat /\ span \in Nat /\ StaleAfter \in Nat
  <2>1. Rounds + failures \in Nat
    BY RoundsType, FreshFacts
  <2>2. QED
    BY <1>2, <2>1, FreshFacts, Products, Limits DEF Shipments
<1>5. span = Refresh * ((Capacity + MaxMessages - 1) \div MaxMessages + 1 + failures)
  BY DEF Rounds
<1> HIDE DEF sent, span
<1>6. now - sent < StaleAfter + span
  BY <1>2, <1>3, <1>4, FreshFacts
<1>7. QED
  BY <1>5, <1>6 DEF sent

(***************************************************************************)
(* Which anomalies the panel counts.                                       *)
(***************************************************************************)
LEMMA AnomalyFacts ==
    ASSUME IInv
    PROVE  /\ TypeOK /\ AnomalyInv /\ now \in Nat /\ Window \in Nat /\ tracker \in Trackers
           /\ Dropped \in Nat /\ Len(anomalous) = Dropped + Len(tracker.anomalies)
           /\ tracker.anomalies \in Seq(Nat) /\ Len(tracker.anomalies) \in Nat
           /\ DOMAIN tracker.anomalies = 1..Len(tracker.anomalies)
           /\ anomalous \in Seq(Nat) /\ Len(anomalous) \in Nat
           /\ DOMAIN anomalous = 1..Len(anomalous)
           /\ \A i \in 1..Len(anomalous) : anomalous[i] \in Nat
<1>1. TypeOK /\ AnomalyInv
  BY DEF IInv
<1>2. /\ now \in Nat /\ Window \in Nat /\ tracker \in Trackers
      /\ tracker.anomalies \in Seq(Nat) /\ anomalous \in Seq(Nat)
  BY <1>1, Facts, Limits
<1>3. /\ Len(tracker.anomalies) \in Nat /\ DOMAIN tracker.anomalies = 1..Len(tracker.anomalies)
      /\ Len(anomalous) \in Nat /\ DOMAIN anomalous = 1..Len(anomalous)
      /\ \A i \in 1..Len(anomalous) : anomalous[i] \in Nat
  BY <1>2
<1>4. Len(tracker.anomalies) <= Len(anomalous)
  BY <1>1 DEF AnomalyInv
<1>5. Dropped \in Nat /\ Len(anomalous) = Dropped + Len(tracker.anomalies)
  BY <1>3, <1>4 DEF Dropped
<1>6. QED
  BY <1>1, <1>2, <1>3, <1>5

\* An anomaly is counted by the tracker when it is observed.
LEMMA ObserveAnomaly == ASSUME IInv, Observe PROVE AnomalyInv'
<1> DEFINE message == Head(queue["scored"])
           times == tracker.anomalies
           anomaly == message.row.anomaly
           n == Len(anomalous)
           l == Len(times)
<1>1. /\ tracker' = [tracker EXCEPT
             !.lastAt = now, !.latest = message, !.ticks = @ + 1, !.warning = FALSE,
             !.anomalies = IF anomaly THEN Append(@, now) ELSE @]
      /\ anomalous' = IF anomaly THEN Append(anomalous, now) ELSE anomalous
      /\ UNCHANGED <<now, dashboard>> /\ dashboard = "up"
  BY DEF Observe, CanRead
<1> HIDE DEF message, anomaly
<1>2. tracker'.anomalies = IF anomaly THEN Append(times, now) ELSE times
  BY <1>1, AnomalyFacts DEF Trackers
<1>3. CASE ~anomaly
  <2>1. UNCHANGED <<tracker.anomalies, anomalous, now, dashboard>>
    BY <1>1, <1>2, <1>3
  <2>2. QED
    BY <2>1, AnomalyFacts DEF AnomalyInv, Dropped
<1>4. CASE anomaly
  <2>1. n \in Nat /\ l \in Nat /\ now \in Nat /\ times \in Seq(Nat) /\ anomalous \in Seq(Nat)
        /\ Dropped \in Nat /\ n = Dropped + l
    BY AnomalyFacts
  <2>2. /\ tracker'.anomalies = Append(times, now) /\ anomalous' = Append(anomalous, now)
    BY <1>1, <1>2, <1>4
  <2>3. /\ Len(tracker'.anomalies) = l + 1 /\ tracker'.anomalies[l + 1] = now
        /\ \A i \in 1..l : tracker'.anomalies[i] = times[i]
        /\ DOMAIN tracker'.anomalies = 1..(l + 1)
    <3>1. tracker'.anomalies \in Seq(Nat) /\ Len(tracker'.anomalies) = l + 1
          /\ tracker'.anomalies[l + 1] = now
          /\ \A i \in 1..l : tracker'.anomalies[i] = times[i]
      BY <2>1, <2>2, AppendProperties
    <3>2. DOMAIN tracker'.anomalies = 1..Len(tracker'.anomalies)
      BY <3>1
    <3>3. QED
      BY <3>1, <3>2
  <2>4. /\ Len(anomalous') = n + 1 /\ anomalous'[n + 1] = now
        /\ \A i \in 1..n : anomalous'[i] = anomalous[i]
        /\ DOMAIN anomalous' = 1..(n + 1)
    <3>1. anomalous' \in Seq(Nat) /\ Len(anomalous') = n + 1 /\ anomalous'[n + 1] = now
          /\ \A i \in 1..n : anomalous'[i] = anomalous[i]
      BY <2>1, <2>2, AppendProperties
    <3>2. DOMAIN anomalous' = 1..Len(anomalous')
      BY <3>1
    <3>3. QED
      BY <3>1, <3>2
  <2>5. Dropped' = Dropped
    BY <2>1, <2>3, <2>4 DEF Dropped
  <2>6. /\ \A j \in 1..l : times[j] = anomalous[j + Dropped]
        /\ \A i \in 1..Dropped : anomalous[i] < now - Window
        /\ \A i \in 1..n : anomalous[i] <= now
        /\ \A i, j \in 1..n : i < j => anomalous[i] <= anomalous[j]
    BY AnomalyFacts DEF AnomalyInv
  <2> HIDE DEF n, l, times
  <2>7. ASSUME NEW j \in 1..(l + 1) PROVE tracker'.anomalies[j] = anomalous'[j + Dropped]
    <3>1. CASE j = l + 1
      BY <2>1, <2>3, <2>4, <3>1
    <3>2. CASE j # l + 1
      <4>1. j \in 1..l /\ j + Dropped \in 1..n
        BY <2>1, <2>7, <3>2
      <4>2. QED
        BY <2>3, <2>4, <2>6, <4>1
    <3>3. QED
      BY <3>1, <3>2
  <2>8. \A i \in 1..Dropped : anomalous'[i] < now - Window
    <3>1. \A i \in 1..Dropped : i \in 1..n
      BY <2>1
    <3>2. QED
      BY <2>4, <2>6, <3>1
  <2>9. \A i \in 1..(n + 1) : i \in 1..n \/ i = n + 1
    BY <2>1
  <2>10. \A i \in 1..(n + 1) : anomalous'[i] <= now
    BY <2>1, <2>4, <2>6, <2>9
  <2>11. ASSUME NEW i \in 1..(n + 1), NEW j \in 1..(n + 1), i < j
         PROVE  anomalous'[i] <= anomalous'[j]
    <3>1. i \in 1..n
      BY <2>1, <2>11
    <3>2. CASE j = n + 1
      BY <2>4, <2>6, <3>1, <3>2
    <3>3. CASE j \in 1..n
      BY <2>4, <2>6, <2>11, <3>1, <3>3
    <3>4. QED
      BY <2>9, <3>2, <3>3
  <2>12. l + 1 <= n + 1
    BY <2>1
  <2>13. QED
    BY <1>1, <2>3, <2>4, <2>5, <2>7, <2>8, <2>10, <2>11, <2>12 DEF AnomalyInv
<1>5. QED
  BY <1>3, <1>4

\* What a snapshot drops is too old.
LEMMA SnapshotAnomaly == ASSUME IInv, NEW failed \in BOOLEAN, Snapshot(failed) PROVE AnomalyInv'
<1> DEFINE times == tracker.anomalies
           new == Pruned(times)
           l == Len(times)
<1>1. /\ tracker' = [tracker EXCEPT !.warning = @ \/ failed, !.anomalies = Pruned(@)]
      /\ UNCHANGED <<now, dashboard, anomalous>>
  BY DEF Snapshot
<1>2. tracker'.anomalies = new
  BY <1>1, AnomalyFacts DEF Trackers
<1>3. PICK n \in 0..l :
         /\ new \in Seq(Nat) /\ Len(new) = l - n /\ \A i \in 1..(l - n) : new[i] = times[i + n]
         /\ \A i \in 1..n : times[i] < now - Window
  BY AnomalyFacts, PrunedFront
<1>4. /\ l \in Nat /\ Dropped \in Nat /\ Len(anomalous) = Dropped + l
      /\ \A j \in 1..l : times[j] = anomalous[j + Dropped]
      /\ \A i \in 1..Dropped : anomalous[i] < now - Window
  BY AnomalyFacts DEF AnomalyInv
<1> HIDE DEF l, times, new
<1>5. Dropped' = Dropped + n /\ Len(tracker'.anomalies) <= Len(anomalous')
      /\ DOMAIN tracker'.anomalies = 1..(l - n)
  BY <1>1, <1>2, <1>3, <1>4 DEF Dropped
<1>6. ASSUME NEW j \in 1..(l - n) PROVE tracker'.anomalies[j] = anomalous[j + (Dropped + n)]
  <2>1. j + n \in 1..l /\ (j + n) + Dropped = j + (Dropped + n)
    BY <1>3, <1>4, <1>6
  <2>2. QED
    BY <1>2, <1>3, <1>4, <2>1
<1>7. ASSUME NEW i \in 1..(Dropped + n) PROVE anomalous[i] < now - Window
  <2>1. CASE i \in 1..Dropped
    BY <1>4, <2>1
  <2>2. CASE i \notin 1..Dropped
    <3>1. i - Dropped \in 1..n /\ i - Dropped \in 1..l /\ (i - Dropped) + Dropped = i
      BY <1>3, <1>4, <1>7, <2>2
    <3>2. times[i - Dropped] = anomalous[i] /\ times[i - Dropped] < now - Window
      BY <1>3, <1>4, <3>1
    <3>3. QED
      BY <3>2
  <2>3. QED
    BY <2>1, <2>2
<1>8. QED
  BY <1>1, <1>5, <1>6, <1>7, AnomalyFacts DEF AnomalyInv

LEMMA AnomalyInit == Init => AnomalyInv
<1> SUFFICES ASSUME Init PROVE AnomalyInv
  OBVIOUS
<1>1. anomalous = <<>> /\ tracker.anomalies = <<>> /\ now = 0
  BY DEF Init, NewTracker
<1>2. /\ Len(anomalous) = 0 /\ Len(tracker.anomalies) = 0 /\ DOMAIN anomalous = {}
      /\ DOMAIN tracker.anomalies = {} /\ Dropped = 0
  BY <1>1 DEF Dropped
<1>3. QED
  BY <1>2 DEF AnomalyInv

\* Every step keeps the anomalies of the tracker the last ones.
LEMMA AnomalyStep == ASSUME IInv, [Next]_vars PROVE AnomalyInv'
<1>1. ASSUME UNCHANGED <<now, dashboard, anomalous>>, tracker'.anomalies = tracker.anomalies
      PROVE  AnomalyInv'
  BY <1>1, AnomalyFacts DEF AnomalyInv, Dropped
<1>2. CASE UNCHANGED <<now, display>>
  BY <1>1, <1>2 DEF display
<1>3. ASSUME NEW s \in Symbols, StartPublisher(s) PROVE AnomalyInv'
  BY <1>2, <1>3 DEF StartPublisher
<1>4. ASSUME NEW topic \in Topics, Stray(topic) PROVE AnomalyInv'
  BY <1>2, <1>4 DEF Stray
<1>5. CASE Publish \/ StopPublisher \/ StartScorer \/ Score \/ Persist \/ Republish \/ ScorerEnds
  BY <1>2, <1>5 DEF Publish, StopPublisher, StartScorer, Score, Persist, Republish, ScorerEnds
<1>6. CASE ObserveInvalid
  <2>1. tracker'.anomalies = tracker.anomalies
    BY <1>6, AnomalyFacts DEF ObserveInvalid, Trackers
  <2>2. QED
    BY <1>1, <1>6, <2>1 DEF ObserveInvalid
<1>7. CASE StartDashboard
  <2>1. /\ tracker' = NewTracker(now) /\ dashboard = "down" /\ dashboard' = "up"
        /\ UNCHANGED <<now, anomalous>>
    BY <1>7 DEF StartDashboard
  <2>2. tracker'.anomalies = <<>> /\ Len(anomalous) = 0
    BY <2>1, AnomalyFacts DEF NewTracker, AnomalyInv
  <2>3. Len(tracker'.anomalies) = 0 /\ DOMAIN tracker'.anomalies = {}
    BY <2>2
  <2>4. DOMAIN anomalous = {} /\ anomalous' = anomalous
    BY <2>1, <2>2, AnomalyFacts
  <2>5. Dropped' = 0
    BY <2>2, <2>3, <2>4 DEF Dropped
  <2>6. QED
    BY <2>1, <2>2, <2>3, <2>4, <2>5 DEF AnomalyInv
<1>8. CASE StopDashboard
  <2>1. tracker' = NewTracker(0) /\ anomalous' = <<>>
    BY <1>8 DEF StopDashboard
  <2>2. /\ Len(anomalous') = 0 /\ Len(tracker'.anomalies) = 0 /\ DOMAIN anomalous' = {}
        /\ DOMAIN tracker'.anomalies = {}
    BY <2>1 DEF NewTracker
  <2>3. Dropped' = 0
    BY <2>2 DEF Dropped
  <2>4. QED
    BY <2>2, <2>3 DEF AnomalyInv
<1>9. CASE Tick
  <2>1. now' = now + 1 /\ UNCHANGED display
    BY <1>9 DEF Tick
  <2>2. \A i \in 1..Dropped : i \in 1..Len(anomalous)
    BY AnomalyFacts
  <2>3. \A t \in Nat : /\ t <= now => t <= now + 1
                       /\ t < now - Window => t < (now + 1) - Window
    BY AnomalyFacts
  <2>4. /\ \A i \in 1..Dropped : anomalous[i] < (now + 1) - Window
        /\ \A i \in DOMAIN anomalous : anomalous[i] <= now + 1
    BY <2>2, <2>3, AnomalyFacts DEF AnomalyInv
  <2>5. QED
    BY <2>1, <2>4, AnomalyFacts DEF AnomalyInv, Dropped, display
<1>10. CASE UNCHANGED vars
  BY <1>2, <1>10 DEF vars
<1>11. QED
  BY <1>3, <1>4, <1>5, <1>6, <1>7, <1>8, <1>9, <1>10, ObserveAnomaly, SnapshotAnomaly
     DEF Next, Refuse, StopScorer

LEMMA RecentReport == ASSUME IInv PROVE AnomaliesAreRecent
<1> DEFINE times == tracker.anomalies
           l == Len(times)
           d == Dropped
           recent == {i \in DOMAIN anomalous : anomalous[i] >= now - Window}
<1>1. PICK n \in 0..l :
         /\ Len(Pruned(times)) = l - n /\ \A i \in 1..n : times[i] < now - Window
         /\ n < l => times[n + 1] >= now - Window
  BY AnomalyFacts, PrunedFront
<1>2. /\ l \in Nat /\ d \in Nat /\ Len(anomalous) = d + l /\ DOMAIN anomalous = 1..(d + l)
      /\ now \in Nat /\ Window \in Nat /\ \A i \in 1..(d + l) : anomalous[i] \in Nat
      /\ \A j \in 1..l : times[j] = anomalous[j + d]
      /\ \A i \in 1..d : anomalous[i] < now - Window
      /\ \A i, j \in 1..(d + l) : i < j => anomalous[i] <= anomalous[j]
  BY AnomalyFacts DEF AnomalyInv
<1> HIDE DEF times, l, d
<1>3. ASSUME NEW i \in 1..(d + l), i <= d + n PROVE ~(anomalous[i] >= now - Window)
  <2>1. CASE i \in 1..d
    BY <1>2, <1>3, <2>1
  <2>2. CASE i \notin 1..d
    <3>1. i - d \in 1..n /\ i - d \in 1..l /\ (i - d) + d = i
      BY <1>1, <1>2, <1>3, <2>2
    <3>2. anomalous[i] < now - Window
      BY <1>1, <1>2, <3>1
    <3>3. QED
      BY <1>2, <1>3, <3>2
  <2>3. QED
    BY <2>1, <2>2
<1>4. ASSUME NEW i \in 1..(d + l), i > d + n PROVE anomalous[i] >= now - Window
  <2>1. n < l /\ n + 1 \in 1..l /\ (n + 1) + d \in 1..(d + l)
    BY <1>1, <1>2, <1>4
  <2>2. anomalous[(n + 1) + d] >= now - Window
    BY <1>1, <1>2, <2>1
  <2>3. anomalous[(n + 1) + d] <= anomalous[i]
    <3>1. CASE i = (n + 1) + d
      BY <1>2, <2>1, <3>1
    <3>2. CASE (n + 1) + d < i
      BY <1>2, <2>1, <3>2
    <3>3. QED
      BY <1>1, <1>2, <1>4, <3>1, <3>2
  <2>4. QED
    BY <1>2, <2>1, <2>2, <2>3
<1>5. recent = (d + n + 1)..(d + l)
  <2>1. recent = {i \in 1..(d + l) : i > d + n}
    BY <1>1, <1>2, <1>3, <1>4
  <2>2. {i \in 1..(d + l) : i > d + n} = (d + n + 1)..(d + l)
    BY <1>1, <1>2
  <2>3. QED
    BY <2>1, <2>2
<1>6. Cardinality(recent) = l - n
  <2>1. d + n + 1 \in Int /\ d + l \in Int
    BY <1>1, <1>2
  <2>2. Cardinality((d + n + 1)..(d + l)) =
           IF d + n + 1 > d + l THEN 0 ELSE (d + l) - (d + n + 1) + 1
    BY <2>1, FS_Interval
  <2>3. (IF d + n + 1 > d + l THEN 0 ELSE (d + l) - (d + n + 1) + 1) = l - n
    BY <1>1, <1>2
  <2> HIDE DEF recent
  <2>4. QED
    BY <1>5, <2>2, <2>3
<1>7. QED
  BY <1>1, <1>6 DEF AnomaliesAreRecent, Report, times

(***************************************************************************)
(* The invariant, and what follows from it.                                *)
(***************************************************************************)
LEMMA Invariance == Spec => []IInv
<1>1. Init => IInv
  BY TypeInit, JournalInit, FeedInit, FreshInit, AnomalyInit DEF IInv, JournalInv
<1>2. IInv /\ [Next]_vars => IInv'
  <2> SUFFICES ASSUME IInv, [Next]_vars PROVE IInv'
    OBVIOUS
  <2>1. TypeOK'
    BY TypeStep DEF IInv
  <2>2. JournalInv' /\ FeedInv' /\ FreshInv' /\ AnomalyInv'
    BY JournalStep, FeedStep, FreshStep, AnomalyStep
  <2>3. QED
    BY <2>1, <2>2 DEF IInv, JournalInv
<1>3. QED
  BY <1>1, <1>2, PTL DEF Spec

\* Every flag of the journal can be recomputed from the journal alone, however often the
\* processes restart (score_tick, persist_realtime_event).
THEOREM FlagsAreExplained == Spec => []JournalExplains
<1>1. IInv => JournalExplains
  BY ExplainedJournal
<1>2. QED
  BY <1>1, Invariance, PTL

\* The panel shows rows of the journal, in their order, none twice (run_realtime_scorer, poll).
THEOREM PipelineImplementsLossyFeed == Spec => ImplementsLossyFeed
<1>1. Init => Contract!Init
  <2> SUFFICES ASSUME Init PROVE Contract!Init
    OBVIOUS
  <2>1. journal = <<>> /\ DOMAIN shown = {}
    BY DEF Init
  <2>2. [i \in DOMAIN shown |-> Position(shown[i])] = <<>>
    BY <2>1
  <2>3. QED
    BY <2>1, <2>2 DEF Contract!Init
<1>2. IInv /\ [Next]_vars => [Contract!Next]_Contract!vars
  BY FeedRefines
<1>3. QED
  BY <1>1, <1>2, Invariance, PTL DEF Spec, ImplementsLossyFeed, Contract!Spec

\* A feed that is not reported as stale has a tick that is not older than what draining a full
\* topic accounts for (RealtimeStateTracker.status, poll).
THEOREM LiveIsFresh == Spec => []FreshWhenShown
<1>1. IInv => FreshWhenShown
  BY FreshReport
<1>2. QED
  BY <1>1, Invariance, PTL

\* A snapshot counts the anomalies observed within the window (RealtimeStateTracker.snapshot).
THEOREM RecentAnomaliesCounted == Spec => []AnomaliesAreRecent
<1>1. IInv => AnomaliesAreRecent
  BY RecentReport
<1>2. QED
  BY <1>1, Invariance, PTL
=============================================================================
