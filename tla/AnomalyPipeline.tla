--------------------------- MODULE AnomalyPipeline ---------------------------
(***************************************************************************)
(* The simulated live path: realtime/publisher.py sends ticks to           *)
(* realtime/anomaly_scorer.py, which annotates each one, appends it to the *)
(* event journal and sends it on to the feed panel of dashboard.py.  Three *)
(* processes that start and end on their own, joined by two ZeroMQ topics. *)
(*                                                                         *)
(* A topic keeps what its subscriber has not read yet.  It may drop what   *)
(* is sent: before the subscription is known, beyond its capacity, or when *)
(* either process ends.                                                    *)
(***************************************************************************)
EXTENDS Integers, Sequences, FiniteSets

CONSTANTS
    Symbols,
    Prices,             \* SIMULATED_PRICES, in cents
    Threshold,          \* threshold_pct, in thousandths of a percent
    StaleAfter, Window, \* stale_after_seconds, anomaly_window_seconds
    Refresh,            \* time from one snapshot of the dashboard to the next
    MaxMessages,        \* of one poll
    Capacity,           \* messages that a topic holds
    None,               \* no value yet
    Invalid,            \* a message that fails validation
    MaxTime, MaxTicks, MaxStops, MaxFaults     \* bounds

ASSUME PipelineAssumption ==
    /\ Prices \in Seq(Nat \ {0}) /\ Prices # <<>> /\ Threshold \in Nat
    /\ {StaleAfter, Window, Refresh, MaxMessages, Capacity} \subseteq Nat \ {0}
    /\ {MaxTime, MaxTicks, MaxStops, MaxFaults} \subseteq Nat
    /\ None \notin Nat

Topics == {"raw", "scored"}

VARIABLES
    now,                \* the clock
    stops, ticks, strays, failures,    \* what the bounds count: processes that ended, ticks
                        \* published, stray messages, failing polls
    publisher,          \* [up, symbol, published]
    queue,              \* of a topic: what waits for its subscriber
    scorer,             \* what the scorer does
    prices,             \* _previous_prices
    sequence,           \* _sequence_number
    previousSequence,   \* _previous_sequence_number
    annotated,          \* the tick in hand
    ended,              \* whether a scorer has just ended
    journal,            \* rows of realtime_event_journal
    dashboard,          \* what the dashboard does
    tracker,            \* RealtimeStateTracker
    polled,             \* messages read by this poll
    refreshed,          \* time of the last snapshot
    shown, anomalous    \* history: ticks shown by any dashboard; times of anomalies at this one

faults == <<strays, failures>>
counts == <<stops, ticks, faults>>
scoring == <<scorer, prices, sequence, previousSequence, annotated, ended>>
display == <<dashboard, tracker, polled, refreshed, shown, anomalous>>
vars == <<now, counts, publisher, queue, scoring, journal, display>>

(***************************************************************************)
(* The topics.                                                             *)
(***************************************************************************)
Subscribed(topic) == IF topic = "raw" THEN scorer # "down" ELSE dashboard # "down"

Deliver(topic, message) ==
    \/ UNCHANGED queue
    \/ /\ Subscribed(topic) /\ Len(queue[topic]) < Capacity
       /\ queue' = [queue EXCEPT ![topic] = Append(@, message)]

Take(topic) == queue' = [queue EXCEPT ![topic] = Tail(@)]

\* close(linger=0) of a publisher: some of what was sent last is lost.
HangUp(topic) == \E n \in 0..Len(queue[topic]) : queue' = [queue EXCEPT ![topic] = SubSeq(@, 1, n)]

\* While the publisher of a topic is down, another program has bound its endpoint.
Stray(topic) ==
    /\ strays + failures < MaxFaults
    /\ IF topic = "raw" THEN ~publisher.up ELSE scorer = "down"
    /\ Subscribed(topic) /\ Len(queue[topic]) < Capacity
    /\ queue' = [queue EXCEPT ![topic] = Append(@, Invalid)]
    /\ strays' = strays + 1
    /\ UNCHANGED <<now, stops, ticks, failures, publisher, scoring, journal, display>>

(***************************************************************************)
(* The publisher.                                                          *)
(***************************************************************************)
NoPublisher == [up |-> FALSE, symbol |-> None, published |-> 0]

NewTracker(time) ==
    [startedAt |-> time, lastAt |-> None, latest |-> None, ticks |-> 0, anomalies |-> <<>>,
     warning |-> FALSE]

Init ==
    /\ now = 0 /\ stops = 0 /\ ticks = 0 /\ strays = 0 /\ failures = 0
    /\ publisher = NoPublisher
    /\ queue = [topic \in Topics |-> <<>>]
    /\ scorer = "down" /\ prices = [s \in Symbols |-> None]
    /\ sequence = 0 /\ previousSequence = None /\ annotated = None /\ ended = FALSE
    /\ journal = <<>>
    /\ dashboard = "down" /\ polled = 0 /\ refreshed = 0 /\ shown = <<>> /\ anomalous = <<>>
    /\ tracker = NewTracker(0)

StartPublisher(symbol) ==
    /\ ~publisher.up
    /\ publisher' = [up |-> TRUE, symbol |-> symbol, published |-> 0]
    /\ UNCHANGED <<now, counts, queue, scoring, journal, display>>

\* The prices are a cycle.
Publish ==
    /\ publisher.up /\ ticks < MaxTicks
    /\ Deliver("raw", [symbol |-> publisher.symbol, at |-> now,
                       price |-> Prices[(publisher.published % Len(Prices)) + 1]])
    /\ publisher' = [publisher EXCEPT !.published = @ + 1]
    /\ ticks' = ticks + 1
    /\ UNCHANGED <<now, stops, faults, scoring, journal, display>>

\* The count is reached, Ctrl-C, or a kill.
StopPublisher ==
    /\ publisher.up /\ stops < MaxStops
    /\ stops' = stops + 1
    /\ publisher' = NoPublisher
    /\ HangUp("raw")
    /\ UNCHANGED <<now, ticks, faults, scoring, journal, display>>

(***************************************************************************)
(* The scorer.                                                             *)
(***************************************************************************)
\* A process takes longer to start than the 5 ms that exchange timestamps lie back.
StartScorer ==
    /\ scorer = "down" /\ ~ended
    /\ scorer' = "receiving"
    /\ UNCHANGED <<now, counts, publisher, queue, annotated, prices, sequence,
                   previousSequence, ended, journal, display>>

\* The change is rounded to 6 decimals of a percent in the code, which the prices never need.
Exceeds(previous, price) ==
    LET change == IF price > previous THEN price - previous ELSE previous - price
    IN  100000 * change > Threshold * previous

SequenceStatus(number, previous) ==
    IF previous = None THEN "FIRST"
    ELSE IF number = previous + 1 THEN "IN_ORDER"
    ELSE IF number > previous + 1 THEN "GAP"
    ELSE IF number = previous THEN "DUPLICATE" ELSE "REORDERED"

ScoreTick(tick, previous) ==
    [symbol |-> tick.symbol, at |-> tick.at, price |-> tick.price,
     previous |-> previous, anomaly |-> previous # None /\ Exceeds(previous, tick.price),
     sequence |-> sequence, status |-> SequenceStatus(sequence, previousSequence)]

\* Mutant: the first price of a symbol stays the base.
ScoreAgainstFirst ==
    LET tick == Head(queue["raw"]) IN
    /\ scorer = "receiving" /\ queue["raw"] # <<>> /\ tick # Invalid
    /\ annotated' = ScoreTick(tick, prices[tick.symbol])
    /\ prices' = [prices EXCEPT ![tick.symbol] = IF @ = None THEN tick.price ELSE @]
    /\ previousSequence' = sequence /\ sequence' = sequence + 1
    /\ scorer' = "scored" /\ Take("raw")
    /\ UNCHANGED <<now, counts, publisher, ended, journal, display>>

Score ==
    LET tick == Head(queue["raw"]) IN
    /\ scorer = "receiving" /\ queue["raw"] # <<>> /\ tick # Invalid
    /\ annotated' = ScoreTick(tick, prices[tick.symbol])
    /\ prices' = [prices EXCEPT ![tick.symbol] = tick.price]
    /\ previousSequence' = sequence /\ sequence' = sequence + 1
    /\ scorer' = "scored" /\ Take("raw")
    /\ UNCHANGED <<now, counts, publisher, ended, journal, display>>

\* Mutant: the id is made of the symbol and the number only.
EventIdWithoutTime(row) == <<row.symbol, row.sequence>>

EventId(row) == <<row.symbol, row.at, row.sequence>>

\* persist_realtime_event appends a row unless its id is known.
Persist ==
    /\ scorer = "scored"
    /\ journal' = IF \E k \in DOMAIN journal : EventId(journal[k]) = EventId(annotated)
                  THEN journal ELSE Append(journal, annotated)
    /\ scorer' = "journaled"
    /\ UNCHANGED <<now, counts, publisher, queue, prices, sequence, previousSequence,
                   annotated, ended, display>>

\* The time of sending is part of the message for FreshWhenShown only.
Republish ==
    /\ scorer = "journaled"
    /\ Deliver("scored", [row |-> annotated, sent |-> now])
    /\ scorer' = "receiving" /\ annotated' = None
    /\ UNCHANGED <<now, counts, publisher, prices, sequence, previousSequence,
                   ended, journal, display>>

\* The next scorer knows no prices and counts from zero.
ScorerEnds ==
    /\ scorer' = "down" /\ annotated' = None /\ ended' = TRUE
    /\ prices' = [s \in Symbols |-> None] /\ sequence' = 0 /\ previousSequence' = None
    /\ \E n \in 0..Len(queue["scored"]) :
          queue' = [raw |-> <<>>, scored |-> SubSeq(queue["scored"], 1, n)]
    /\ UNCHANGED <<now, ticks, faults, publisher, journal, display>>

\* validate_tick raises, and nothing catches it.
Refuse == /\ scorer = "receiving" /\ queue["raw"] # <<>> /\ Head(queue["raw"]) = Invalid
          /\ ScorerEnds /\ UNCHANGED stops

\* A time-out, a database in use by another process, Ctrl-C, a kill, or the count is reached:
\* the scorer survives none of them.
StopScorer == /\ scorer # "down" /\ stops < MaxStops
              /\ ScorerEnds /\ stops' = stops + 1

(***************************************************************************)
(* The feed panel of the dashboard.                                        *)
(***************************************************************************)
StartDashboard ==
    /\ dashboard = "down"
    /\ dashboard' = "up"
    /\ tracker' = NewTracker(now) /\ refreshed' = now
    /\ UNCHANGED <<now, counts, publisher, queue, scoring, journal, polled, shown, anomalous>>

\* A poll has not read its share; the time between two polls is that between two steps.
CanRead == dashboard = "up" /\ polled < MaxMessages /\ queue["scored"] # <<>>

Observe ==
    LET message == Head(queue["scored"]) IN
    /\ CanRead /\ message # Invalid
    /\ Take("scored") /\ polled' = polled + 1
    /\ tracker' = [tracker EXCEPT
           !.lastAt = now, !.latest = message, !.ticks = @ + 1, !.warning = FALSE,
           !.anomalies = IF message.row.anomaly THEN Append(@, now) ELSE @]
    /\ shown' = Append(shown, message.row)
    /\ anomalous' = IF message.row.anomaly THEN Append(anomalous, now) ELSE anomalous
    /\ UNCHANGED <<now, counts, publisher, scoring, journal, dashboard, refreshed>>

ObserveInvalid ==
    /\ CanRead /\ Head(queue["scored"]) = Invalid
    /\ Take("scored") /\ polled' = polled + 1
    /\ tracker' = [tracker EXCEPT !.warning = TRUE]
    /\ UNCHANGED <<now, counts, publisher, scoring, journal, dashboard, refreshed, shown,
                   anomalous>>

\* Mutant: a warning is more important than age.
StatusWarningFirst(t) ==
    IF t.warning THEN "DEGRADED"
    ELSE IF t.lastAt = None
    THEN IF now - t.startedAt >= StaleAfter THEN "UNAVAILABLE" ELSE "WAITING"
    ELSE IF now - t.lastAt >= StaleAfter THEN "STALE" ELSE "LIVE"

Status(t) ==
    IF t.lastAt = None
    THEN IF now - t.startedAt >= StaleAfter THEN "UNAVAILABLE"
         ELSE IF t.warning THEN "DEGRADED" ELSE "WAITING"
    ELSE IF now - t.lastAt >= StaleAfter THEN "STALE"
         ELSE IF t.warning THEN "DEGRADED" ELSE "LIVE"

\* Mutant: one old anomaly is dropped per snapshot.
PrunedOnce(times) ==
    IF times # <<>> /\ Head(times) < now - Window THEN Tail(times) ELSE times

\* Times leave at the front while the one there is too old.
Pruned(times) ==
    LET old == CHOOSE n \in 0..Len(times) :
                  /\ \A i \in 1..n : times[i] < now - Window
                  /\ n < Len(times) => times[n + 1] >= now - Window
    IN  SubSeq(times, old + 1, Len(times))

\* The poll has read its share, or nothing is left to read.
Drained == dashboard = "up" /\ (polled = MaxMessages \/ queue["scored"] = <<>>)

\* What the snapshot reports, apart from the latest tick and the latest reason.
Report(t) == [status |-> Status(t), ticks |-> t.ticks, recent |-> Len(Pruned(t.anomalies))]

\* The snapshot prunes the anomalies.  A failing socket (failed) ends the poll with a warning.
Snapshot(failed) ==
    /\ IF failed THEN dashboard = "up" /\ polled < MaxMessages /\ strays + failures < MaxFaults
                 ELSE Drained
    /\ tracker' = [tracker EXCEPT !.warning = @ \/ failed, !.anomalies = Pruned(@)]
    /\ refreshed' = now
    /\ polled' = 0
    /\ failures' = IF failed THEN failures + 1 ELSE failures
    /\ UNCHANGED <<now, stops, ticks, strays, publisher, queue, scoring, journal, dashboard, shown,
                   anomalous>>

\* Ctrl-C, a kill, or a message that is not JSON, which poll does not catch.
StopDashboard ==
    /\ dashboard # "down" /\ stops < MaxStops
    /\ stops' = stops + 1
    /\ dashboard' = "down" /\ refreshed' = 0 /\ polled' = 0
    /\ anomalous' = <<>> /\ tracker' = NewTracker(0)
    /\ queue' = [queue EXCEPT !["scored"] = <<>>]
    /\ UNCHANGED <<now, ticks, faults, publisher, scoring, journal, shown>>

\* The clock.  The dashboard makes a snapshot at least every Refresh.
Tick ==
    /\ now < MaxTime
    /\ dashboard = "up" => now < refreshed + Refresh
    /\ now' = now + 1 /\ ended' = FALSE
    /\ UNCHANGED <<counts, publisher, queue, scorer, prices, sequence, previousSequence, annotated,
                   journal, display>>

Next ==
    \/ \E symbol \in Symbols : StartPublisher(symbol)
    \/ Publish \/ StopPublisher
    \/ \E topic \in Topics : Stray(topic)
    \/ StartScorer \/ Score \/ Refuse \/ Persist \/ Republish \/ StopScorer
    \/ StartDashboard \/ Observe \/ ObserveInvalid \/ StopDashboard
    \/ \E failed \in BOOLEAN : Snapshot(failed)
    \/ Tick

Spec == Init /\ [][Next]_vars

(***************************************************************************)
(* Properties.                                                             *)
(***************************************************************************)
Ticks == [symbol : Symbols, at : Nat, price : Nat]
Rows ==
    [symbol : Symbols, at : Nat, price : Nat, previous : Nat \cup {None}, anomaly : BOOLEAN,
     sequence : Nat, status : {"FIRST", "IN_ORDER", "GAP", "DUPLICATE", "REORDERED"}]
Shipments == [row : Rows, sent : Nat]
Trackers ==
    [startedAt : Nat, lastAt : Nat \cup {None}, latest : Shipments \cup {None}, ticks : Nat,
     anomalies : Seq(Nat), warning : BOOLEAN]

\* Each topic has messages of its own and those of strangers, no more than it can hold.
QueuesOK ==
    /\ queue \in [Topics -> Seq(Ticks \cup Shipments \cup {Invalid})]
    /\ queue["raw"] \in Seq(Ticks \cup {Invalid})
    /\ queue["scored"] \in Seq(Shipments \cup {Invalid})
    /\ \A topic \in Topics : Len(queue[topic]) <= Capacity

\* Every variable has its type.
TypeOK ==
    /\ QueuesOK
    /\ now \in Nat /\ stops \in Nat /\ ticks \in Nat /\ strays \in Nat /\ failures \in Nat
    /\ sequence \in Nat /\ refreshed \in Nat
    /\ publisher \in [up : BOOLEAN, symbol : Symbols \cup {None}, published : Nat]
    /\ publisher.up => publisher.symbol \in Symbols
    /\ scorer \in {"down", "receiving", "scored", "journaled"}
    /\ prices \in [Symbols -> Nat \cup {None}] /\ previousSequence \in Nat \cup {None}
    /\ annotated \in (IF scorer \in {"scored", "journaled"} THEN Rows ELSE {None})
    /\ ended \in BOOLEAN /\ journal \in Seq(Rows)
    /\ dashboard \in {"down", "up"} /\ tracker \in Trackers /\ polled \in 0..MaxMessages
    /\ shown \in Seq(Rows) /\ anomalous \in Seq(Nat)

\* WORKFLOW_DESIGN.md "Auditability: every alert ties back to stored ... evidence": every flag
\* can be recomputed from the journal alone.  Rows
\* of one scorer follow one another and are numbered from zero; the base of a row is the row
\* before it of the same symbol and scorer.
JournalExplains ==
    \A k \in DOMAIN journal :
        LET row == journal[k]
            first == CHOOSE f \in 1..k : journal[f].sequence = 0
                                         /\ \A j \in (f + 1)..k : journal[j].sequence # 0
            base == {j \in first..(k - 1) : journal[j].symbol = row.symbol}
        IN  /\ row.sequence = k - first
            /\ row.status = (IF k = first THEN "FIRST" ELSE "IN_ORDER")
            /\ IF base = {} THEN row.previous = None /\ ~row.anomaly
               ELSE \E j \in base : /\ \A i \in base : i <= j
                                    /\ row.previous = journal[j].price
                                    /\ row.anomaly = Exceeds(journal[j].price, row.price)

\* RUNBOOK.md "We append annotated events from the scorer": whatever the panel shows is a row of
\* the journal, never an old one after a newer, across restarts of every process: see LossyFeed.
Position(row) ==
    IF \E k \in DOMAIN journal : journal[k] = row
    THEN CHOOSE k \in DOMAIN journal : journal[k] = row ELSE 0
Contract == INSTANCE LossyFeed
    WITH recorded <- journal, positions <- [i \in DOMAIN shown |-> Position(shown[i])]
ImplementsLossyFeed == Contract!Spec

\* The panel never claims a feed to be live that is not: unless it says STALE, its latest tick
\* was sent within stale_after_seconds and the time that draining a full topic takes, a refresh
\* more for each failed poll.
FreshWhenShown ==
    Drained /\ Report(tracker).ticks > 0 /\ Report(tracker).status # "STALE" =>
        now - tracker.latest.sent <
            StaleAfter + Refresh * ((Capacity + MaxMessages - 1) \div MaxMessages + 1 + failures)

\* The recent anomalies of a snapshot are those observed within the window, no others.
AnomaliesAreRecent ==
    dashboard = "up" =>
        Report(tracker).recent =
            Cardinality({i \in DOMAIN anomalous : anomalous[i] >= now - Window})
=============================================================================
