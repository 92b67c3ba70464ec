---------------------------- MODULE FeedMonitor ----------------------------
(***************************************************************************)
(* realtime/network_transport.py: monitor_transport with its               *)
(* SequenceTracker and the DuckDB event journal.  The monitor receives an  *)
(* event, classifies its vendor sequence number against what this process  *)
(* has seen, and then persists it; the journal keeps one row per event id  *)
(* and outlives the process, the tracker does not.                         *)
(*                                                                         *)
(* The network is a multicast group at its worst: any event may arrive at  *)
(* any time, again, late or never.  The event id is derived from the       *)
(* stream and the number (from_mapping), so a number that arrives again is *)
(* the same event.                                                         *)
(***************************************************************************)
EXTENDS Integers, Sequences

CONSTANTS
    Streams,        \* (source, stream_id) pairs
    Numbers,        \* vendor sequence numbers
    Window,         \* duplicate_window
    Absent,         \* no number, no row, nothing pending
    MaxArrivals,    \* bound: events received by one process, per stream
    MaxStarts       \* bound: processes

ASSUME FeedAssumption ==
    /\ Numbers \subseteq Nat
    /\ Window \in Nat \ {0} /\ MaxArrivals \in Nat /\ MaxStarts \in Nat

Statuses == {"FIRST", "IN_ORDER", "GAP", "DUPLICATE", "REORDERED"}
Events == Streams \X Numbers
Held(contents) == contents \cup {Absent}
Rows == [status : Statuses, expected : Held(Nat), missing : Nat]
Classified == [event : Events, row : Rows]

ASSUME AbsentAssumption == Absent \notin Nat \cup Rows \cup Classified

VARIABLES
    up,             \* whether a monitor process runs
    highest,        \* SequenceTracker._highest
    recent,         \* SequenceTracker._recent (its counts are how often it holds a number)
    pending,        \* the event that is classified and not persisted yet, with its row
    journal,        \* realtime_event_journal, by event
    inherited,      \* history: events that were journaled before this process started
    first,          \* history: first number of each stream in this process
    arrivals,       \* history: numbers in order of arrival in this process
    advances,       \* history: observations that moved highest
    reported,       \* history: sum of the missing counts
    starts          \* processes so far

tracker == <<highest, recent>>
history == <<inherited, first, arrivals, advances, reported>>
vars == <<up, tracker, pending, journal, history, starts>>

Occurring(seq) == {seq[i] : i \in 1..Len(seq)}

Init ==
    /\ up = FALSE /\ starts = 0 /\ pending = Absent
    /\ highest = [s \in Streams |-> Absent] /\ recent = [s \in Streams |-> <<>>]
    /\ journal = [e \in Events |-> Absent] /\ inherited = {}
    /\ first = [s \in Streams |-> Absent] /\ arrivals = [s \in Streams |-> <<>>]
    /\ advances = [s \in Streams |-> 0] /\ reported = [s \in Streams |-> 0]

\* A monitor starts with an empty tracker, and with the journal as it was left.
Start ==
    /\ ~up /\ starts < MaxStarts
    /\ up' = TRUE /\ starts' = starts + 1
    /\ highest' = [s \in Streams |-> Absent] /\ recent' = [s \in Streams |-> <<>>]
    /\ inherited' = {e \in Events : journal[e] # Absent}
    /\ first' = [s \in Streams |-> Absent] /\ arrivals' = [s \in Streams |-> <<>>]
    /\ advances' = [s \in Streams |-> 0] /\ reported' = [s \in Streams |-> 0]
    /\ UNCHANGED <<pending, journal>>

(***************************************************************************)
(* SequenceTracker.observe.                                                *)
(***************************************************************************)
Row(status, expected, missing) ==
    [status |-> status, expected |-> expected, missing |-> missing]

\* Mutant: the window is not looked at, a repeated number is late or next.
ObservationUnwindowed(s, n) ==
    LET next == highest[s] + 1 IN
    IF highest[s] = Absent THEN Row("FIRST", Absent, 0)
    ELSE CASE n = next -> Row("IN_ORDER", next, 0)
           [] n > next -> Row("GAP", next, n - highest[s])
           [] n < next -> Row("REORDERED", next, 0)

\* The classification of number n, tested in the code's order.
Observation(s, n) ==
    LET next == highest[s] + 1 IN
    IF n \in Occurring(recent[s]) THEN Row("DUPLICATE", next, 0)
    ELSE IF highest[s] = Absent THEN Row("FIRST", Absent, 0)
    ELSE CASE n = next -> Row("IN_ORDER", next, 0)
           [] n > next -> Row("GAP", next, n - next)
           [] n < next -> Row("REORDERED", next, 0)

Advancing == {"FIRST", "IN_ORDER", "GAP"}

\* Mutant: the window forgets one number early.
SlideShort(seq, n) ==
    LET longer == Append(seq, n) IN
    IF Len(longer) >= Window THEN Tail(longer) ELSE longer

\* The sliding window: append, then drop what is beyond duplicate_window.
Slide(seq, n) ==
    LET longer == Append(seq, n) IN
    IF Len(longer) > Window THEN Tail(longer) ELSE longer

\* monitor_transport classifies before it persists.
Receive(s, n) ==
    LET row == Observation(s, n)
        advance == row.status \in Advancing
    IN
    /\ up /\ pending = Absent /\ Len(arrivals[s]) < MaxArrivals
    /\ highest' = IF advance THEN [highest EXCEPT ![s] = n] ELSE highest
    /\ recent' = [recent EXCEPT ![s] = Slide(@, n)]
    /\ pending' = [event |-> <<s, n>>, row |-> row]
    /\ first' = IF row.status = "FIRST" THEN [first EXCEPT ![s] = n] ELSE first
    /\ arrivals' = [arrivals EXCEPT ![s] = Append(@, n)]
    /\ advances' = IF advance THEN [advances EXCEPT ![s] = @ + 1] ELSE advances
    /\ reported' = [reported EXCEPT ![s] = @ + row.missing]
    /\ UNCHANGED <<up, journal, inherited, starts>>

\* Mutant: a journal write that fails is passed over and the monitor goes on.
PersistLossy ==
    /\ pending # Absent
    /\ journal' \in {journal, [journal EXCEPT ![pending.event] =
                                   IF @ = Absent THEN pending.row ELSE @]}
    /\ pending' = Absent
    /\ UNCHANGED <<up, tracker, history, starts>>

\* persist_realtime_event: an event id that is journaled already is left alone.
Persist ==
    /\ pending # Absent
    /\ journal' = IF journal[pending.event] = Absent
                  THEN [journal EXCEPT ![pending.event] = pending.row] ELSE journal
    /\ pending' = Absent
    /\ UNCHANGED <<up, tracker, history, starts>>

\* The requested count is reached, a frame is malformed, the journal cannot be written,
\* or the process is killed: what was not persisted is gone.
Stop ==
    /\ up /\ up' = FALSE
    /\ pending' = Absent
    /\ UNCHANGED <<tracker, journal, history, starts>>

\* The monitor is not started any more, or the feed has gone silent.
Rest == (\/ ~up /\ starts = MaxStarts
         \/ \A s \in Streams : Len(arrivals[s]) = MaxArrivals) /\ UNCHANGED vars

Next == Start \/ Persist \/ Stop \/ Rest \/ \E s \in Streams, n \in Numbers : Receive(s, n)

Spec == Init /\ [][Next]_vars

(***************************************************************************)
(* Properties.                                                             *)
(***************************************************************************)
\* Every variable has its type.
TypeOK ==
    /\ up \in BOOLEAN /\ starts \in Nat
    /\ highest \in [Streams -> Held(Numbers)] /\ recent \in [Streams -> Seq(Numbers)]
    /\ pending \in Held(Classified)
    /\ journal \in [Events -> Held(Rows)]
    /\ inherited \subseteq Events
    /\ first \in [Streams -> Held(Numbers)] /\ arrivals \in [Streams -> Seq(Numbers)]
    /\ advances \in [Streams -> Nat] /\ reported \in [Streams -> Nat]

\* The last Window members of a sequence.
Latest(all) == SubSeq(all, IF Len(all) > Window THEN Len(all) - Window + 1 ELSE 1, Len(all))

\* NETWORK_TRANSPORTS.md, the sequence table: the tracker is what its table says, the
\* highest number and the last Window numbers of everything this process received.
TrackerMatchesArrivals ==
    \A s \in Streams :
        /\ recent[s] = Latest(arrivals[s])
        /\ highest[s] # Absent => highest[s] \in Occurring(arrivals[s])
        /\ \A n \in Occurring(arrivals[s]) : highest[s] # Absent /\ n <= highest[s]

\* Losses are reported exactly once: from the first number to the highest, each number
\* either moved the tracker or was counted in exactly one missing_count; duplicates,
\* late arrivals and what fell out of the window change neither.
GapLedger ==
    \A s \in Streams : highest[s] # Absent =>
        advances[s] + reported[s] = highest[s] - first[s] + 1

\* Whether number n of stream s is in the journal, or on its way there, or counted as
\* missing by an event that is.
Accounted(s, n) ==
    \E m \in Numbers :
        LET event == <<s, m>>
            row == IF pending # Absent /\ pending.event = event /\ journal[event] = Absent
                   THEN pending.row ELSE journal[event]
        IN row # Absent /\ (m = n \/ (row.status = "GAP" /\ row.expected <= n /\ n < m))

\* The number whose arrival, as the i-th of its stream, was the first not below n.
Reveals(s, i, n) ==
    n <= arrivals[s][i] /\ \A j \in 1..(i - 1) : arrivals[s][j] < n

\* NETWORK_TRANSPORTS.md:110 "We store expected sequence and missing count in the event
\* journal": each number between the first and the highest of a process can be accounted
\* for from the journal.
LossesAreJournaled ==
    up => \A s \in Streams : highest[s] # Absent =>
              \A n \in first[s]..highest[s] : Accounted(s, n)

\* What the journal can lack of the numbers a process went over, whatever was journaled
\* before it and wherever it ends: what was revealed by an event that an earlier process
\* had journaled, whose row the new one's is dropped for, and what was revealed by the last
\* event of a process that ended before the event was persisted.
OnlyRestartsHideLosses ==
    \A s \in Streams : highest[s] # Absent =>
        \A n \in first[s]..highest[s] :
            \/ Accounted(s, n)
            \/ \E i \in 1..Len(arrivals[s]) :
                  /\ Reveals(s, i, n)
                  /\ \/ <<s, arrivals[s][i]>> \in inherited
                     \/ ~up /\ i = Len(arrivals[s])
=============================================================================
