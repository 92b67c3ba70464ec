--------------------------- MODULE AlertDispatcher ---------------------------
(***************************************************************************)
(* alerts.py: evaluate_operational_alerts reads aggregates of the control  *)
(* store and hands each alert to one AlertDispatcher, which posts it       *)
(* unless the same alert was delivered less than a cooldown ago.           *)
(*                                                                         *)
(* Callers are the threads that share the dispatcher of a process; a post  *)
(* is made outside the lock.  The destination may receive a message whose  *)
(* acknowledgement is lost.                                                *)
(***************************************************************************)
EXTENDS Naturals, Sequences, FiniteSets

CONSTANTS
    Callers, Providers,
    Databases,          \* what the control store may say
    FailureRate,        \* provider_failure_rate, in percent
    Latency,            \* provider_latency_ms
    Cooldown,           \* cooldown_seconds
    None,               \* NULL, or no value yet
    MaxTime, MaxFaults  \* bounds

ASSUME DispatcherAssumption ==
    /\ FailureRate \in 0..100 /\ Latency \in Nat \ {0} /\ Cooldown \in Nat
    /\ {MaxTime, MaxFaults} \subseteq Nat
    /\ None \notin Nat /\ None \notin Providers
    /\ Databases \subseteq
         [overdue : Nat, failedPartitions : Nat,
          metrics : [Providers -> [requests : Nat, failures : Nat, latency : Nat \cup {None}]]]

VARIABLES
    now,                \* time.monotonic
    database,           \* what the store says
    since,              \* history: when each alert that holds began to
    webhook,            \* whether webhook_url is set
    lastSent,           \* _last_sent
    failures,           \* delivery_failures
    caller,             \* where each caller is in evaluate and dispatch
    faults,             \* posts that failed and processes that ended
    delivered           \* history: of each alert, the latest clock of an acknowledged post of
                        \* this process, and of one that no other dispatch overlapped

environment == <<now, database, since, webhook>>
vars == <<environment, lastSent, failures, caller, faults, delivered>>

(***************************************************************************)
(* The rules.  A fingerprint is the rule and, if it has one, the provider: *)
(* counts, rates and severities are no part of it.                         *)
(***************************************************************************)
ProviderRules == {"provider_failure_rate", "provider_latency"}
Fingerprints ==
    ({"overdue_exceptions", "failed_partitions"} \X {None}) \cup (ProviderRules \X Providers)

\* A provider without requests in the window has no row.
FailsTooOften(m) ==
    m.requests > 0 /\ m.failures * 100 >= FailureRate * m.requests /\ m.failures > 0

IsTooSlow(m) == m.requests > 0 /\ m.latency # None /\ m.latency >= Latency

Alerts(db) ==
    {<<"overdue_exceptions", n>> : n \in {n \in {None} : db.overdue > 0}}
    \cup {<<"failed_partitions", n>> : n \in {n \in {None} : db.failedPartitions > 0}}
    \cup {<<"provider_failure_rate", p>> : p \in {p \in Providers : FailsTooOften(db.metrics[p])}}
    \cup {<<"provider_latency", p>> : p \in {p \in Providers : IsTooSlow(db.metrics[p])}}

(***************************************************************************)
(* The environment.                                                        *)
(***************************************************************************)
\* alerts is the list of an evaluation that began at begun, pending what is not dispatched
\* yet, current the alert in dispatch, which read the clock at started, and counter what it
\* read of delivery_failures.  alone is history: nobody else dispatched current meanwhile.
IdleCaller ==
    [phase |-> "idle", alerts |-> {}, begun |-> 0, pending |-> {}, current |-> None,
     started |-> 0, counter |-> 0, alone |-> TRUE]

Never == [latest |-> None, alone |-> None]

Init ==
    /\ now = 0 /\ database \in Databases /\ since = [a \in Fingerprints |-> 0]
    /\ webhook \in BOOLEAN
    /\ lastSent = [a \in Fingerprints |-> None] /\ failures = 0
    /\ caller = [c \in Callers |-> IdleCaller]
    /\ faults = 0
    /\ delivered = [a \in Fingerprints |-> Never]

Tick ==
    /\ now < MaxTime
    /\ now' = now + 1
    /\ UNCHANGED <<database, since, webhook, lastSent, failures, caller, faults, delivered>>

\* The batch, the exception workflow or the passing of time change what the store says.
Change(db) ==
    /\ db # database
    /\ database' = db
    /\ since' = [a \in Fingerprints |->
                   IF a \notin Alerts(db) THEN 0
                   ELSE IF a \in Alerts(database) THEN since[a] ELSE now]
    /\ UNCHANGED <<now, webhook, lastSent, failures, caller, faults, delivered>>

\* A new process has a new dispatcher.
Restart ==
    /\ faults < MaxFaults
    /\ faults' = faults + 1
    /\ lastSent' = [a \in Fingerprints |-> None] /\ failures' = 0
    /\ caller' = [c \in Callers |-> IdleCaller]
    /\ delivered' = [a \in Fingerprints |-> Never]
    /\ UNCHANGED <<now, database, since, webhook>>

(***************************************************************************)
(* evaluate_operational_alerts.  All aggregates are read over one          *)
(* connection, during which nobody else can write.  If it cannot be opened *)
(* the evaluation raises, and nothing has changed.                         *)
(***************************************************************************)
\* Mutant: the counter is that of the last evaluation.
EvaluateAfresh(c) ==
    /\ caller[c].phase = "idle"
    /\ caller' = [caller EXCEPT ![c] = [@ EXCEPT !.phase = "evaluated", !.begun = now,
                    !.alerts = Alerts(database), !.pending = Alerts(database)]]
    /\ failures' = 0
    /\ UNCHANGED <<environment, lastSent, faults, delivered>>

Evaluate(c) ==
    /\ caller[c].phase = "idle"
    /\ caller' = [caller EXCEPT ![c] = [@ EXCEPT !.phase = "evaluated", !.begun = now,
                    !.alerts = Alerts(database), !.pending = Alerts(database)]]
    /\ UNCHANGED <<environment, lastSent, failures, faults, delivered>>

(***************************************************************************)
(* AlertDispatcher.dispatch.  The clock is read before the lock is taken.  *)
(* GROUP BY leaves the order of the providers open: any order is allowed.  *)
(***************************************************************************)
Dispatch(c, a) ==
    /\ caller[c].phase = "evaluated" /\ a \in caller[c].pending
    /\ caller' = [d \in Callers |->
         IF d = c
         THEN [caller[c] EXCEPT !.phase = "checking", !.current = a, !.started = now,
                 !.alone = \A e \in Callers : caller[e].current # a]
         ELSE [caller[d] EXCEPT !.alone = @ /\ caller[d].current # a]]
    /\ UNCHANGED <<environment, lastSent, failures, faults, delivered>>

Continue(c, next) == caller' = [caller EXCEPT ![c] = [@ EXCEPT !.phase = next]]

\* The alert in hand is dealt with; the loop goes on with the next one.
Through(r) ==
    [r EXCEPT !.phase = "evaluated", !.pending = @ \ {r.current}, !.current = None,
              !.started = 0, !.counter = 0, !.alone = TRUE]

Conclude(c) == caller' = [caller EXCEPT ![c] = Through(caller[c])]

\* Mutant: a delivered alert is suppressed for the rest of the process.
SuppressedForGood(c) == lastSent[caller[c].current] # None

Suppressed(c) ==
    LET last == lastSent[caller[c].current]
    IN last # None /\ caller[c].started < last + Cooldown

\* Under the lock.  Without a webhook the alert is only logged.
Suppress(c) ==
    /\ caller[c].phase = "checking"
    /\ Suppressed(c) \/ ~webhook
    /\ Conclude(c)
    /\ UNCHANGED <<environment, lastSent, failures, faults, delivered>>

Post(c) ==
    /\ caller[c].phase = "checking"
    /\ ~Suppressed(c) /\ webhook
    /\ Continue(c, "posting")
    /\ UNCHANGED <<environment, lastSent, failures, faults, delivered>>

\* An error status, no connection, or a time-out, perhaps after the message arrived.
\* "+= 1" reads the counter here and writes it in Count: no lock is held.
PostFails(c) ==
    /\ caller[c].phase = "posting" /\ faults < MaxFaults
    /\ faults' = faults + 1
    /\ caller' = [caller EXCEPT ![c] = [@ EXCEPT !.phase = "counting", !.counter = failures]]
    /\ UNCHANGED <<environment, lastSent, failures, delivered>>

Count(c) ==
    /\ caller[c].phase = "counting"
    /\ failures' = caller[c].counter + 1
    /\ Conclude(c)
    /\ UNCHANGED <<environment, lastSent, faults, delivered>>

Later(time, known) == IF known # None /\ known > time THEN known ELSE time

Record(c) ==
    delivered' = [delivered EXCEPT ![caller[c].current] =
        [latest |-> Later(caller[c].started, @.latest),
         alone |-> IF caller[c].alone THEN caller[c].started ELSE @.alone]]

\* Mutant: the first delivery is remembered, not the last.
StampFirst(c) ==
    /\ caller[c].phase = "posting"
    /\ lastSent' = [lastSent EXCEPT ![caller[c].current] = IF @ = None THEN caller[c].started ELSE @]
    /\ Record(c)
    /\ Conclude(c)
    /\ UNCHANGED <<environment, failures, faults>>

\* An answer without error, and the lock is taken again: between the two nothing is shared.
\* The clock of the beginning is stored, even if another caller has stored a later one.
Stamp(c) ==
    /\ caller[c].phase = "posting"
    /\ lastSent' = [lastSent EXCEPT ![caller[c].current] = caller[c].started]
    /\ Record(c)
    /\ Conclude(c)
    /\ UNCHANGED <<environment, failures, faults>>

Evaluated(c) == caller[c].phase = "evaluated" /\ caller[c].pending = {}

Return(c) ==
    /\ Evaluated(c)
    /\ caller' = [caller EXCEPT ![c] = IdleCaller]
    /\ UNCHANGED <<environment, lastSent, failures, faults, delivered>>

Step(c) ==
    \/ Evaluate(c) \/ Suppress(c) \/ Post(c) \/ PostFails(c) \/ Count(c)
    \/ Stamp(c) \/ Return(c)
    \/ \E a \in caller[c].pending : Dispatch(c, a)

Next ==
    \/ Tick \/ Restart
    \/ \E db \in Databases : Change(db)
    \/ \E c \in Callers : Step(c)

Spec == Init /\ [][Next]_vars

\* A scheduler keeps evaluating, and a post ends with an answer or a time-out.
FairSpec == Spec /\ \A c \in Callers : WF_vars(Step(c))

Phases == {"idle", "evaluated", "checking", "posting", "counting"}

CallerStates ==
    [phase : Phases, alerts : SUBSET Fingerprints, begun : Nat, pending : SUBSET Fingerprints,
     current : Fingerprints \cup {None}, started : Nat, counter : Nat, alone : BOOLEAN]

TypeOK ==
    /\ now \in Nat /\ database \in Databases /\ webhook \in BOOLEAN
    /\ since \in [Fingerprints -> Nat] /\ lastSent \in [Fingerprints -> Nat \cup {None}]
    /\ failures \in Nat /\ faults \in Nat
    /\ caller \in [Callers -> CallerStates]
    /\ delivered \in [Fingerprints -> [latest : Nat \cup {None}, alone : Nat \cup {None}]]

(***************************************************************************)
(* Properties.                                                             *)
(***************************************************************************)
\* docs/OBSERVABILITY.md: "duplicate alerts are suppressed within a long-running process for
\* the configured cooldown".  After a delivery that no other caller's dispatch of the alert
\* overlapped, the alert is not delivered again by the process before the cooldown is over.
\* With one caller this is every delivery; two that overlap may both post, and may leave the
\* earlier of their times behind.
CooldownHolds ==
    [][\A c \in Callers :
         Stamp(c) => LET alone == delivered[caller[c].current].alone
                     IN alone # None => caller[c].started >= alone + Cooldown]_vars

\* Less than a cooldown before the time, or later.
DeliveredSince(a, time) ==
    LET latest == delivered[a].latest
    IN latest # None /\ (latest >= time \/ latest + Cooldown > time)

\* What the exit code of main relies on: when an evaluation ends and delivery_failures is 0,
\* each of its alerts was delivered by this process, not longer than a cooldown before the
\* evaluation began; what was suppressed was suppressed for that alert's own sake.  The
\* counter may lose increments of callers that fail together, but not all of them.
EvaluationReports ==
    \A c \in Callers :
        Evaluated(c) /\ webhook /\ failures = 0 =>
            \A a \in caller[c].alerts : DeliveredSince(a, caller[c].begun)

\* An alert that begins to hold either stops or is delivered, or was delivered less than a
\* cooldown before it began: neither the cooldown of an earlier occurrence, nor webhook errors,
\* nor restarts hide a lasting condition.
LastingConditionArrives ==
    \A a \in UNION {Alerts(db) : db \in Databases} :
        (webhook /\ a \in Alerts(database)) ~>
            (a \notin Alerts(database) \/ DeliveredSince(a, since[a]))
=============================================================================
