------------------------ MODULE AlertDispatcherProofs ------------------------
(***************************************************************************)
(* Proofs about AlertDispatcher, for any callers, providers, contents of   *)
(* the control store, thresholds, cooldowns and faults.                    *)
(***************************************************************************)
EXTENDS AlertDispatcher, TLAPS

InDispatch == {"checking", "posting", "counting"}

(***************************************************************************)
(* The inductive invariant.                                                *)
(***************************************************************************)
\* An evaluation began, and a dispatch of it read the clock, in this order.
ClockInv(c) ==
    /\ caller[c].begun <= now
    /\ caller[c].phase \in InDispatch => caller[c].begun <= caller[c].started

\* A caller that dispatches alone is the only one that dispatches its alert.
AloneInv(c) ==
    caller[c].phase \in InDispatch =>
        /\ caller[c].current \in Fingerprints
        /\ caller[c].alone =>
             \A e \in Callers \ {c} :
                 caller[e].phase \in InDispatch => caller[e].current # caller[c].current

\* What is remembered of an alert is the clock of some delivery of it, and no earlier than
\* that of the last delivery that nobody overlapped.
MemoryInv ==
    \A a \in Fingerprints :
        /\ lastSent[a] # None => delivered[a].latest # None /\ lastSent[a] <= delivered[a].latest
        /\ delivered[a].alone # None => lastSent[a] # None /\ delivered[a].alone <= lastSent[a]

\* Who posts has seen that the cooldown of the last delivery that nobody overlapped is over.
PostingInv(c) ==
    caller[c].phase = "posting" =>
        LET alone == delivered[caller[c].current].alone
        IN alone # None => caller[c].started >= alone + Cooldown

\* What an evaluation is through with was delivered, unless a failure was counted.
ReportInv(c) ==
    caller[c].phase # "idle" /\ webhook /\ failures = 0 =>
        \A a \in caller[c].alerts \ caller[c].pending : DeliveredSince(a, caller[c].begun)

IInv ==
    /\ TypeOK /\ MemoryInv
    /\ \A c \in Callers : ClockInv(c) /\ AloneInv(c) /\ PostingInv(c) /\ ReportInv(c)

(***************************************************************************)
(* Types.                                                                  *)
(***************************************************************************)
LEMMA AlertTypes == ASSUME NEW db PROVE Alerts(db) \in SUBSET Fingerprints
BY DEF Alerts, Fingerprints, ProviderRules

LEMMA IdleType == IdleCaller \in CallerStates
BY DEF IdleCaller, CallerStates, Phases

LEMMA ContinueType ==
    ASSUME NEW r \in CallerStates, NEW p \in Phases, NEW n \in Nat
    PROVE  /\ [r EXCEPT !.phase = p] \in CallerStates
           /\ [r EXCEPT !.phase = p, !.counter = n] \in CallerStates
BY DEF CallerStates

LEMMA EvaluateType ==
    ASSUME NEW r \in CallerStates, NEW n \in Nat, NEW S \in SUBSET Fingerprints
    PROVE  [r EXCEPT !.phase = "evaluated", !.begun = n, !.alerts = S, !.pending = S] \in CallerStates
BY DEF CallerStates, Phases

LEMMA DispatchType ==
    ASSUME NEW r \in CallerStates, NEW a \in Fingerprints, NEW n \in Nat, NEW b \in BOOLEAN
    PROVE  /\ [r EXCEPT !.phase = "checking", !.current = a, !.started = n, !.alone = b] \in CallerStates
           /\ [r EXCEPT !.alone = b] \in CallerStates
BY DEF CallerStates, Phases

LEMMA DispatchFields ==
    ASSUME NEW r \in CallerStates, NEW a, NEW n, NEW b
    PROVE  LET s == [r EXCEPT !.phase = "checking", !.current = a, !.started = n, !.alone = b]
               t == [r EXCEPT !.alone = b]
           IN /\ s.phase = "checking" /\ s.current = a /\ s.started = n /\ s.alone = b
              /\ s.alerts = r.alerts /\ s.begun = r.begun /\ s.pending = r.pending
              /\ t.phase = r.phase /\ t.current = r.current /\ t.started = r.started
              /\ t.alerts = r.alerts /\ t.begun = r.begun /\ t.pending = r.pending
              /\ t.alone = b
BY DEF CallerStates

LEMMA ThroughType ==
    ASSUME NEW r \in CallerStates
    PROVE  /\ Through(r) \in CallerStates
           /\ Through(r).phase = "evaluated" /\ Through(r).pending = r.pending \ {r.current}
           /\ Through(r).alerts = r.alerts /\ Through(r).begun = r.begun
BY DEF Through, CallerStates, Phases

\* The state of a caller that is through with an alert.
LEMMA Concluded ==
    ASSUME TypeOK, NEW c \in Callers, Conclude(c)
    PROVE  /\ caller' \in [Callers -> CallerStates]
           /\ \A d \in Callers \ {c} : caller'[d] = caller[d]
           /\ caller'[c].phase = "evaluated"
           /\ caller'[c].pending = caller[c].pending \ {caller[c].current}
           /\ caller'[c].alerts = caller[c].alerts /\ caller'[c].begun = caller[c].begun
BY ThroughType DEF Conclude, TypeOK

\* The state of a caller whose phase changes.
LEMMA Continued ==
    ASSUME TypeOK, NEW c \in Callers, NEW p \in Phases, Continue(c, p)
    PROVE  /\ caller' \in [Callers -> CallerStates]
           /\ \A d \in Callers \ {c} : caller'[d] = caller[d]
           /\ caller'[c] = [caller[c] EXCEPT !.phase = p]
BY ContinueType DEF TypeOK, Continue

\* The states of all callers when an alert is dispatched.
LEMMA Dispatched ==
    ASSUME TypeOK, NEW c \in Callers, NEW a \in Fingerprints, Dispatch(c, a)
    PROVE  /\ caller' \in [Callers -> CallerStates]
           /\ \A d \in Callers \ {c} :
                caller'[d] = [caller[d] EXCEPT !.alone = @ /\ caller[d].current # a]
           /\ caller'[c] = [caller[c] EXCEPT !.phase = "checking", !.current = a, !.started = now,
                              !.alone = \A e \in Callers : caller[e].current # a]
<1>1. now \in Nat /\ \A d \in Callers : caller[d] \in CallerStates
  BY DEF TypeOK
<1>2. \A d \in Callers : (caller[d].alone /\ caller[d].current # a) \in BOOLEAN
  BY <1>1 DEF CallerStates
<1>3. \A d \in Callers : [caller[d] EXCEPT !.alone = @ /\ caller[d].current # a] \in CallerStates
  BY <1>1, <1>2, DispatchType
<1>4. (\A e \in Callers : caller[e].current # a) \in BOOLEAN
  OBVIOUS
<1>5. [caller[c] EXCEPT !.phase = "checking", !.current = a, !.started = now,
         !.alone = \A e \in Callers : caller[e].current # a] \in CallerStates
  BY <1>1, <1>4, DispatchType
<1>6. QED
  BY <1>3, <1>5 DEF Dispatch

\* A step of the environment or of a caller.
LEMMA TypeStep == ASSUME TypeOK, [Next]_vars PROVE TypeOK'
<1> USE DispatcherAssumption DEF environment
<1>1. CASE UNCHANGED vars
  BY <1>1 DEF vars, TypeOK
<1>2. CASE Tick
  BY <1>2 DEF Tick, TypeOK
<1>3. CASE Restart
  BY <1>3, IdleType DEF Restart, Never, TypeOK
<1>4. ASSUME NEW db \in Databases, Change(db)
      PROVE  TypeOK'
  BY <1>4 DEF Change, TypeOK
<1>5. ASSUME NEW c \in Callers, Evaluate(c)
      PROVE  TypeOK'
  <2>1. caller' \in [Callers -> CallerStates]
    BY <1>5, AlertTypes, EvaluateType DEF Evaluate, TypeOK
  <2>2. QED
    BY <1>5, <2>1 DEF Evaluate, TypeOK
<1>6. ASSUME NEW c \in Callers, NEW a \in caller[c].pending, Dispatch(c, a)
      PROVE  TypeOK'
  <2>1. a \in Fingerprints
    BY DEF TypeOK, CallerStates
  <2>2. QED
    BY <1>6, <2>1, Dispatched DEF Dispatch, TypeOK
<1>7. ASSUME NEW c \in Callers, Suppress(c)
      PROVE  TypeOK'
  BY <1>7, Concluded DEF Suppress, TypeOK
<1>8. ASSUME NEW c \in Callers, Post(c)
      PROVE  TypeOK'
  BY <1>8, Continued DEF Post, TypeOK, Phases
<1>9. ASSUME NEW c \in Callers, PostFails(c)
      PROVE  TypeOK'
  <2>1. caller' \in [Callers -> CallerStates]
    BY <1>9, ContinueType DEF PostFails, TypeOK, Phases
  <2>2. QED
    BY <1>9, <2>1 DEF PostFails, TypeOK
<1>10. ASSUME NEW c \in Callers, Count(c)
       PROVE  TypeOK'
  <2>1. failures' \in Nat
    BY <1>10 DEF Count, TypeOK, CallerStates
  <2>2. QED
    BY <1>10, <2>1, Concluded DEF Count, TypeOK
<1>11. ASSUME NEW c \in Callers, Stamp(c)
       PROVE  TypeOK'
  <2>1. caller[c].started \in Nat
    BY DEF TypeOK, CallerStates
  <2>2. lastSent' \in [Fingerprints -> Nat \cup {None}]
    BY <1>11, <2>1 DEF Stamp, TypeOK
  <2>3. delivered' \in [Fingerprints -> [latest : Nat \cup {None}, alone : Nat \cup {None}]]
    BY <1>11, <2>1 DEF Stamp, Record, Later, TypeOK
  <2>4. QED
    BY <1>11, <2>2, <2>3, Concluded DEF Stamp, TypeOK
<1>12. ASSUME NEW c \in Callers, Return(c)
       PROVE  TypeOK'
  BY <1>12, IdleType DEF Return, TypeOK
<1>13. QED
  BY <1>1, <1>2, <1>3, <1>4, <1>5, <1>6, <1>7, <1>8, <1>9, <1>10, <1>11, <1>12 DEF Next, Step

(***************************************************************************)
(* Every step preserves the invariant, action by action.                   *)
(***************************************************************************)
\* A step that changes neither what is remembered nor the counter nor the time, and of one
\* caller c only the phase and the counter it read.
LEMMA PhaseStep ==
    ASSUME IInv, TypeOK', NEW c \in Callers,
           UNCHANGED <<environment, lastSent, failures, delivered>>,
           caller[c].phase \in InDispatch, caller'[c].phase \in InDispatch,
           caller'[c].alerts = caller[c].alerts, caller'[c].begun = caller[c].begun,
           caller'[c].pending = caller[c].pending, caller'[c].current = caller[c].current,
           caller'[c].started = caller[c].started, caller'[c].alone = caller[c].alone,
           \A d \in Callers \ {c} : caller'[d] = caller[d],
           PostingInv(c)'
    PROVE  IInv'
<1>1. MemoryInv'
  BY DEF IInv, MemoryInv
<1>2. ASSUME NEW d \in Callers PROVE ClockInv(d)'
  BY DEF IInv, ClockInv, environment
<1>3. ASSUME NEW d \in Callers PROVE AloneInv(d)'
  BY DEF IInv, AloneInv
<1>4. ASSUME NEW d \in Callers PROVE PostingInv(d)'
  BY DEF IInv, PostingInv
<1>5. ASSUME NEW d \in Callers PROVE ReportInv(d)'
  BY DEF IInv, ReportInv, DeliveredSince, environment, InDispatch
<1>6. QED
  BY <1>1, <1>2, <1>3, <1>4, <1>5 DEF IInv

\* A step that leaves what is remembered, the counter and all callers as they are.
LEMMA QuietStep ==
    ASSUME IInv, TypeOK', UNCHANGED <<webhook, lastSent, failures, delivered, caller>>,
           now' >= now
    PROVE  IInv'
<1>1. MemoryInv'
  BY DEF IInv, MemoryInv
<1>2. ASSUME NEW d \in Callers PROVE ClockInv(d)'
  BY DEF IInv, ClockInv, TypeOK, CallerStates
<1>3. ASSUME NEW d \in Callers PROVE AloneInv(d)' /\ PostingInv(d)' /\ ReportInv(d)'
  BY DEF IInv, AloneInv, PostingInv, ReportInv, DeliveredSince
<1>4. QED
  BY <1>1, <1>2, <1>3 DEF IInv

LEMMA RestartStep == ASSUME IInv, TypeOK', Restart PROVE IInv'
<1>1. \A a \in Fingerprints :
        lastSent'[a] = None /\ delivered'[a].latest = None /\ delivered'[a].alone = None
  BY DEF Restart, Never
<1>2. \A d \in Callers : caller'[d].phase = "idle" /\ caller'[d].begun = 0
  BY DEF Restart, IdleCaller
<1>3. now' \in Nat
  BY DEF TypeOK
<1>4. MemoryInv'
  BY <1>1 DEF MemoryInv
<1>5. ASSUME NEW d \in Callers
      PROVE  ClockInv(d)' /\ AloneInv(d)' /\ PostingInv(d)' /\ ReportInv(d)'
  BY <1>2, <1>3 DEF ClockInv, AloneInv, PostingInv, ReportInv, InDispatch
<1>6. QED
  BY <1>4, <1>5 DEF IInv

\* An evaluation that begins has dealt with no alert, one that ended has none.
LEMMA EvaluateStep ==
    ASSUME IInv, TypeOK', NEW c \in Callers, Evaluate(c) \/ Return(c)
    PROVE  IInv'
<1> USE DEF environment, InDispatch
<1>1. /\ UNCHANGED <<environment, lastSent, failures, delivered>>
      /\ \A d \in Callers \ {c} : caller'[d] = caller[d]
      /\ caller'[c].phase \in {"evaluated", "idle"} /\ caller'[c].begun <= now
      /\ caller'[c].phase = "evaluated" => caller'[c].alerts = caller'[c].pending
  <2>1. TypeOK /\ now \in Nat /\ caller[c] \in CallerStates
    BY DEF IInv, TypeOK
  <2>2. CASE Evaluate(c)
    <3> DEFINE r == [caller[c] EXCEPT !.phase = "evaluated", !.begun = now,
                       !.alerts = Alerts(database), !.pending = Alerts(database)]
    <3>1. /\ r.phase = "evaluated" /\ r.begun = now /\ r.alerts = r.pending
      BY <2>1 DEF CallerStates
    <3>2. caller' = [caller EXCEPT ![c] = r]
      BY <2>2 DEF Evaluate
    <3> HIDE DEF r
    <3>3. QED
      BY <2>1, <2>2, <3>1, <3>2 DEF Evaluate, TypeOK
  <2>3. CASE Return(c)
    BY <2>1, <2>3 DEF Return, IdleCaller, TypeOK
  <2>4. QED
    BY <2>2, <2>3
<1>2. MemoryInv'
  BY <1>1 DEF IInv, MemoryInv
<1>3. ASSUME NEW d \in Callers PROVE ClockInv(d)' /\ AloneInv(d)'
  BY <1>1 DEF IInv, ClockInv, AloneInv
<1>4. ASSUME NEW d \in Callers PROVE PostingInv(d)' /\ ReportInv(d)'
  BY <1>1 DEF IInv, PostingInv, ReportInv, DeliveredSince
<1>5. QED
  BY <1>2, <1>3, <1>4 DEF IInv

\* A caller that begins to dispatch an alert ends the solitude of all that do.
LEMMA DispatchStep ==
    ASSUME IInv, TypeOK', NEW c \in Callers, NEW a \in caller[c].pending, Dispatch(c, a)
    PROVE  IInv'
<1> USE DEF environment, InDispatch
<1>1. a \in Fingerprints /\ TypeOK /\ \A d \in Callers : caller[d] \in CallerStates
  BY DEF IInv, TypeOK, CallerStates
<1>2. UNCHANGED <<environment, lastSent, failures, delivered>>
  BY DEF Dispatch
<1>3. ASSUME NEW d \in Callers, d # c
      PROVE  /\ caller'[d].phase = caller[d].phase /\ caller'[d].alerts = caller[d].alerts
             /\ caller'[d].begun = caller[d].begun /\ caller'[d].pending = caller[d].pending
             /\ caller'[d].current = caller[d].current /\ caller'[d].started = caller[d].started
             /\ caller'[d].alone => caller[d].alone /\ caller[d].current # a
  <2> DEFINE b == caller[d].alone /\ caller[d].current # a
  <2>1. caller'[d] = [caller[d] EXCEPT !.alone = b]
    BY <1>3 DEF Dispatch
  <2> HIDE DEF b
  <2>2. caller'[d].alone = b /\ caller'[d].phase = caller[d].phase
        /\ caller'[d].alerts = caller[d].alerts /\ caller'[d].begun = caller[d].begun
        /\ caller'[d].pending = caller[d].pending /\ caller'[d].current = caller[d].current
        /\ caller'[d].started = caller[d].started
    BY <1>1, <2>1, DispatchFields
  <2>3. QED
    BY <2>2 DEF b
<1>4. /\ caller'[c].phase = "checking" /\ caller'[c].alerts = caller[c].alerts
      /\ caller'[c].begun = caller[c].begun /\ caller'[c].pending = caller[c].pending
      /\ caller'[c].current = a /\ caller'[c].started = now
      /\ caller'[c].alone => \A e \in Callers : caller[e].current # a
  <2> DEFINE b == \A e \in Callers : caller[e].current # a
  <2>1. caller'[c] = [caller[c] EXCEPT !.phase = "checking", !.current = a, !.started = now,
                        !.alone = b]
    BY DEF Dispatch
  <2> HIDE DEF b
  <2>2. /\ caller'[c].phase = "checking" /\ caller'[c].alerts = caller[c].alerts
        /\ caller'[c].begun = caller[c].begun /\ caller'[c].pending = caller[c].pending
        /\ caller'[c].current = a /\ caller'[c].started = now /\ caller'[c].alone = b
    BY <1>1, <2>1, DispatchFields
  <2>3. QED
    BY <2>2 DEF b
<1>5. caller[c].phase = "evaluated"
  BY DEF Dispatch
<1>6. MemoryInv'
  BY <1>2 DEF IInv, MemoryInv
<1>7. ASSUME NEW d \in Callers PROVE ClockInv(d)'
  BY <1>2, <1>3, <1>4 DEF IInv, ClockInv
<1>8. ASSUME NEW d \in Callers PROVE AloneInv(d)'
  BY <1>1, <1>3, <1>4 DEF IInv, AloneInv
<1>9. ASSUME NEW d \in Callers PROVE PostingInv(d)'
  BY <1>2, <1>3, <1>4 DEF IInv, PostingInv
<1>10. ASSUME NEW d \in Callers PROVE ReportInv(d)'
  BY <1>2, <1>3, <1>4, <1>5 DEF IInv, ReportInv, DeliveredSince
<1>11. QED
  BY <1>6, <1>7, <1>8, <1>9, <1>10 DEF IInv

\* An alert that is suppressed was delivered less than a cooldown before the evaluation began.
LEMMA SuppressStep ==
    ASSUME IInv, TypeOK', NEW c \in Callers, Suppress(c)
    PROVE  IInv'
<1> USE DEF environment, InDispatch
<1>1. /\ UNCHANGED <<environment, lastSent, failures, delivered>>
      /\ TypeOK /\ caller[c].phase = "checking" /\ Conclude(c)
      /\ Suppressed(c) \/ ~webhook
  BY DEF Suppress, IInv
<1>2. webhook => DeliveredSince(caller[c].current, caller[c].begun)
  <2> SUFFICES ASSUME webhook PROVE DeliveredSince(caller[c].current, caller[c].begun)
    OBVIOUS
  <2>1. caller[c].current \in Fingerprints /\ caller[c].begun <= caller[c].started
    BY <1>1 DEF IInv, AloneInv, ClockInv
  <2>2. /\ lastSent[caller[c].current] # None
        /\ caller[c].started < lastSent[caller[c].current] + Cooldown
    BY <1>1 DEF Suppressed
  <2>3. /\ delivered[caller[c].current].latest # None
        /\ lastSent[caller[c].current] <= delivered[caller[c].current].latest
    BY <2>1, <2>2 DEF IInv, MemoryInv
  <2>4. /\ lastSent[caller[c].current] \in Nat /\ delivered[caller[c].current].latest \in Nat
        /\ caller[c].begun \in Nat /\ caller[c].started \in Nat /\ Cooldown \in Nat
    BY <1>1, <2>1, <2>2, <2>3, DispatcherAssumption DEF TypeOK, CallerStates
  <2>5. QED
    BY <2>1, <2>2, <2>3, <2>4 DEF DeliveredSince
<1>3. MemoryInv'
  BY <1>1 DEF IInv, MemoryInv
<1>4. ASSUME NEW d \in Callers PROVE ClockInv(d)' /\ AloneInv(d)' /\ PostingInv(d)'
  BY <1>1, Concluded DEF IInv, ClockInv, AloneInv, PostingInv
<1>5. ASSUME NEW d \in Callers, d # c PROVE ReportInv(d)'
  BY <1>1, <1>5, Concluded DEF IInv, ReportInv, DeliveredSince
<1>6. ReportInv(c)'
  BY <1>1, <1>2, Concluded DEF IInv, ReportInv, DeliveredSince
<1>7. QED
  BY <1>3, <1>4, <1>5, <1>6 DEF IInv

\* Once a failure is counted the counter is positive until the process ends.
LEMMA CountStep ==
    ASSUME IInv, TypeOK', NEW c \in Callers, Count(c)
    PROVE  IInv'
<1> USE DEF environment, InDispatch
<1>1. UNCHANGED <<environment, lastSent, delivered>> /\ TypeOK /\ Conclude(c)
  BY DEF Count, IInv
<1>2. failures' # 0
  BY <1>1 DEF Count, TypeOK, CallerStates
<1>3. MemoryInv'
  BY <1>1 DEF IInv, MemoryInv
<1>4. ASSUME NEW d \in Callers PROVE ClockInv(d)' /\ AloneInv(d)' /\ PostingInv(d)'
  BY <1>1, Concluded DEF IInv, ClockInv, AloneInv, PostingInv
<1>5. ASSUME NEW d \in Callers PROVE ReportInv(d)'
  BY <1>2 DEF ReportInv
<1>6. QED
  BY <1>3, <1>4, <1>5 DEF IInv

\* A delivery is remembered under the clock its dispatch read.  It may be earlier than what
\* another caller left, never than the last delivery that nobody overlapped.
LEMMA StampStep ==
    ASSUME IInv, TypeOK', NEW c \in Callers, Stamp(c)
    PROVE  IInv'
<1> USE DEF environment, InDispatch
<1> DEFINE a == caller[c].current
           t == caller[c].started
<1>1. /\ TypeOK /\ Conclude(c) /\ Record(c) /\ caller[c].phase = "posting"
      /\ UNCHANGED <<environment, failures>>
      /\ lastSent' = [lastSent EXCEPT ![a] = t]
  BY DEF Stamp, IInv
<1>2. /\ a \in Fingerprints /\ t \in Nat /\ caller[c].begun \in Nat /\ caller[c].begun <= t
      /\ caller[c].alone \in BOOLEAN /\ Cooldown \in Nat
      /\ delivered[a] \in [latest : Nat \cup {None}, alone : Nat \cup {None}]
  BY <1>1, DispatcherAssumption DEF IInv, AloneInv, ClockInv, TypeOK, CallerStates
<1>3. /\ lastSent'[a] = t
      /\ \A b \in Fingerprints \ {a} : lastSent'[b] = lastSent[b] /\ delivered'[b] = delivered[b]
  BY <1>1, <1>2 DEF Record, TypeOK
<1>4. /\ delivered'[a].latest = Later(t, delivered[a].latest)
      /\ delivered'[a].alone = IF caller[c].alone THEN t ELSE delivered[a].alone
  BY <1>1, <1>2 DEF Record, TypeOK
<1>5. /\ delivered'[a].latest \in Nat /\ delivered'[a].latest # None /\ delivered'[a].latest >= t
      /\ delivered[a].latest # None => delivered'[a].latest >= delivered[a].latest
  BY <1>2, <1>4, DispatcherAssumption DEF Later
<1>6. delivered[a].alone # None => t >= delivered[a].alone + Cooldown
  BY <1>1 DEF IInv, PostingInv
<1>7. delivered'[a].alone # None => delivered'[a].alone <= t
  BY <1>2, <1>4, <1>6, DispatcherAssumption
<1> HIDE DEF a, t
<1>8. MemoryInv'
  <2>1. ASSUME NEW b \in Fingerprints, b # a
        PROVE  /\ lastSent'[b] # None => delivered'[b].latest # None /\ lastSent'[b] <= delivered'[b].latest
               /\ delivered'[b].alone # None => lastSent'[b] # None /\ delivered'[b].alone <= lastSent'[b]
    BY <1>3, <2>1 DEF IInv, MemoryInv
  <2>2. lastSent'[a] # None
    BY <1>2, <1>3, DispatcherAssumption
  <2>3. QED
    BY <1>3, <1>5, <1>7, <2>1, <2>2 DEF MemoryInv
<1>9. ASSUME NEW d \in Callers PROVE ClockInv(d)' /\ AloneInv(d)'
  BY <1>1, Concluded DEF IInv, ClockInv, AloneInv
<1>10. ASSUME NEW d \in Callers PROVE PostingInv(d)'
  <2>1. CASE d = c
    BY <1>1, <2>1, Concluded DEF PostingInv
  <2>2. CASE d # c /\ caller[d].phase # "posting"
    BY <1>1, <2>2, Concluded DEF PostingInv
  <2>3. CASE d # c /\ caller[d].phase = "posting" /\ caller[d].current # a
    <3>1. caller'[d] = caller[d] /\ caller[d].current \in Fingerprints
      BY <1>1, <2>3, Concluded DEF IInv, AloneInv
    <3>2. QED
      BY <1>3, <2>3, <3>1 DEF IInv, PostingInv
  <2>4. CASE d # c /\ caller[d].phase = "posting" /\ caller[d].current = a
    <3>1. ~caller[c].alone
      BY <1>1, <2>4 DEF IInv, AloneInv, a
    <3>2. delivered'[a].alone = delivered[a].alone /\ caller'[d] = caller[d]
      BY <1>1, <1>4, <2>4, <3>1, Concluded
    <3>3. QED
      BY <2>4, <3>2 DEF IInv, PostingInv
  <2>5. QED
    BY <2>1, <2>2, <2>3, <2>4
<1>11. ASSUME NEW b \in Fingerprints, NEW n \in Nat, DeliveredSince(b, n)
       PROVE  DeliveredSince(b, n)'
  <2>1. CASE b # a
    BY <1>3, <1>11, <2>1 DEF DeliveredSince
  <2>2. CASE b = a
    <3>1. delivered[a].latest \in Nat
      BY <1>2, <1>11, <2>2 DEF DeliveredSince
    <3>2. QED
      BY <1>2, <1>5, <1>11, <2>2, <3>1 DEF DeliveredSince
  <2>3. QED
    BY <2>1, <2>2
<1>12. ASSUME NEW d \in Callers PROVE ReportInv(d)'
  <2>1. /\ caller[d].alerts \in SUBSET Fingerprints /\ caller[d].begun \in Nat
        /\ caller'[d].alerts = caller[d].alerts /\ caller'[d].begun = caller[d].begun
    BY <1>1, Concluded DEF TypeOK, CallerStates
  <2>2. CASE d # c
    <3>1. caller'[d] = caller[d]
      BY <1>1, <2>2, Concluded
    <3>2. QED
      BY <1>1, <1>11, <2>1, <3>1 DEF IInv, ReportInv
  <2>3. CASE d = c
    <3>1. ASSUME NEW b, b = a PROVE DeliveredSince(b, caller[c].begun)'
      BY <1>1, <1>2, <1>5, <2>1, <2>3, <3>1 DEF DeliveredSince
    <3>2. caller'[c].alerts \ caller'[c].pending \subseteq (caller[c].alerts \ caller[c].pending) \cup {a}
      BY <1>1, Concluded DEF a
    <3>3. QED
      BY <1>1, <1>11, <2>1, <2>3, <3>1, <3>2 DEF IInv, ReportInv
  <2>4. QED
    BY <2>2, <2>3
<1>13. QED
  BY <1>8, <1>9, <1>10, <1>12 DEF IInv

\* Who goes on to post is not suppressed: the cooldown of what is remembered is over.
LEMMA PostStep ==
    ASSUME IInv, TypeOK', NEW c \in Callers, Post(c)
    PROVE  IInv'
<1>1. TypeOK /\ caller[c] \in CallerStates /\ caller[c].phase = "checking" /\ ~Suppressed(c)
  BY DEF Post, IInv, TypeOK
<1>2. /\ UNCHANGED <<environment, lastSent, failures, delivered>>
      /\ \A d \in Callers \ {c} : caller'[d] = caller[d]
      /\ caller'[c].phase = "posting"
      /\ caller'[c].alerts = caller[c].alerts /\ caller'[c].begun = caller[c].begun
      /\ caller'[c].pending = caller[c].pending /\ caller'[c].current = caller[c].current
      /\ caller'[c].started = caller[c].started /\ caller'[c].alone = caller[c].alone
  <2>1. /\ UNCHANGED <<environment, lastSent, failures, delivered>>
        /\ "posting" \in Phases /\ Continue(c, "posting")
    BY DEF Post, Phases
  <2>2. /\ \A d \in Callers \ {c} : caller'[d] = caller[d]
        /\ caller'[c] = [caller[c] EXCEPT !.phase = "posting"]
    BY <1>1, <2>1, Continued
  <2>3. QED
    BY <1>1, <2>1, <2>2 DEF CallerStates
<1>3. PostingInv(c)'
  <2> DEFINE a == caller[c].current
  <2> SUFFICES ASSUME delivered[a].alone # None
               PROVE  caller[c].started >= delivered[a].alone + Cooldown
    BY <1>2 DEF PostingInv
  <2>1. a \in Fingerprints
    BY <1>1 DEF IInv, AloneInv, InDispatch
  <2>2. lastSent[a] # None /\ delivered[a].alone <= lastSent[a]
    BY <2>1 DEF IInv, MemoryInv
  <2>3. ~(caller[c].started < lastSent[a] + Cooldown)
    BY <1>1, <2>2 DEF Suppressed
  <2>4. /\ lastSent[a] \in Nat /\ delivered[a].alone \in Nat /\ caller[c].started \in Nat
        /\ Cooldown \in Nat
    BY <1>1, <2>1, <2>2, DispatcherAssumption DEF TypeOK, CallerStates
  <2>5. QED
    BY <2>2, <2>3, <2>4
<1>4. QED
  BY <1>1, <1>2, <1>3, PhaseStep DEF InDispatch

LEMMA PostFailsStep ==
    ASSUME IInv, TypeOK', NEW c \in Callers, PostFails(c)
    PROVE  IInv'
<1>1. TypeOK /\ caller[c] \in CallerStates /\ caller[c].phase = "posting"
  BY DEF PostFails, IInv, TypeOK
<1>2. /\ UNCHANGED <<environment, lastSent, failures, delivered>>
      /\ \A d \in Callers \ {c} : caller'[d] = caller[d]
      /\ caller'[c] = [caller[c] EXCEPT !.phase = "counting", !.counter = failures]
  BY <1>1 DEF PostFails, TypeOK
<1>3. /\ caller'[c].phase = "counting"
      /\ caller'[c].alerts = caller[c].alerts /\ caller'[c].begun = caller[c].begun
      /\ caller'[c].pending = caller[c].pending /\ caller'[c].current = caller[c].current
      /\ caller'[c].started = caller[c].started /\ caller'[c].alone = caller[c].alone
  BY <1>1, <1>2 DEF CallerStates
<1>4. PostingInv(c)'
  BY <1>3 DEF PostingInv
<1>5. QED
  BY <1>1, <1>2, <1>3, <1>4, PhaseStep DEF InDispatch

(***************************************************************************)
(* The invariant, and the theorems it gives.                               *)
(***************************************************************************)
LEMMA InitInv == Init => IInv
<1> SUFFICES ASSUME Init PROVE IInv
  OBVIOUS
<1>1. TypeOK
  BY IdleType, DispatcherAssumption DEF Init, TypeOK, Never
<1>2. MemoryInv
  BY DEF Init, Never, MemoryInv
<1>3. ASSUME NEW c \in Callers
      PROVE  ClockInv(c) /\ AloneInv(c) /\ PostingInv(c) /\ ReportInv(c)
  BY DEF Init, IdleCaller, ClockInv, AloneInv, PostingInv, ReportInv, InDispatch
<1>4. QED
  BY <1>1, <1>2, <1>3 DEF IInv

LEMMA StepInv == IInv /\ [Next]_vars => IInv'
<1> SUFFICES ASSUME IInv, [Next]_vars PROVE IInv'
  OBVIOUS
<1>1. TypeOK /\ TypeOK'
  BY TypeStep DEF IInv
<1>2. now \in Nat
  BY <1>1 DEF TypeOK
<1>3. CASE UNCHANGED vars
  BY <1>1, <1>2, <1>3, QuietStep DEF vars, environment
<1>4. CASE Tick
  BY <1>1, <1>2, <1>4, QuietStep DEF Tick
<1>5. ASSUME NEW db \in Databases, Change(db) PROVE IInv'
  BY <1>1, <1>2, <1>5, QuietStep DEF Change
<1>6. CASE Restart
  BY <1>1, <1>6, RestartStep
<1>7. ASSUME NEW c \in Callers, Step(c) PROVE IInv'
  BY <1>1, <1>7, EvaluateStep, DispatchStep, SuppressStep, PostStep, PostFailsStep, CountStep,
     StampStep DEF Step
<1>8. QED
  BY <1>3, <1>4, <1>5, <1>6, <1>7 DEF Next

LEMMA Inductive == Spec => []IInv
BY InitInv, StepInv, PTL DEF Spec

\* Every variable has its type.
THEOREM TypeCorrect == Spec => []TypeOK
<1>1. IInv => TypeOK
  BY DEF IInv
<1>2. QED
  BY <1>1, Inductive, PTL

\* A caller posts only when the cooldown of the last delivery that no dispatch overlapped is
\* over (dispatch, the check under the lock and the stamp after the post).
THEOREM CooldownsHold == Spec => CooldownHolds
<1>1. IInv /\ [Next]_vars =>
        [\A c \in Callers :
           Stamp(c) => LET alone == delivered[caller[c].current].alone
                       IN alone # None => caller[c].started >= alone + Cooldown]_vars
  BY DEF IInv, PostingInv, Stamp
<1>2. QED
  BY <1>1, Inductive, PTL DEF Spec, CooldownHolds

\* An evaluation that ends without a counted failure has delivered each alert, or one of the
\* same fingerprint was delivered less than a cooldown before it (the exit code of main).
THEOREM ReportsAreTrue == Spec => []EvaluationReports
<1>1. IInv => EvaluationReports
  BY DEF IInv, ReportInv, EvaluationReports, Evaluated
<1>2. QED
  BY <1>1, Inductive, PTL
=============================================================================
