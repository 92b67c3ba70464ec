---------------------------- MODULE Reconciliation ----------------------------
(***************************************************************************)
(* reconciliation/: the comparisons of daily equity bars, option chains    *)
(* and futures sessions, as batch.main, options_batch.main and library     *)
(* callers run them.  Every pair of providers is outer-joined on its       *)
(* normalized key; each joined row gets a status and a reason; breaks of   *)
(* an equity run become exceptions; a finished equity run can be replayed  *)
(* from its archived frames.                                               *)
(*                                                                         *)
(* A raw key stands for the key columns as the provider spells them.       *)
(* Closes are natural numbers and percentages fractions of Unit, so that   *)
(* limits are exact; volumes, quotes, and the columns that are only        *)
(* carried along are left out.                                             *)
(***************************************************************************)
EXTENDS Integers, Sequences, FiniteSets, Functions

CONSTANTS
    Order,          \* the providers of each control, in dict order
    Observed,       \* frames each provider of a control may deliver
    RawKeys,        \* key columns as spelled by providers
    Canonical,      \* the normalized key of a raw key
    RollMap,        \* contract_map: the Massive key of a Yahoo raw key, or Absent
    Rules,          \* thresholds by control, and those of a replay
    Unit,           \* 100%
    Absent          \* NaN, no reason, not mapped, no result yet

Controls == {"EQUITY", "OPTION", "FUTURES"}
Names(c) == Range(Order[c])
Rows == [raw : RawKeys, close : Nat \cup {Absent}]
Keys == Range(Canonical)
Outcomes == {"RAISED", "RETURNED", "SUCCESS", "SUCCESS_WITH_BREAKS"}

ASSUME DataAssumption ==
    /\ \A c \in Controls : Order[c] \in Seq(STRING) /\ IsInjective(Order[c])
    /\ Order["FUTURES"] = <<"YAHOO", "MASSIVE">>
    /\ \A c \in Controls : \A p \in Names(c) : Observed[c][p] \subseteq SUBSET Rows
    /\ RollMap \in [RawKeys -> Keys \cup {Absent}]
    /\ Canonical \in [RawKeys -> Keys]
    /\ Absent \notin Nat \cup Keys \cup Outcomes

ASSUME RulesAssumption ==
    /\ Unit \in Nat \ {0}
    /\ \A c \in Controls \cup {"REPLAY"} :
          /\ Rules[c].tolerance \in Nat /\ Rules[c].percent \in Nat
          /\ Rules[c].warn \in Nat \cup {Absent} /\ Rules[c].warnPercent \in Nat
          /\ Rules[c].warn # Absent => Rules[c].warn <= Rules[c].tolerance
          \* A percentage that is not given is 0.
          /\ Rules[c].percent # 0 => Rules[c].warnPercent <= Rules[c].percent

VARIABLES
    control,        \* what is reconciled
    frames,         \* provider_bars, provider_options, or both sides of a futures call
    compared,       \* the pairs that were compared
    results,        \* their rows
    outcome,        \* status of the run, or "RAISED"
    exceptions,     \* create_equity_exceptions
    replayed        \* rows of replay_archived_run

vars == <<control, frames, compared, results, outcome, exceptions, replayed>>

(***************************************************************************)
(* Keys, validation and the outer join.                                    *)
(***************************************************************************)
\* The key a provider's row is joined on: Yahoo futures go through the contract map.
KeyOf(c, p, raw) == IF c = "FUTURES" /\ p = "YAHOO" THEN RollMap[raw] ELSE Canonical[raw]

\* The rows that take part, with their keys.
Keyed(c, p, frame) ==
    {[key |-> KeyOf(c, p, r.raw), close |-> r.close] :
        r \in {row \in frame : KeyOf(c, p, row.raw) # Absent}}

\* validate_equity_bars, _prepare_options and the checks of reconcile_futures_bars: two rows
\* with one normalized key, or a null in an equity bar.
Invalid(c, p, frame) ==
    \/ \E r, q \in frame :
          r # q /\ KeyOf(c, p, r.raw) # Absent /\ KeyOf(c, p, r.raw) = KeyOf(c, p, q.raw)
    \/ c = "EQUITY" /\ \E r \in frame : r.close = Absent

KeysIn(rows) == {r.key : r \in rows}

Joined(key, left, right, a, b) ==
    [key |-> key, left |-> left, right |-> right, a |-> a, b |-> b]

\* Mutant: an inner join.
MergeInner(A, B) ==
    {Joined(xy[1].key, TRUE, TRUE, xy[1].close, xy[2].close) :
        xy \in {pq \in A \X B : pq[1].key = pq[2].key}}

\* pd.merge(how="outer"): NaN closes on the side that has no row.
Merge(A, B) ==
    {Joined(xy[1].key, TRUE, TRUE, xy[1].close, xy[2].close) :
        xy \in {pq \in A \X B : pq[1].key = pq[2].key}}
    \cup {Joined(x.key, TRUE, FALSE, x.close, Absent) :
            x \in {r \in A : r.key \notin KeysIn(B)}}
    \cup {Joined(y.key, FALSE, TRUE, Absent, y.close) :
            y \in {r \in B : r.key \notin KeysIn(A)}}

(***************************************************************************)
(* Thresholds.                                                             *)
(***************************************************************************)
Unpriced(m) == m.a = Absent \/ m.b = Absent
Difference(m) == IF m.a >= m.b THEN m.a - m.b ELSE m.b - m.a

\* Mutant: percentages are of the first provider's close.
LargestOfFirst(m) == m.a

\* reference_price, the larger close.
Largest(m) == IF m.a >= m.b THEN m.a ELSE m.b

\* Mutant: the sign of the difference is kept.
BeyondSigned(m, tolerance, percent) ==
    /\ ~Unpriced(m)
    /\ (m.a - m.b) * Unit > tolerance * Unit
    /\ (m.a - m.b) * Unit > Largest(m) * percent

\* The difference exceeds the greater of an absolute and a relative limit.
Beyond(m, tolerance, percent) ==
    /\ ~Unpriced(m)
    /\ Difference(m) * Unit > tolerance * Unit
    /\ Difference(m) * Unit > Largest(m) * percent

BeyondBreak(m, rules) == Beyond(m, rules.tolerance, rules.percent)

(***************************************************************************)
(* Statuses and reasons, in the order the code assigns them.               *)
(***************************************************************************)
Missing(provider) == <<"MISSING", provider>>
NoPrice == <<"MISSING_COMPARISON_PRICE">>
PriceDifference == <<"PRICE_DIFFERENCE">>
NoReason == <<>>

\* Mutant: a comparison with NaN is false, and nothing asks for NaN.
BreakPassPriced(m, rules) == IF BeyondBreak(m, rules) THEN "BREAK" ELSE "MATCH"

\* MATCH, overwritten by BREAK.
BreakPass(m, rules) == IF Unpriced(m) \/ BeyondBreak(m, rules) THEN "BREAK" ELSE "MATCH"

\* reconcile_equity_bars: then overwritten by WARN inside the warning band.
EquityStatus(m, rules) ==
    IF /\ rules.warn # Absent /\ Beyond(m, rules.warn, rules.warnPercent)
       /\ ~BeyondBreak(m, rules)
    THEN "WARN" ELSE BreakPass(m, rules)

\* reconcile_equity_sources: missing a, overwritten by missing b, then by a difference.
EquityReason(m, pair, status) ==
    IF status = "BREAK" /\ ~Unpriced(m) THEN PriceDifference
    ELSE IF m.b = Absent THEN Missing(pair[2])
    ELSE IF m.a = Absent THEN Missing(pair[1]) ELSE NoReason

\* reconcile_option_chain, which calls its two sides YAHOO and ALPACA.
ChainReason(m, rules) ==
    IF ~m.right THEN Missing("ALPACA")
    ELSE IF ~m.left THEN Missing("YAHOO")
    ELSE IF Unpriced(m) THEN NoPrice
    ELSE IF BeyondBreak(m, rules) THEN PriceDifference ELSE NoReason

\* Mutant: the two replacements are in the other order.
OptionReasonSwapped(m, pair, rules) ==
    LET chain == ChainReason(m, rules)
        once == IF chain = Missing("YAHOO") THEN Missing(pair[1]) ELSE chain
    IN IF once = Missing("ALPACA") THEN Missing(pair[2]) ELSE once

\* reconcile_option_sources: the sides' names are replaced by the pair's, one after the other.
OptionReason(m, pair, rules) ==
    LET chain == ChainReason(m, rules)
        once == IF chain = Missing("ALPACA") THEN Missing(pair[2]) ELSE chain
    IN IF once = Missing("YAHOO") THEN Missing(pair[1]) ELSE once

\* reconcile_futures_bars: missing Yahoo, overwritten by missing Massive, or a difference.
FuturesReason(m, rules) ==
    IF m.b = Absent THEN Missing("MASSIVE")
    ELSE IF m.a = Absent THEN Missing("YAHOO")
    ELSE IF BeyondBreak(m, rules) THEN PriceDifference ELSE NoReason

\* Status and reason of a joined row of a pair, under the rules of a control.
Verdict(c, m, pair, rules) ==
    LET status == EquityStatus(m, rules)
        reason == IF c = "OPTION" THEN OptionReason(m, pair, rules) ELSE FuturesReason(m, rules)
    IN IF c = "EQUITY" THEN <<status, EquityReason(m, pair, status)>>
       ELSE <<IF reason = NoReason THEN "MATCH" ELSE "BREAK", reason>>

\* The rows of one pair.
Compare(c, pair, provided, rules) ==
    {[pair |-> pair, row |-> m,
      status |-> Verdict(c, m, pair, rules)[1], reason |-> Verdict(c, m, pair, rules)[2]] :
        m \in Merge(Keyed(c, pair[1], provided[pair[1]]), Keyed(c, pair[2], provided[pair[2]]))}

\* itertools.combinations over a dict's items.
Combinations(providers) ==
    LET ascending == {ij \in (1..Len(providers)) \X (1..Len(providers)) : ij[1] < ij[2]}
    IN {<<providers[ij[1]], providers[ij[2]]>> : ij \in ascending}

(***************************************************************************)
(* The run.                                                                *)
(***************************************************************************)
Pairs == Combinations(Order[control])
Breaks(rows) == {r \in rows : r.status = "BREAK"}

Init ==
    /\ control \in Controls
    /\ frames \in [Names(control) -> UNION {Observed[control][p] : p \in Names(control)}]
    /\ \A p \in Names(control) : frames[p] \in Observed[control][p]
    /\ compared = {} /\ results = {} /\ exceptions = {}
    /\ outcome = Absent /\ replayed = Absent

\* One round of the loop over the pairs; their order does not matter.
ComparePair(pair) ==
    /\ outcome = Absent /\ pair \notin compared
    /\ \A i \in 1..2 : ~Invalid(control, pair[i], frames[pair[i]])
    /\ compared' = compared \cup {pair}
    /\ results' = results \cup Compare(control, pair, frames, Rules[control])
    /\ UNCHANGED <<control, frames, outcome, exceptions, replayed>>

\* ValueError: the caller gets no rows at all.
Raise(pair) ==
    /\ outcome = Absent /\ pair \notin compared
    /\ \E i \in 1..2 : Invalid(control, pair[i], frames[pair[i]])
    /\ outcome' = "RAISED" /\ results' = {}
    /\ UNCHANGED <<control, frames, compared, exceptions, replayed>>

\* Mutant: the id of an exception names the instrument and the date only.
ExceptionOfKey(r) == [id |-> <<r.row.key>>, reason |-> r.reason]

\* create_equity_exceptions: the id is a hash of the key and of both sources.
ExceptionOf(r) == [id |-> <<r.row.key, r.pair>>, reason |-> r.reason]

\* All pairs are compared: batch.main and options_batch.main derive the run's status, and
\* batch.main the exceptions.  Nothing follows a futures comparison.
Conclude ==
    /\ outcome = Absent /\ compared = Pairs
    /\ outcome' = IF control = "FUTURES" THEN "RETURNED"
                  ELSE IF Breaks(results) = {} THEN "SUCCESS" ELSE "SUCCESS_WITH_BREAKS"
    /\ exceptions' = IF control = "EQUITY" THEN {ExceptionOf(r) : r \in Breaks(results)} ELSE {}
    /\ UNCHANGED <<control, frames, compared, results, replayed>>

\* replay_archived_run, of a completed run: providers without rows are dropped, and the
\* comparison has the default thresholds of reconcile_equity_sources.
Replay ==
    LET available == {p \in Names(control) : frames[p] # {}} IN
    /\ control = "EQUITY" /\ replayed = Absent
    /\ outcome \in {"SUCCESS", "SUCCESS_WITH_BREAKS"}
    /\ Cardinality(available) >= 2
    /\ replayed' = UNION {Compare("EQUITY", pair, frames, Rules["REPLAY"]) :
                            pair \in {pq \in Pairs : {pq[1], pq[2]} \subseteq available}}
    /\ UNCHANGED <<control, frames, compared, results, outcome, exceptions>>

Next == (\E pair \in Pairs : ComparePair(pair) \/ Raise(pair)) \/ Conclude \/ Replay

Spec == Init /\ [][Next]_vars

(***************************************************************************)
(* Properties.                                                             *)
(***************************************************************************)
Reasons(pair) == {NoReason, NoPrice, PriceDifference, Missing(pair[1]), Missing(pair[2])}

\* Every variable has its type; a null close gets no further than validation in an equity run.
TypeOK ==
    /\ control \in Controls
    /\ DOMAIN frames = Names(control) /\ \A p \in Names(control) : frames[p] \subseteq Rows
    /\ compared \subseteq Pairs
    /\ \A r \in results :
          /\ r.pair \in compared /\ r.row.key \in Keys
          /\ {r.row.a, r.row.b} \subseteq Nat \cup {Absent}
          /\ r.status \in {"MATCH", "WARN", "BREAK"} /\ r.reason \in Reasons(r.pair)
          /\ control = "EQUITY" => /\ r.row.left => r.row.a \in Nat
                                   /\ r.row.right => r.row.b \in Nat
    /\ outcome \in Outcomes \cup {Absent}

\* Provider p delivered close c for key k.
Delivered(p, k, c) == [key |-> k, close |-> c] \in Keyed(control, p, frames[p])

KeysOf(p) == {KeyOf(control, p, r.raw) : r \in frames[p]} \ {Absent}

\* README "Every Yahoo/Alpaca/Massive provider pair uses a full outer comparison": each
\* normalized key of either provider is judged exactly once per pair, with the closes they
\* delivered, however the providers spell it.
JoinIsComplete ==
    \A pair \in compared :
        LET rows == {r \in results : r.pair = pair} IN
        outcome # "RAISED" =>
          /\ {r.row.key : r \in rows} = KeysOf(pair[1]) \cup KeysOf(pair[2])
          /\ \A r, q \in rows : r.row.key = q.row.key => r = q
          /\ \A r \in rows : /\ r.row.left => Delivered(pair[1], r.row.key, r.row.a)
                             /\ r.row.right => Delivered(pair[2], r.row.key, r.row.b)
                             /\ r.row.left <=> r.row.key \in KeysOf(pair[1])
                             /\ r.row.right <=> r.row.key \in KeysOf(pair[2])

\* README "A one-sided observation remains a BREAK with the missing provider named
\* explicitly": through overwriting and renaming, a row has a reason exactly if it is a
\* break, and that of a one-sided row names the provider that has no row.  (In a futures
\* comparison the row that is there must have a close.)
MissingIsNamed ==
    \A r \in results :
        /\ r.status = "BREAK" <=> r.reason # NoReason
        /\ ~r.row.left /\ (r.row.b # Absent \/ control # "FUTURES") =>
              r.reason = Missing(r.pair[1])
        /\ ~r.row.right => r.reason = Missing(r.pair[2])

Severity == [MATCH |-> 0, WARN |-> 1, BREAK |-> 2]

\* With the same larger close, a smaller difference is never judged more severely, and no
\* row without both closes is judged less than a break.
CloserIsNotWorse ==
    \A r \in results :
        IF Unpriced(r.row) THEN r.status = "BREAK"
        ELSE \A q \in results :
                /\ ~Unpriced(q.row) /\ Largest(r.row) = Largest(q.row)
                /\ Difference(r.row) <= Difference(q.row)
                => Severity[r.status] <= Severity[q.status]

\* A status does not depend on which provider comes first in the dict.
SwapKeepsStatus ==
    \A r \in results :
        LET swapped == Joined(r.row.key, r.row.right, r.row.left, r.row.b, r.row.a)
        IN Verdict(control, swapped, <<r.pair[2], r.pair[1]>>, Rules[control])[1] = r.status

\* Providers p and q deliver the same keys, with closes within the break limits.
Agree(p, q) ==
    /\ KeysOf(p) = KeysOf(q)
    /\ \A x \in frames[p], y \in frames[q] :
          KeyOf(control, p, x.raw) = KeyOf(control, q, y.raw) =>
             /\ Absent \notin {x.close, y.close}
             /\ ~BeyondBreak(Joined(x.raw, TRUE, TRUE, x.close, y.close), Rules[control])

\* A run ends with SUCCESS exactly if any two providers agree on everything.
SuccessMeansAgreement ==
    outcome \in {"SUCCESS", "SUCCESS_WITH_BREAKS"} =>
        (outcome = "SUCCESS" <=> \A pair \in Pairs : Agree(pair[1], pair[2]))

\* RUNBOOK "Each BREAK creates an OPEN equity exception": with its reason, and an id that no
\* other break has, since the id is the primary key.
ExceptionsCoverBreaks ==
    control = "EQUITY" /\ outcome \in {"SUCCESS", "SUCCESS_WITH_BREAKS"} =>
        \A r \in Breaks(results) : \E e \in exceptions :
            /\ e.reason = r.reason /\ r.reason # NoReason
            /\ \A q \in Breaks(results) : q # r => ExceptionOf(q).id # e.id
=============================================================================
