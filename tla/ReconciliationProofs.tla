------------------------- MODULE ReconciliationProofs -------------------------
(***************************************************************************)
(* Theorems of Reconciliation, for all frames, keys, closes and thresholds *)
(* and any number of providers.                                            *)
(***************************************************************************)
EXTENDS Reconciliation, TLAPS

\* No key occurs twice.
Unique(A) == \A x, y \in A : x.key = y.key => x = y

KeyedRows == [key : Keys, close : Nat \cup {Absent}]

Side(p) == Keyed(control, p, frames[p])

\* A joined row is made of its five columns.
LEMMA MergeShape ==
    ASSUME NEW A, NEW B, NEW m \in Merge(A, B)
    PROVE  m = [key |-> m.key, left |-> m.left, right |-> m.right, a |-> m.a, b |-> m.b]
BY DEF Merge, Joined

\* What an outer join of A and B makes of each of their keys.
LEMMA MergeRow ==
    ASSUME NEW A \in SUBSET KeyedRows, NEW B \in SUBSET KeyedRows, NEW m \in Merge(A, B)
    PROVE  /\ m.left \in BOOLEAN /\ m.right \in BOOLEAN /\ m.key \in Keys
           /\ {m.a, m.b} \subseteq Nat \cup {Absent}
           /\ m.left <=> m.key \in KeysIn(A)
           /\ m.right <=> m.key \in KeysIn(B)
           /\ m.left => [key |-> m.key, close |-> m.a] \in A
           /\ m.right => [key |-> m.key, close |-> m.b] \in B
           /\ ~m.left => m.a = Absent
           /\ ~m.right => m.b = Absent
<1>1. ASSUME NEW x \in A
      PROVE  x = [key |-> x.key, close |-> x.close] /\ x.key \in Keys
             /\ x.close \in Nat \cup {Absent} /\ x.key \in KeysIn(A)
  BY DEF KeyedRows, KeysIn
<1>2. ASSUME NEW y \in B
      PROVE  y = [key |-> y.key, close |-> y.close] /\ y.key \in Keys
             /\ y.close \in Nat \cup {Absent} /\ y.key \in KeysIn(B)
  BY DEF KeyedRows, KeysIn
<1>3. CASE \E xy \in {pq \in A \X B : pq[1].key = pq[2].key} :
              m = Joined(xy[1].key, TRUE, TRUE, xy[1].close, xy[2].close)
  <2>1. PICK x \in A, y \in B : x.key = y.key /\ m = Joined(x.key, TRUE, TRUE, x.close, y.close)
    BY <1>3
  <2>2. QED
    BY <1>1, <1>2, <2>1 DEF Joined
<1>4. CASE \E x \in {r \in A : r.key \notin KeysIn(B)} :
              m = Joined(x.key, TRUE, FALSE, x.close, Absent)
  BY <1>1, <1>4 DEF Joined
<1>5. CASE \E y \in {r \in B : r.key \notin KeysIn(A)} :
              m = Joined(y.key, FALSE, TRUE, Absent, y.close)
  BY <1>2, <1>5 DEF Joined
<1>6. QED
  BY <1>3, <1>4, <1>5 DEF Merge

\* An outer join loses no key.
LEMMA MergeCovers ==
    ASSUME NEW A, NEW B, NEW k \in KeysIn(A) \cup KeysIn(B)
    PROVE  \E m \in Merge(A, B) : m.key = k
<1>1. CASE k \in KeysIn(A) /\ k \in KeysIn(B)
  <2>1. PICK x \in A, y \in B : x.key = k /\ y.key = k
    BY <1>1 DEF KeysIn
  <2>2. \E xy \in {pq \in A \X B : pq[1].key = pq[2].key} :
           Joined(x.key, TRUE, TRUE, x.close, y.close)
             = Joined(xy[1].key, TRUE, TRUE, xy[1].close, xy[2].close)
    <3>1. <<x, y>> \in {pq \in A \X B : pq[1].key = pq[2].key}
      BY <2>1
    <3>2. <<x, y>>[1] = x /\ <<x, y>>[2] = y
      OBVIOUS
    <3>3. QED
      BY <3>1, <3>2
  <2>3. Joined(x.key, TRUE, TRUE, x.close, y.close) \in Merge(A, B)
    BY <2>2 DEF Merge
  <2>4. QED
    BY <2>1, <2>3 DEF Joined
<1>2. CASE k \in KeysIn(A) /\ k \notin KeysIn(B)
  <2>1. PICK x \in A : x.key = k
    BY <1>2 DEF KeysIn
  <2>2. Joined(x.key, TRUE, FALSE, x.close, Absent) \in Merge(A, B)
    BY <1>2, <2>1 DEF Merge
  <2>3. QED
    BY <2>1, <2>2 DEF Joined
<1>3. CASE k \notin KeysIn(A) /\ k \in KeysIn(B)
  <2>1. PICK y \in B : y.key = k
    BY <1>3 DEF KeysIn
  <2>2. Joined(y.key, FALSE, TRUE, Absent, y.close) \in Merge(A, B)
    BY <1>3, <2>1 DEF Merge
  <2>3. QED
    BY <2>1, <2>2 DEF Joined
<1>4. QED
  BY <1>1, <1>2, <1>3

\* Sides without duplicate keys join without duplicate keys.
LEMMA MergeUnique ==
    ASSUME NEW A \in SUBSET KeyedRows, NEW B \in SUBSET KeyedRows, Unique(A), Unique(B)
    PROVE  \A m, n \in Merge(A, B) : m.key = n.key => m = n
<1>1. SUFFICES ASSUME NEW m \in Merge(A, B), NEW n \in Merge(A, B), m.key = n.key
               PROVE  m = n
  OBVIOUS
<1>2. m.left = n.left /\ m.right = n.right
  <2>1. /\ m.left \in BOOLEAN /\ m.right \in BOOLEAN
        /\ m.left <=> m.key \in KeysIn(A)
        /\ m.right <=> m.key \in KeysIn(B)
    BY MergeRow
  <2>2. /\ n.left \in BOOLEAN /\ n.right \in BOOLEAN
        /\ n.left <=> n.key \in KeysIn(A)
        /\ n.right <=> n.key \in KeysIn(B)
    BY MergeRow
  <2>3. QED
    BY <1>1, <2>1, <2>2
<1>3. m.a = n.a
  <2>1. CASE m.left
    <3>1. [key |-> m.key, close |-> m.a] \in A /\ [key |-> m.key, close |-> n.a] \in A
      BY <1>1, <1>2, <2>1, MergeRow
    <3>2. [key |-> m.key, close |-> m.a] = [key |-> m.key, close |-> n.a]
      BY <3>1 DEF Unique
    <3>3. QED
      BY <3>2
  <2>2. CASE ~m.left
    BY <1>2, <2>2, MergeRow
  <2>3. QED
    BY <2>1, <2>2
<1>4. m.b = n.b
  <2>1. CASE m.right
    <3>1. [key |-> m.key, close |-> m.b] \in B /\ [key |-> m.key, close |-> n.b] \in B
      BY <1>1, <1>2, <2>1, MergeRow
    <3>2. [key |-> m.key, close |-> m.b] = [key |-> m.key, close |-> n.b]
      BY <3>1 DEF Unique
    <3>3. QED
      BY <3>2
  <2>2. CASE ~m.right
    <3>1. m.b = Absent
      BY <2>2, MergeRow
    <3>2. ~n.right
      BY <1>2, <2>2
    <3>3. n.b = Absent
      BY <3>2, MergeRow
    <3>4. QED
      BY <3>1, <3>3
  <2>3. QED
    BY <2>1, <2>2
<1>5. m = [key |-> m.key, left |-> m.left, right |-> m.right, a |-> m.a, b |-> m.b]
  BY MergeShape
<1>6. n = [key |-> n.key, left |-> n.left, right |-> n.right, a |-> n.a, b |-> n.b]
  BY MergeShape
<1>7. QED
  BY <1>1, <1>2, <1>3, <1>4, <1>5, <1>6

(***************************************************************************)
(* Pairs, sides and their joined rows.                                     *)
(***************************************************************************)
\* A pair is two different providers of the control.
LEMMA PairNames ==
    ASSUME control \in Controls, NEW pair \in Pairs
    PROVE  /\ pair = <<pair[1], pair[2]>>
           /\ pair[1] \in Names(control) /\ pair[2] \in Names(control) /\ pair[1] # pair[2]
<1>1. Order[control] \in Seq(STRING) /\ IsInjective(Order[control])
  BY DataAssumption
<1> DEFINE names == Order[control]
<1>2. PICK ij \in (1..Len(names)) \X (1..Len(names)) :
              ij[1] < ij[2] /\ pair = <<names[ij[1]], names[ij[2]]>>
  BY DEF Pairs, Combinations
<1>3. DOMAIN names = 1..Len(names) /\ Len(names) \in Nat
  BY <1>1
<1>4. ij[1] \in DOMAIN names /\ ij[2] \in DOMAIN names /\ ij[1] # ij[2]
  BY <1>2, <1>3
<1>5. names[ij[1]] # names[ij[2]]
  BY <1>1, <1>4 DEF IsInjective
<1>6. names[ij[1]] \in Range(names) /\ names[ij[2]] \in Range(names)
  BY <1>4 DEF Range
<1>7. QED
  BY <1>2, <1>5, <1>6 DEF Names

\* The key of a raw key, and the rows that take part.
LEMMA KeyedType ==
    ASSUME NEW c, NEW p, NEW frame \in SUBSET Rows
    PROVE  /\ \A r \in frame : KeyOf(c, p, r.raw) \in Keys \cup {Absent}
           /\ Keyed(c, p, frame) \in SUBSET KeyedRows
<1>1. ASSUME NEW r \in frame PROVE KeyOf(c, p, r.raw) \in Keys \cup {Absent}
  BY DataAssumption DEF KeyOf, Rows
<1>2. ASSUME NEW r \in frame PROVE r.close \in Nat \cup {Absent}
  BY DEF Rows
<1>3. QED
  BY <1>1, <1>2 DEF Keyed, KeyedRows

\* Validation leaves no duplicate keys, and no nulls in equity bars.
LEMMA ValidSide ==
    ASSUME NEW c, NEW p, NEW frame \in SUBSET Rows, ~Invalid(c, p, frame)
    PROVE  /\ Unique(Keyed(c, p, frame))
           /\ c = "EQUITY" => \A x \in Keyed(c, p, frame) : x.close \in Nat
<1>1. ASSUME NEW x \in Keyed(c, p, frame), NEW y \in Keyed(c, p, frame), x.key = y.key
      PROVE  x = y
  <2>1. PICK r \in frame : /\ KeyOf(c, p, r.raw) # Absent
                           /\ x = [key |-> KeyOf(c, p, r.raw), close |-> r.close]
    BY DEF Keyed
  <2>2. PICK q \in frame : /\ KeyOf(c, p, q.raw) # Absent
                           /\ y = [key |-> KeyOf(c, p, q.raw), close |-> q.close]
    BY DEF Keyed
  <2>3. KeyOf(c, p, r.raw) = KeyOf(c, p, q.raw)
    BY <1>1, <2>1, <2>2
  <2>4. r = q
    BY <2>1, <2>3 DEF Invalid
  <2>5. QED
    BY <2>1, <2>2, <2>4
<1>2. ASSUME c = "EQUITY", NEW x \in Keyed(c, p, frame) PROVE x.close \in Nat
  <2>1. PICK r \in frame : x.close = r.close
    BY DEF Keyed
  <2>2. r.close # Absent
    BY <1>2 DEF Invalid
  <2>3. QED
    BY <2>1, <2>2 DEF Rows
<1>3. QED
  BY <1>1, <1>2 DEF Unique

\* The keys a provider delivered are those of its side of a join.
LEMMA SideKeys ==
    ASSUME NEW p PROVE KeysOf(p) = KeysIn(Side(p))
<1>1. ASSUME NEW k \in KeysOf(p) PROVE k \in KeysIn(Side(p))
  <2>1. PICK r \in frames[p] : k = KeyOf(control, p, r.raw) /\ k # Absent
    BY DEF KeysOf
  <2>2. [key |-> k, close |-> r.close] \in Side(p)
    BY <2>1 DEF Side, Keyed
  <2>3. QED
    BY <2>2 DEF KeysIn
<1>2. ASSUME NEW k \in KeysIn(Side(p)) PROVE k \in KeysOf(p)
  BY DEF KeysOf, KeysIn, Side, Keyed
<1>3. QED
  BY <1>1, <1>2

(***************************************************************************)
(* The inductive invariant.                                                *)
(***************************************************************************)
RowsOf(pairs) == UNION {Compare(control, pair, frames, Rules[control]) : pair \in pairs}

Concluded == outcome \in {"SUCCESS", "SUCCESS_WITH_BREAKS"}

\* What the variables are, in terms of the frames and of what was compared.
IInv ==
    /\ control \in Controls
    /\ DOMAIN frames = Names(control) /\ \A p \in Names(control) : frames[p] \in SUBSET Rows
    /\ compared \subseteq Pairs
    /\ \A pair \in compared : /\ ~Invalid(control, pair[1], frames[pair[1]])
                              /\ ~Invalid(control, pair[2], frames[pair[2]])
    /\ outcome \in Outcomes \cup {Absent}
    /\ results = IF outcome = "RAISED" THEN {} ELSE RowsOf(compared)
    /\ Concluded => /\ compared = Pairs /\ control # "FUTURES"
                    /\ outcome = "SUCCESS" <=> Breaks(results) = {}
                    /\ control = "EQUITY" => exceptions = {ExceptionOf(r) : r \in Breaks(results)}

\* IInv holds before the first pair.
LEMMA InitInv == Init => IInv
<1> SUFFICES ASSUME Init PROVE IInv
  OBVIOUS
<1>1. \A p \in Names(control) : frames[p] \in SUBSET Rows
  BY DataAssumption DEF Init
<1>2. outcome = Absent /\ Absent \notin Outcomes
  BY DataAssumption DEF Init
<1>3. QED
  BY <1>1, <1>2 DEF Init, IInv, RowsOf, Concluded, Outcomes

\* The rows of one more pair.
LEMMA RowsOfMore ==
    ASSUME NEW done, NEW pair
    PROVE  RowsOf(done \cup {pair})
             = RowsOf(done) \cup Compare(control, pair, frames, Rules[control])
BY DEF RowsOf

\* IInv is inductive.
LEMMA StepInv == IInv /\ [Next]_vars => IInv'
<1> SUFFICES ASSUME IInv, [Next]_vars PROVE IInv'
  OBVIOUS
<1> USE DEF Outcomes
<1>0. Absent \notin Outcomes
  BY DataAssumption
<1>1. ASSUME NEW pair \in Pairs, ComparePair(pair) PROVE IInv'
  <2>1. /\ UNCHANGED <<control, frames, outcome, exceptions, replayed>> /\ outcome = Absent
        /\ compared' = compared \cup {pair}
        /\ results' = results \cup Compare(control, pair, frames, Rules[control])
        /\ ~Invalid(control, pair[1], frames[pair[1]])
        /\ ~Invalid(control, pair[2], frames[pair[2]])
    BY <1>1 DEF ComparePair
  <2>2. results' = RowsOf(compared \cup {pair})
    BY <1>0, <2>1, RowsOfMore DEF IInv
  <2>3. RowsOf(compared)' = RowsOf(compared \cup {pair})
    BY <2>1 DEF RowsOf
  <2>4. QED
    BY <1>0, <2>1, <2>2, <2>3 DEF IInv, Concluded, Pairs
<1>2. ASSUME NEW pair \in Pairs, Raise(pair) PROVE IInv'
  BY <1>0, <1>2 DEF Raise, IInv, Concluded, Pairs
<1>3. CASE Conclude
  <2>1. /\ UNCHANGED <<control, frames, compared, results>> /\ outcome = Absent
        /\ compared = Pairs /\ outcome' # "RAISED" /\ outcome' \in Outcomes
    BY <1>3 DEF Conclude
  <2>2. results' = RowsOf(compared)'
    BY <1>0, <2>1 DEF IInv, RowsOf
  <2>3. outcome' \in {"SUCCESS", "SUCCESS_WITH_BREAKS"} =>
          /\ outcome' = "SUCCESS" <=> Breaks(results) = {}
          /\ control # "FUTURES"
          /\ control = "EQUITY" => exceptions' = {ExceptionOf(r) : r \in Breaks(results)}
    BY <1>3 DEF Conclude
  <2>4. QED
    BY <2>1, <2>2, <2>3 DEF IInv, Concluded, Pairs, Breaks, ExceptionOf
<1>4. CASE Replay
  BY <1>4 DEF Replay, IInv, Concluded, Pairs, RowsOf, Breaks, ExceptionOf
<1>5. CASE UNCHANGED vars
  BY <1>5 DEF vars, IInv, Concluded, Pairs, RowsOf, Breaks, ExceptionOf
<1>6. QED
  BY <1>1, <1>2, <1>3, <1>4, <1>5 DEF Next

(***************************************************************************)
(* Result rows and their verdicts.                                         *)
(***************************************************************************)
\* What a joined row of a pair has in every reachable state.
RowFacts(pair, m) ==
    /\ pair \in compared /\ pair \in Pairs
    /\ m.left \in BOOLEAN /\ m.right \in BOOLEAN /\ m.key \in Keys
    /\ m.a \in Nat \cup {Absent} /\ m.b \in Nat \cup {Absent}
    /\ m.left <=> m.key \in KeysOf(pair[1])
    /\ m.right <=> m.key \in KeysOf(pair[2])
    /\ m.left => [key |-> m.key, close |-> m.a] \in Side(pair[1])
    /\ m.right => [key |-> m.key, close |-> m.b] \in Side(pair[2])
    /\ ~m.left => m.a = Absent
    /\ ~m.right => m.b = Absent
    /\ control = "EQUITY" => /\ m.left => m.a \in Nat
                             /\ m.right => m.b \in Nat

\* Both sides of a compared pair are valid.
LEMMA Sides ==
    ASSUME IInv, NEW pair \in compared
    PROVE  /\ pair \in Pairs
           /\ Side(pair[1]) \in SUBSET KeyedRows /\ Side(pair[2]) \in SUBSET KeyedRows
           /\ Unique(Side(pair[1])) /\ Unique(Side(pair[2]))
           /\ control = "EQUITY" => /\ \A x \in Side(pair[1]) : x.close \in Nat
                                    /\ \A x \in Side(pair[2]) : x.close \in Nat
<1>1. pair \in Pairs /\ control \in Controls
  BY DEF IInv
<1>2. frames[pair[1]] \in SUBSET Rows /\ frames[pair[2]] \in SUBSET Rows
  BY <1>1, PairNames DEF IInv
<1>3. /\ ~Invalid(control, pair[1], frames[pair[1]])
      /\ ~Invalid(control, pair[2], frames[pair[2]])
  BY DEF IInv
<1>4. QED
  BY <1>1, <1>2, <1>3, KeyedType, ValidSide DEF Side

\* A result row is a joined row with its verdict.
LEMMA ResultRow ==
    ASSUME IInv, NEW r \in results
    PROVE  /\ r.row \in Merge(Side(r.pair[1]), Side(r.pair[2]))
           /\ RowFacts(r.pair, r.row)
           /\ r.status = Verdict(control, r.row, r.pair, Rules[control])[1]
           /\ r.reason = Verdict(control, r.row, r.pair, Rules[control])[2]
           /\ r = [pair |-> r.pair, row |-> r.row, status |-> r.status, reason |-> r.reason]
<1>1. PICK pair \in compared : r \in Compare(control, pair, frames, Rules[control])
  BY DEF IInv, RowsOf
<1>2. PICK m \in Merge(Side(pair[1]), Side(pair[2])) :
         r = [pair |-> pair, row |-> m,
              status |-> Verdict(control, m, pair, Rules[control])[1],
              reason |-> Verdict(control, m, pair, Rules[control])[2]]
  BY <1>1 DEF Compare, Side
<1>3. r.pair = pair /\ r.row = m
  BY <1>2
<1>4. RowFacts(pair, m)
  BY Sides, MergeRow, SideKeys DEF RowFacts
<1>5. QED
  BY <1>2, <1>3, <1>4

\* Every joined row of a compared pair has a result row.
LEMMA RowResult ==
    ASSUME IInv, outcome # "RAISED", NEW pair \in compared,
           NEW m \in Merge(Side(pair[1]), Side(pair[2]))
    PROVE  \E r \in results : r.pair = pair /\ r.row = m
<1> DEFINE r == [pair |-> pair, row |-> m,
                 status |-> Verdict(control, m, pair, Rules[control])[1],
                 reason |-> Verdict(control, m, pair, Rules[control])[2]]
<1>1. r \in Compare(control, pair, frames, Rules[control])
  BY DEF Compare, Side
<1>2. r \in results
  BY <1>1 DEF IInv, RowsOf
<1>3. QED
  BY <1>2

\* A pair's join is complete, exact and without repetitions.
LEMMA PairIsComplete ==
    ASSUME IInv, outcome # "RAISED", NEW pair \in compared
    PROVE  /\ \A k \in KeysOf(pair[1]) \cup KeysOf(pair[2]) :
                 \E r \in results : r.pair = pair /\ r.row.key = k
           /\ \A r \in results : r.pair = pair =>
                 r.row.key \in KeysOf(pair[1]) \cup KeysOf(pair[2])
           /\ \A r, q \in results :
                 r.pair = pair /\ q.pair = pair /\ r.row.key = q.row.key => r = q
<1>1. ASSUME NEW k \in KeysOf(pair[1]) \cup KeysOf(pair[2])
      PROVE  \E r \in results : r.pair = pair /\ r.row.key = k
  <2>1. PICK m \in Merge(Side(pair[1]), Side(pair[2])) : m.key = k
    BY SideKeys, MergeCovers
  <2>2. QED
    BY <2>1, RowResult
<1>2. ASSUME NEW r \in results, r.pair = pair
      PROVE  r.row.key \in KeysOf(pair[1]) \cup KeysOf(pair[2])
  <2>1. r.row \in Merge(Side(pair[1]), Side(pair[2]))
    BY <1>2, ResultRow
  <2>2. r.row.key \in KeysIn(Side(pair[1])) \cup KeysIn(Side(pair[2]))
    BY <2>1 DEF Merge, Joined, KeysIn
  <2>3. QED
    BY <2>2, SideKeys
<1>3. ASSUME NEW r \in results, NEW q \in results,
             r.pair = pair, q.pair = pair, r.row.key = q.row.key
      PROVE  r = q
  <2>1. r.row \in Merge(Side(pair[1]), Side(pair[2]))
    BY <1>3, ResultRow
  <2>2. q.row \in Merge(Side(pair[1]), Side(pair[2]))
    BY <1>3, ResultRow
  <2>3. r.row = q.row
    BY <1>3, <2>1, <2>2, Sides, MergeUnique
  <2>4. r.status = q.status /\ r.reason = q.reason
    BY <1>3, <2>3, ResultRow
  <2>5. r = [pair |-> r.pair, row |-> r.row, status |-> r.status, reason |-> r.reason]
    BY ResultRow
  <2>6. q = [pair |-> q.pair, row |-> q.row, status |-> q.status, reason |-> q.reason]
    BY ResultRow
  <2>7. QED
    BY <1>3, <2>3, <2>4, <2>5, <2>6
<1>4. QED
  BY <1>1, <1>2, <1>3

\* The four kinds of reason differ.
LEMMA ReasonsDiffer ==
    /\ \A p : NoReason # Missing(p) /\ NoPrice # Missing(p) /\ PriceDifference # Missing(p)
    /\ NoReason # NoPrice /\ NoReason # PriceDifference
    /\ \A p, q : Missing(p) = Missing(q) => p = q
<1>1. Len(NoReason) = 0 /\ Len(NoPrice) = 1 /\ Len(PriceDifference) = 1
  BY DEF NoReason, NoPrice, PriceDifference
<1>2. \A p : Len(Missing(p)) = 2 /\ Missing(p)[2] = p
  BY DEF Missing
<1>3. QED
  BY <1>1, <1>2

\* What the passes over a joined row amount to.
LEMMA StatusMeans ==
    ASSUME NEW c \in Controls, NEW m, NEW pair, NEW rules,
           ~m.left => m.a = Absent, ~m.right => m.b = Absent
    PROVE  Verdict(c, m, pair, rules)[1] =
             IF c = "EQUITY" THEN EquityStatus(m, rules) ELSE BreakPass(m, rules)
<1>1. CASE c = "EQUITY"
  BY <1>1 DEF Verdict
<1>2. CASE c = "OPTION"
  <2>1. Unpriced(m) \/ BeyondBreak(m, rules) <=> ChainReason(m, rules) # NoReason
    BY ReasonsDiffer DEF ChainReason, Unpriced
  <2>2. ChainReason(m, rules) = NoReason <=> OptionReason(m, pair, rules) = NoReason
    BY ReasonsDiffer DEF OptionReason
  <2>3. QED
    BY <1>2, <2>1, <2>2 DEF Verdict, BreakPass
<1>3. CASE c = "FUTURES"
  <2>1. Unpriced(m) \/ BeyondBreak(m, rules) <=> FuturesReason(m, rules) # NoReason
    BY ReasonsDiffer DEF FuturesReason, Unpriced
  <2>2. QED
    BY <1>3, <2>1 DEF Verdict, BreakPass
<1>4. QED
  BY <1>1, <1>2, <1>3 DEF Controls

\* A row is a break exactly if it lacks a close or is beyond the break limit.
LEMMA BreakMeans ==
    ASSUME IInv, NEW r \in results
    PROVE  r.status = "BREAK" <=> Unpriced(r.row) \/ BeyondBreak(r.row, Rules[control])
<1>1. r.status = IF control = "EQUITY" THEN EquityStatus(r.row, Rules[control])
                 ELSE BreakPass(r.row, Rules[control])
  <2>1. /\ control \in Controls
        /\ ~r.row.left => r.row.a = Absent
        /\ ~r.row.right => r.row.b = Absent
        /\ r.status = Verdict(control, r.row, r.pair, Rules[control])[1]
    BY ResultRow DEF RowFacts, IInv
  <2>2. Verdict(control, r.row, r.pair, Rules[control])[1]
          = IF control = "EQUITY" THEN EquityStatus(r.row, Rules[control])
            ELSE BreakPass(r.row, Rules[control])
    BY <2>1, StatusMeans
  <2>3. QED
    BY <2>1, <2>2
<1>2. Beyond(r.row, Rules[control].warn, Rules[control].warnPercent) => ~Unpriced(r.row)
  BY DEF Beyond
<1>3. QED
  BY <1>1, <1>2 DEF EquityStatus, BreakPass

\* The only pair of a futures comparison.
LEMMA FuturesSides ==
    ASSUME NEW pair \in Combinations(Order["FUTURES"])
    PROVE  pair[1] = "YAHOO" /\ pair[2] = "MASSIVE"
<1>1. Order["FUTURES"] = <<"YAHOO", "MASSIVE">> /\ Len(<<"YAHOO", "MASSIVE">>) = 2
  BY DataAssumption
<1>2. pair \in Combinations(<<"YAHOO", "MASSIVE">>)
  BY <1>1
<1>3. PICK ij \in (1..2) \X (1..2) :
         ij[1] < ij[2] /\ pair = <<<<"YAHOO", "MASSIVE">>[ij[1]], <<"YAHOO", "MASSIVE">>[ij[2]]>>
  BY <1>1, <1>2 DEF Combinations
<1>4. ij[1] = 1 /\ ij[2] = 2
  BY <1>3
<1>5. QED
  BY <1>3, <1>4

\* Whatever the renaming of an option row's sides does, a reason is one of its pair's.
LEMMA ReasonOfPair ==
    ASSUME IInv, NEW r \in results
    PROVE  r.reason \in Reasons(r.pair)
<1> DEFINE m == r.row
           rules == Rules[control]
<1>1. /\ RowFacts(r.pair, m) /\ control \in Controls
      /\ r.reason = Verdict(control, m, r.pair, rules)[2]
  BY ResultRow DEF IInv
<1> HIDE DEF m, rules
<1>2. CASE control = "EQUITY"
  <2>1. r.reason = EquityReason(m, r.pair, EquityStatus(m, rules))
    BY <1>1, <1>2 DEF Verdict
  <2>2. QED
    BY <2>1 DEF EquityReason, Reasons
<1>3. CASE control = "OPTION"
  <2>1. r.reason = OptionReason(m, r.pair, rules)
    BY <1>1, <1>3 DEF Verdict
  <2>2. ChainReason(m, rules) \in
          {Missing("ALPACA"), Missing("YAHOO"), NoPrice, PriceDifference, NoReason}
    BY DEF ChainReason
  <2>3. QED
    BY <2>1, <2>2 DEF OptionReason, Reasons
<1>4. CASE control = "FUTURES"
  <2>1. r.reason = FuturesReason(m, rules)
    BY <1>1, <1>4 DEF Verdict
  <2>2. r.pair[1] = "YAHOO" /\ r.pair[2] = "MASSIVE"
    BY <1>1, <1>4, FuturesSides DEF RowFacts, Pairs
  <2>3. QED
    BY <2>1, <2>2 DEF FuturesReason, Reasons
<1>5. QED
  BY <1>1, <1>2, <1>3, <1>4 DEF Controls

\* In the callers' dicts, nobody comes before YAHOO.
YahooFirst == \A pair \in Combinations(Order["OPTION"]) : pair[2] # "YAHOO"

\* A row has a reason exactly if it is a break, and the reason names who is missing.
LEMMA ReasonMeans ==
    ASSUME YahooFirst, IInv, NEW r \in results
    PROVE  /\ r.status = "BREAK" <=> r.reason # NoReason
           /\ ~r.row.left /\ (r.row.b # Absent \/ control # "FUTURES") =>
                 r.reason = Missing(r.pair[1])
           /\ ~r.row.right => r.reason = Missing(r.pair[2])
<1> DEFINE m == r.row
           rules == Rules[control]
<1>1. /\ RowFacts(r.pair, m) /\ control \in Controls /\ Absent \notin Nat
      /\ r.status = Verdict(control, m, r.pair, rules)[1]
      /\ r.reason = Verdict(control, m, r.pair, rules)[2]
  BY ResultRow, DataAssumption DEF IInv
<1>2. r.status = "BREAK" <=> Unpriced(m) \/ BeyondBreak(m, rules)
  BY BreakMeans
<1>3. m.left \/ m.right
  BY ResultRow DEF Merge, Joined
<1> HIDE DEF m, rules
<1>4. CASE control = "EQUITY"
  <2>1. r.reason = EquityReason(m, r.pair, r.status)
    BY <1>1, <1>4 DEF Verdict
  <2>2. QED
    BY <1>1, <1>2, <1>3, <1>4, <2>1, ReasonsDiffer DEF EquityReason, Unpriced, RowFacts, m, rules
<1>5. CASE control = "OPTION"
  <2>1. r.reason = OptionReason(m, r.pair, rules)
    BY <1>1, <1>5 DEF Verdict
  <2>2. r.pair[2] # "YAHOO"
    BY <1>1, <1>5 DEF RowFacts, Pairs, YahooFirst
  <2>3. CASE ~m.right
    <3>1. r.reason = Missing(r.pair[2])
      BY <2>1, <2>2, <2>3, ReasonsDiffer DEF OptionReason, ChainReason
    <3>2. QED
      BY <1>1, <1>2, <1>3, <2>3, <3>1, ReasonsDiffer DEF RowFacts, Unpriced, m, rules
  <2>4. CASE m.right /\ ~m.left
    <3>1. r.reason = Missing(r.pair[1])
      BY <2>1, <2>4, ReasonsDiffer DEF OptionReason, ChainReason
    <3>2. QED
      BY <1>1, <1>2, <2>4, <3>1, ReasonsDiffer DEF RowFacts, Unpriced, m, rules
  <2>5. CASE m.right /\ m.left
    <3>1. r.reason = IF Unpriced(m) THEN NoPrice
                     ELSE IF BeyondBreak(m, rules) THEN PriceDifference ELSE NoReason
      BY <2>1, <2>5, ReasonsDiffer DEF OptionReason, ChainReason
    <3>2. QED
      BY <1>2, <2>5, <3>1, ReasonsDiffer DEF m
  <2>6. QED
    BY <1>1, <2>3, <2>4, <2>5 DEF RowFacts
<1>6. CASE control = "FUTURES"
  <2>1. r.reason = FuturesReason(m, rules)
    BY <1>1, <1>6 DEF Verdict
  <2>2. r.pair[1] = "YAHOO" /\ r.pair[2] = "MASSIVE"
    BY <1>1, <1>6, FuturesSides DEF RowFacts, Pairs
  <2>3. r.reason = IF m.b = Absent THEN Missing(r.pair[2])
                   ELSE IF m.a = Absent THEN Missing(r.pair[1])
                   ELSE IF BeyondBreak(m, rules) THEN PriceDifference ELSE NoReason
    BY <2>1, <2>2 DEF FuturesReason
  <2>4. r.status = "BREAK" <=> r.reason # NoReason
    BY <1>2, <2>3, ReasonsDiffer DEF Unpriced
  <2>5. QED
    BY <1>1, <1>6, <2>3, <2>4 DEF RowFacts, m
<1>7. QED
  BY <1>1, <1>4, <1>5, <1>6 DEF Controls

(***************************************************************************)
(* The order of verdicts.                                                  *)
(***************************************************************************)
\* Multiplication keeps the order of natural numbers.
LEMMA TimesMonotone ==
    ASSUME NEW x \in Nat, NEW y \in Nat, NEW u \in Nat, x <= y PROVE x * u <= y * u
<1>1. (y - x) * u >= 0 /\ y * u = x * u + (y - x) * u
  OBVIOUS
<1>2. x * u \in Int /\ (y - x) * u \in Int
  OBVIOUS
<1>3. QED
  BY <1>1, <1>2

\* Who is beyond a limit stays beyond it with a larger difference.
LEMMA BeyondMonotone ==
    ASSUME NEW m, NEW n, {m.a, m.b, n.a, n.b} \subseteq Nat, Largest(m) = Largest(n),
           Difference(m) <= Difference(n), NEW tolerance \in Nat, NEW percent \in Nat,
           Beyond(m, tolerance, percent)
    PROVE  Beyond(n, tolerance, percent)
<1>1. /\ Difference(m) \in Nat /\ Difference(n) \in Nat /\ Largest(m) \in Nat
      /\ Unit \in Nat /\ ~Unpriced(n)
  BY DataAssumption, RulesAssumption DEF Difference, Largest, Unpriced
<1>2. Difference(m) * Unit <= Difference(n) * Unit
  BY <1>1, TimesMonotone
<1>3. /\ Difference(m) * Unit \in Int /\ Difference(n) * Unit \in Int
      /\ tolerance * Unit \in Int /\ Largest(m) * percent \in Int
  BY <1>1
<1>4. Difference(n) * Unit > tolerance * Unit
  BY <1>2, <1>3 DEF Beyond
<1>5. Difference(n) * Unit > Largest(n) * percent
  BY <1>2, <1>3 DEF Beyond
<1>6. QED
  BY <1>1, <1>4, <1>5 DEF Beyond

\* A row with both closes has natural closes and rules with natural limits.
LEMMA PricedRow ==
    ASSUME IInv, NEW r \in results
    PROVE  /\ ~Unpriced(r.row) => {r.row.a, r.row.b} \subseteq Nat
           /\ r.status = IF control = "EQUITY" THEN EquityStatus(r.row, Rules[control])
                         ELSE BreakPass(r.row, Rules[control])
           /\ r.status \in {"MATCH", "WARN", "BREAK"}
<1>1. /\ control \in Controls
      /\ r.row.a \in Nat \cup {Absent} /\ r.row.b \in Nat \cup {Absent}
      /\ ~r.row.left => r.row.a = Absent
      /\ ~r.row.right => r.row.b = Absent
      /\ r.status = Verdict(control, r.row, r.pair, Rules[control])[1]
  BY ResultRow DEF RowFacts, IInv
<1>2. Verdict(control, r.row, r.pair, Rules[control])[1]
        = IF control = "EQUITY" THEN EquityStatus(r.row, Rules[control])
          ELSE BreakPass(r.row, Rules[control])
  BY <1>1, StatusMeans
<1>3. QED
  BY <1>1, <1>2 DEF Unpriced, EquityStatus, BreakPass

\* Of two priced rows with the same larger close, the closer is not judged worse.
LEMMA Closer ==
    ASSUME IInv, NEW r \in results, NEW q \in results, ~Unpriced(r.row), ~Unpriced(q.row),
           Largest(r.row) = Largest(q.row), Difference(r.row) <= Difference(q.row)
    PROVE  Severity[r.status] <= Severity[q.status]
<1> DEFINE rules == Rules[control]
           m == r.row
           n == q.row
<1>1. /\ {m.a, m.b, n.a, n.b} \subseteq Nat
      /\ r.status = IF control = "EQUITY" THEN EquityStatus(m, rules) ELSE BreakPass(m, rules)
      /\ q.status = IF control = "EQUITY" THEN EquityStatus(n, rules) ELSE BreakPass(n, rules)
      /\ r.status \in {"MATCH", "WARN", "BREAK"} /\ q.status \in {"MATCH", "WARN", "BREAK"}
  BY PricedRow
<1>2. /\ rules.tolerance \in Nat /\ rules.percent \in Nat
      /\ rules.warn \in Nat \cup {Absent} /\ rules.warnPercent \in Nat
  BY RulesAssumption DEF IInv
<1> HIDE DEF rules, m, n
<1>3. BeyondBreak(m, rules) => BeyondBreak(n, rules)
  BY <1>1, <1>2, BeyondMonotone DEF BeyondBreak, m, n
<1>4. ASSUME rules.warn # Absent, Beyond(m, rules.warn, rules.warnPercent)
      PROVE  Beyond(n, rules.warn, rules.warnPercent)
  <2>1. rules.warn \in Nat
    BY <1>2, <1>4
  <2>2. QED
    BY <1>1, <1>2, <1>4, <2>1, BeyondMonotone DEF m, n
<1>5. ~Unpriced(m) /\ ~Unpriced(n)
  BY DEF m, n
<1>6. /\ Severity["MATCH"] = 0 /\ Severity["WARN"] = 1 /\ Severity["BREAK"] = 2
  BY DEF Severity
<1>7. r.status = "WARN" => q.status \in {"WARN", "BREAK"}
  BY <1>1, <1>3, <1>4, <1>5 DEF EquityStatus, BreakPass
<1>8. r.status = "BREAK" => q.status = "BREAK"
  BY <1>1, <1>3, <1>5 DEF EquityStatus, BreakPass
<1>9. QED
  BY <1>1, <1>6, <1>7, <1>8

\* Limits are the same for a row and its mirror image.
LEMMA SwapBeyond ==
    ASSUME NEW m, NEW n, n.a = m.b, n.b = m.a, {m.a, m.b} \subseteq Nat \cup {Absent},
           NEW tolerance, NEW percent
    PROVE  /\ Unpriced(n) <=> Unpriced(m)
           /\ Beyond(n, tolerance, percent) <=> Beyond(m, tolerance, percent)
<1>1. Unpriced(n) <=> Unpriced(m)
  BY DEF Unpriced
<1>2. ASSUME ~Unpriced(m) PROVE Difference(n) = Difference(m) /\ Largest(n) = Largest(m)
  <2>1. m.a \in Nat /\ m.b \in Nat
    BY <1>2 DEF Unpriced
  <2>2. QED
    BY <2>1 DEF Difference, Largest
<1>3. QED
  BY <1>1, <1>2 DEF Beyond

\* The mirror image of a row has its status.
LEMMA Swap ==
    ASSUME IInv, NEW r \in results
    PROVE  LET swapped == Joined(r.row.key, r.row.right, r.row.left, r.row.b, r.row.a)
           IN Verdict(control, swapped, <<r.pair[2], r.pair[1]>>, Rules[control])[1] = r.status
<1> DEFINE rules == Rules[control]
           m == r.row
           n == Joined(m.key, m.right, m.left, m.b, m.a)
           back == <<r.pair[2], r.pair[1]>>
<1>1. /\ m.a \in Nat \cup {Absent} /\ m.b \in Nat \cup {Absent} /\ control \in Controls
      /\ ~m.left => m.a = Absent
      /\ ~m.right => m.b = Absent
  BY ResultRow DEF RowFacts, IInv
<1>2. n.a = m.b /\ n.b = m.a /\ n.left = m.right /\ n.right = m.left
  BY DEF Joined
<1>3. r.status = IF control = "EQUITY" THEN EquityStatus(m, rules) ELSE BreakPass(m, rules)
  BY PricedRow
<1> HIDE DEF n, m, rules
<1>4. Verdict(control, n, back, rules)[1]
        = IF control = "EQUITY" THEN EquityStatus(n, rules) ELSE BreakPass(n, rules)
  BY <1>1, <1>2, StatusMeans
<1>5. Unpriced(n) <=> Unpriced(m)
  BY <1>1, <1>2, SwapBeyond
<1>6. BeyondBreak(n, rules) <=> BeyondBreak(m, rules)
  BY <1>1, <1>2, SwapBeyond DEF BeyondBreak
<1>7. Beyond(n, rules.warn, rules.warnPercent) <=> Beyond(m, rules.warn, rules.warnPercent)
  BY <1>1, <1>2, SwapBeyond
<1>8. EquityStatus(n, rules) = EquityStatus(m, rules) /\ BreakPass(n, rules) = BreakPass(m, rules)
  BY <1>5, <1>6, <1>7 DEF EquityStatus, BreakPass
<1>9. Verdict(control, n, back, rules)[1] = r.status
  BY <1>3, <1>4, <1>8
<1>10. QED
  BY <1>9 DEF n, m, rules

(***************************************************************************)
(* The outcome of a run.                                                   *)
(***************************************************************************)
\* Delivered rows are those of a side; options and equities are joined on a real key.
LEMMA SideRows ==
    ASSUME IInv, control # "FUTURES", NEW p \in Names(control)
    PROVE  /\ \A x \in frames[p] :
                 [key |-> KeyOf(control, p, x.raw), close |-> x.close] \in Side(p)
           /\ \A x \in Side(p) : \E y \in frames[p] :
                 x.key = KeyOf(control, p, y.raw) /\ x.close = y.close
<1>1. ASSUME NEW x \in frames[p] PROVE KeyOf(control, p, x.raw) # Absent
  <2>1. x.raw \in RawKeys /\ control \in Controls
    BY DEF IInv, Rows
  <2>2. KeyOf(control, p, x.raw) = Canonical[x.raw] /\ Canonical[x.raw] \in Keys
    BY <2>1, DataAssumption DEF KeyOf
  <2>3. QED
    BY <2>2, DataAssumption
<1>2. QED
  BY <1>1 DEF Side, Keyed

\* A compared pair has no break exactly if its providers agree.
LEMMA PairAgrees ==
    ASSUME IInv, outcome # "RAISED", control # "FUTURES", NEW pair \in compared
    PROVE  Agree(pair[1], pair[2]) <=> \A r \in results : r.pair = pair => r.status # "BREAK"
<1> DEFINE p == pair[1]
           q == pair[2]
           rules == Rules[control]
<1>1. p \in Names(control) /\ q \in Names(control)
  BY Sides, PairNames DEF IInv
<1>2. ASSUME Agree(p, q), NEW r \in results, r.pair = pair, r.status = "BREAK"
      PROVE  FALSE
  <2>1. RowFacts(pair, r.row)
    BY <1>2, ResultRow
  <2>2. r.row.key \in KeysOf(p) \cup KeysOf(q) /\ KeysOf(p) = KeysOf(q)
    BY <1>2, PairIsComplete DEF Agree
  <2>3. r.row.left /\ r.row.right
    BY <2>1, <2>2 DEF RowFacts
  <2>4. PICK x \in frames[p] : r.row.key = KeyOf(control, p, x.raw) /\ r.row.a = x.close
    BY <1>1, <2>1, <2>3, SideRows DEF RowFacts
  <2>5. PICK y \in frames[q] : r.row.key = KeyOf(control, q, y.raw) /\ r.row.b = y.close
    BY <1>1, <2>1, <2>3, SideRows DEF RowFacts
  <2>6. /\ Absent \notin {x.close, y.close}
        /\ ~BeyondBreak(Joined(x.raw, TRUE, TRUE, x.close, y.close), rules)
    BY <1>2, <2>4, <2>5 DEF Agree
  <2>7. ~Unpriced(r.row) /\ ~BeyondBreak(r.row, rules)
    BY <2>4, <2>5, <2>6
    DEF BeyondBreak, Beyond, Unpriced, Difference, Largest, Joined
  <2>8. QED
    BY <1>2, <2>7, BreakMeans
<1>3. ASSUME \A r \in results : r.pair = pair => r.status # "BREAK"
      PROVE  Agree(p, q)
  <2>1. ASSUME NEW r \in results, r.pair = pair
        PROVE  /\ RowFacts(pair, r.row) /\ ~Unpriced(r.row) /\ ~BeyondBreak(r.row, rules)
               /\ r.row.left /\ r.row.right
    <3>1. RowFacts(pair, r.row)
      BY <2>1, ResultRow
    <3>2. ~Unpriced(r.row) /\ ~BeyondBreak(r.row, rules)
      BY <1>3, <2>1, BreakMeans
    <3>3. QED
      BY <3>1, <3>2 DEF RowFacts, Unpriced
  <2>2. KeysOf(p) = KeysOf(q)
    <3>1. ASSUME NEW k \in KeysOf(p) \cup KeysOf(q) PROVE k \in KeysOf(p) /\ k \in KeysOf(q)
      <4>1. PICK r \in results : r.pair = pair /\ r.row.key = k
        BY PairIsComplete
      <4>2. QED
        BY <2>1, <4>1 DEF RowFacts
    <3>2. QED
      BY <3>1
  <2>3. ASSUME NEW x \in frames[p], NEW y \in frames[q],
               KeyOf(control, p, x.raw) = KeyOf(control, q, y.raw)
        PROVE  /\ Absent \notin {x.close, y.close}
               /\ ~BeyondBreak(Joined(x.raw, TRUE, TRUE, x.close, y.close), rules)
    <3> DEFINE k == KeyOf(control, p, x.raw)
    <3>1. [key |-> k, close |-> x.close] \in Side(p) /\ [key |-> k, close |-> y.close] \in Side(q)
      BY <1>1, <2>3, SideRows
    <3>2. k \in KeysOf(p)
      BY <3>1, SideKeys DEF KeysIn
    <3>3. PICK r \in results : r.pair = pair /\ r.row.key = k
      BY <3>2, PairIsComplete
    <3>4. /\ [key |-> k, close |-> r.row.a] \in Side(p)
          /\ [key |-> k, close |-> r.row.b] \in Side(q)
      BY <2>1, <3>3 DEF RowFacts
    <3>5. Unique(Side(p)) /\ Unique(Side(q))
      BY Sides
    <3> HIDE DEF k, p, q
    <3>6. [key |-> k, close |-> r.row.a] = [key |-> k, close |-> x.close]
      BY <3>1, <3>4, <3>5 DEF Unique
    <3>7. [key |-> k, close |-> r.row.b] = [key |-> k, close |-> y.close]
      BY <3>1, <3>4, <3>5 DEF Unique
    <3>8. r.row.a = x.close /\ r.row.b = y.close
      BY <3>6, <3>7
    <3>9. ~Unpriced(r.row) /\ ~BeyondBreak(r.row, rules)
      BY <2>1, <3>3
    <3>10. QED
      BY <3>8, <3>9 DEF BeyondBreak, Beyond, Unpriced, Difference, Largest, Joined
  <2>4. QED
    BY <2>2, <2>3 DEF Agree
<1>4. QED
  BY <1>2, <1>3

\* Each break of a concluded equity run has an exception with an id of its own.
LEMMA Exceptions ==
    ASSUME IInv, Concluded, control = "EQUITY", NEW r \in Breaks(results)
    PROVE  \E e \in exceptions :
              /\ e.reason = r.reason /\ r.reason # NoReason
              /\ \A q \in Breaks(results) : q # r => ExceptionOf(q).id # e.id
<1>1. r \in results /\ r.status = "BREAK" /\ outcome # "RAISED" /\ r.pair \in compared
  BY ResultRow DEF Breaks, Concluded, RowFacts
<1>2. ExceptionOf(r) \in exceptions
  BY DEF IInv
<1>3. /\ ExceptionOf(r).reason = r.reason
      /\ \A q : ExceptionOf(q).id = <<q.row.key, q.pair>>
  BY DEF ExceptionOf
<1>4. r.reason # NoReason
  <2>1. r.reason = EquityReason(r.row, r.pair, r.status)
    BY <1>1, ResultRow DEF Verdict
  <2>2. QED
    BY <1>1, <2>1, ReasonsDiffer DEF EquityReason, Unpriced
<1>5. ASSUME NEW q \in Breaks(results), ExceptionOf(q).id = ExceptionOf(r).id PROVE q = r
  <2>1. q \in results /\ q.row.key = r.row.key /\ q.pair = r.pair
    BY <1>3, <1>5 DEF Breaks
  <2>2. QED
    BY <1>1, <2>1, PairIsComplete
<1>6. QED
  BY <1>2, <1>3, <1>4, <1>5

(***************************************************************************)
(* Theorems.                                                               *)
(***************************************************************************)
\* Every reachable state satisfies IInv.
THEOREM InductiveInvariant == Spec => []IInv
BY InitInv, StepInv, PTL DEF Spec

\* Each normalized key of either provider is judged exactly once per pair.
THEOREM EveryKeyIsJudged == Spec => []JoinIsComplete
<1>1. IInv => JoinIsComplete
  <2>1. SUFFICES ASSUME IInv, NEW pair \in compared, outcome # "RAISED"
                 PROVE  LET rows == {r \in results : r.pair = pair} IN
                        /\ {r.row.key : r \in rows} = KeysOf(pair[1]) \cup KeysOf(pair[2])
                        /\ \A r, q \in rows : r.row.key = q.row.key => r = q
                        /\ \A r \in rows :
                             /\ r.row.left => Delivered(pair[1], r.row.key, r.row.a)
                             /\ r.row.right => Delivered(pair[2], r.row.key, r.row.b)
                             /\ r.row.left <=> r.row.key \in KeysOf(pair[1])
                             /\ r.row.right <=> r.row.key \in KeysOf(pair[2])
    BY DEF JoinIsComplete
  <2> DEFINE rows == {r \in results : r.pair = pair}
  <2>2. {r.row.key : r \in rows} = KeysOf(pair[1]) \cup KeysOf(pair[2])
    BY <2>1, PairIsComplete
  <2>3. \A r, q \in rows : r.row.key = q.row.key => r = q
    BY <2>1, PairIsComplete
  <2>4. ASSUME NEW r \in rows PROVE RowFacts(pair, r.row)
    BY <2>1, ResultRow
  <2>5. QED
    BY <2>2, <2>3, <2>4 DEF RowFacts, Delivered, Side
<1>2. QED
  BY <1>1, InductiveInvariant, PTL

\* With YAHOO first in the dict of option frames, as the callers have it, each break names
\* its reason and each one-sided row the missing provider.
THEOREM MissingProviderIsNamed ==
    ASSUME YahooFirst PROVE Spec => []MissingIsNamed
<1>1. IInv => MissingIsNamed
  BY ReasonMeans DEF MissingIsNamed
<1>2. QED
  BY <1>1, InductiveInvariant, PTL

\* For all thresholds, a smaller difference at the same price is never judged worse.
THEOREM CloserNeverWorse == Spec => []CloserIsNotWorse
<1>1. IInv => CloserIsNotWorse
  BY Closer, BreakMeans DEF CloserIsNotWorse
<1>2. QED
  BY <1>1, InductiveInvariant, PTL

\* For all thresholds, the status of a row is that of its mirror image.
THEOREM StatusIsSymmetric == Spec => []SwapKeepsStatus
<1>1. IInv => SwapKeepsStatus
  BY Swap DEF SwapKeepsStatus
<1>2. QED
  BY <1>1, InductiveInvariant, PTL

\* SUCCESS means that any two providers agree on everything, and nothing else does.
THEOREM SuccessIsAgreement == Spec => []SuccessMeansAgreement
<1>1. IInv => SuccessMeansAgreement
  <2>1. SUFFICES ASSUME IInv, Concluded
                 PROVE  outcome = "SUCCESS" <=> \A pair \in Pairs : Agree(pair[1], pair[2])
    BY DEF SuccessMeansAgreement, Concluded
  <2>2. /\ compared = Pairs /\ control # "FUTURES" /\ outcome # "RAISED"
        /\ outcome = "SUCCESS" <=> Breaks(results) = {}
    BY <2>1 DEF IInv, Concluded
  <2>3. \A r \in results : r.pair \in compared
    BY <2>1, ResultRow DEF RowFacts
  <2>4. \A pair \in Pairs : Agree(pair[1], pair[2]) <=>
            \A r \in results : r.pair = pair => r.status # "BREAK"
    BY <2>1, <2>2, PairAgrees
  <2>5. QED
    BY <2>2, <2>3, <2>4 DEF Breaks
<1>2. QED
  BY <1>1, InductiveInvariant, PTL

\* Each break of a concluded equity run has an exception with an id of its own.
THEOREM BreaksHaveExceptions == Spec => []ExceptionsCoverBreaks
<1>1. IInv => ExceptionsCoverBreaks
  BY Exceptions DEF ExceptionsCoverBreaks, Concluded
<1>2. QED
  BY <1>1, InductiveInvariant, PTL

\* Every variable keeps its type, and no null close gets into the rows of an equity run.
THEOREM TypeCorrect == Spec => []TypeOK
<1>1. IInv => TypeOK
  <2>1. SUFFICES ASSUME IInv PROVE TypeOK
    OBVIOUS
  <2>2. ASSUME NEW r \in results
        PROVE  /\ r.pair \in compared /\ r.row.key \in Keys
               /\ {r.row.a, r.row.b} \subseteq Nat \cup {Absent}
               /\ r.status \in {"MATCH", "WARN", "BREAK"} /\ r.reason \in Reasons(r.pair)
               /\ control = "EQUITY" => /\ r.row.left => r.row.a \in Nat
                                        /\ r.row.right => r.row.b \in Nat
    <3>1. RowFacts(r.pair, r.row) /\ r.status \in {"MATCH", "WARN", "BREAK"}
      BY <2>1, ResultRow, PricedRow
    <3>2. r.reason \in Reasons(r.pair)
      BY <2>1, ReasonOfPair
    <3>3. QED
      BY <3>1, <3>2 DEF RowFacts
  <2>3. QED
    BY <2>1, <2>2 DEF TypeOK, IInv
<1>2. QED
  BY <1>1, InductiveInvariant, PTL
=============================================================================
