--------------------------- MODULE ExportApiProofs ---------------------------
(***************************************************************************)
(* Proofs about ExportApi, for any tables, runs, clients, limits, numbers  *)
(* of slots and of releases.                                               *)
(***************************************************************************)
EXTENDS ExportApi, FiniteSetTheorems, TLAPS

(***************************************************************************)
(* What LIMIT and OFFSET return.                                           *)
(***************************************************************************)
\* Sets of rows are finite.
LEMMA RowsAreFinite ==
    ASSUME NEW S \in SUBSET Rows
    PROVE  IsFiniteSet(S) /\ Cardinality(S) \in Nat
BY ExportAssumption, FS_Subset, FS_CardinalityType

\* A LIMIT that is no less than the number of rows returns them all.
LEMMA FirstOfFew ==
    ASSUME NEW S \in SUBSET Rows, NEW n \in Nat, Cardinality(S) <= n, NEW part \in First(n, S)
    PROVE  part = S
<1>1. part \in SUBSET S /\ Cardinality(part) = Cardinality(S)
  BY RowsAreFinite DEF First, Least
<1>2. QED
  BY <1>1, RowsAreFinite, FS_Subset

\* A LIMIT returns no more rows than it says, and all of them if they are fewer.
LEMMA FirstIsShort ==
    ASSUME NEW S \in SUBSET Rows, NEW n \in Nat, NEW part \in First(n, S)
    PROVE  /\ part \in SUBSET S /\ Cardinality(part) \in Nat /\ Cardinality(part) <= n
           /\ Cardinality(part) < n => part = S
<1>1. part \in SUBSET S /\ part \in SUBSET Rows
  BY DEF First
<1>2. Cardinality(part) \in Nat /\ Cardinality(S) \in Nat
  BY <1>1, RowsAreFinite
<1>3. Cardinality(part) <= n
  BY <1>2 DEF First, Least
<1>4. Cardinality(part) < n => Cardinality(S) <= n
  BY <1>2 DEF First, Least
<1>5. QED
  BY <1>1, <1>2, <1>3, <1>4, FirstOfFew

\* The rows of a set that an ORDER BY puts in front of row r, whatever it does with ties.
Above(r, S) == {q \in S : Key[q] > Key[r]}

Tied(r, S) == \E q \in S \ {r} : Key[q] = Key[r]

\* Rows that are added push others back and pull none forward.
LEMMA AboveGrows ==
    ASSUME NEW S \in SUBSET Rows, NEW T \in SUBSET Rows, S \subseteq T, NEW r \in Rows
    PROVE  /\ Cardinality(Above(r, S)) \in Nat /\ Cardinality(Above(r, T)) \in Nat
           /\ Cardinality(Above(r, S)) <= Cardinality(Above(r, T))
<1>1. Above(r, S) \subseteq Above(r, T) /\ Above(r, T) \in SUBSET Rows
  BY DEF Above
<1>2. QED
  BY <1>1, RowsAreFinite, FS_Subset

\* A set of rows that has all of another one and one more has more of them.
LEMMA ProperSubset ==
    ASSUME NEW S \in SUBSET Rows, NEW T \in SUBSET Rows, S \subseteq T, NEW r \in T, r \notin S
    PROVE  Cardinality(S) < Cardinality(T)
<1>1. /\ Cardinality(S) \in Nat /\ Cardinality(T) \in Nat
      /\ IsFiniteSet(T) /\ S # T
  BY RowsAreFinite
<1>2. Cardinality(S) <= Cardinality(T) /\ (Cardinality(S) = Cardinality(T) => S = T)
  BY <1>1, FS_Subset
<1>3. QED
  BY <1>1, <1>2

\* Of a row without ties, the number of rows in front of it decides whether a LIMIT returns it.
LEMMA RankDecides ==
    ASSUME NEW S \in SUBSET Rows, NEW n \in Nat, NEW part \in First(n, S),
           NEW r \in S, ~Tied(r, S)
    PROVE  r \in part <=> Cardinality(Above(r, S)) < n
<1> DEFINE above == Above(r, S)
<1>1. part \in SUBSET S /\ part \in SUBSET Rows /\ above \in SUBSET S /\ above \in SUBSET Rows
      /\ r \notin above
  BY ExportAssumption DEF First, Above
<1>2. Cardinality(part) \in Nat /\ Cardinality(above) \in Nat /\ Cardinality(part) <= n
  BY <1>1, FirstIsShort, RowsAreFinite
<1>3. CASE r \in part
  <2>1. above \subseteq part
    <3> SUFFICES ASSUME NEW q \in above, q \notin part
                 PROVE  FALSE
      OBVIOUS
    <3>1. Key[r] >= Key[q] /\ Key[q] > Key[r] /\ Key[q] \in Nat /\ Key[r] \in Nat
      BY <1>1, <1>3, ExportAssumption DEF First, IsPrefix, Above
    <3>2. QED
      BY <3>1
  <2>2. Cardinality(above) < Cardinality(part)
    BY <1>1, <1>3, <2>1, ProperSubset
  <2>3. QED
    BY <1>2, <1>3, <2>2
<1>4. CASE r \notin part
  <2>1. part \subseteq above
    <3> SUFFICES ASSUME NEW q \in part
                 PROVE  q \in above
      OBVIOUS
    <3>1. Key[q] >= Key[r] /\ Key[q] # Key[r] /\ Key[q] \in Nat /\ Key[r] \in Nat
      BY <1>1, <1>4, ExportAssumption DEF First, IsPrefix, Tied
    <3>2. QED
      BY <1>1, <3>1 DEF Above
  <2>2. Cardinality(part) = n
    BY <1>2, <1>4, FirstIsShort
  <2>3. Cardinality(part) <= Cardinality(above)
    BY <1>1, <2>1, RowsAreFinite, FS_Subset
  <2>4. QED
    BY <1>2, <1>4, <2>2, <2>3
<1>5. QED
  BY <1>3, <1>4

\* A page has the rows without ties that have offset rows in front of them or more, and fewer
\* than the end of the page.
LEMMA PageHas ==
    ASSUME NEW S \in SUBSET Rows, NEW offset \in Nat, NEW part \in Page(offset, S),
           NEW r \in S, ~Tied(r, S), Cardinality(Above(r, S)) < offset + Limit
    PROVE  r \in part \/ Cardinality(Above(r, S)) < offset
<1>1. PICK before \in First(offset, S) : part \cup before \in First(offset + Limit, S)
  BY DEF Page
<1>2. offset + Limit \in Nat
  BY ExportAssumption
<1>3. r \in part \cup before
  BY <1>1, <1>2, RankDecides
<1>4. r \in before <=> Cardinality(Above(r, S)) < offset
  BY <1>1, RankDecides
<1>5. QED
  BY <1>3, <1>4

(***************************************************************************)
(* The inductive invariant.                                                *)
(***************************************************************************)
\* Each release holds the one before, and none more than the live file has; what the
\* publisher has copied is newer than all of them.
ReleaseInv ==
    /\ \A i, j \in 1..Len(releases) : i <= j => releases[i] \subseteq releases[j]
    /\ \A i \in 1..Len(releases) : releases[i] \subseteq live
    /\ copied \subseteq live
    /\ copying # "no" => target = "snapshot"
    /\ copying = "copied" => \A i \in 1..Len(releases) : releases[i] \subseteq copied

\* The release that is open is no older than what has been read.
InstanceInv ==
    /\ instance # 0 <=> \E c \in Clients : IsOpen(c)
    /\ instance # 0 => newest <= instance

SlotInv == slots + Cardinality({c \in Clients : HoldsSlot(c)}) = capacity

\* A download that is answered is a release, and not one from before it was asked for.
ExportInv(r) ==
    r.phase = "answered" /\ r.kind = "export" =>
        /\ Cardinality(r.rows) <= ExportMax
        /\ \E i \in 1..Len(releases) : i >= r.asked /\ r.rows = releases[i] \cap r.filter

RequestInv(c) == request[c].asked <= newest /\ ExportInv(request[c])

IInv ==
    /\ TypeOK /\ ReleaseInv /\ InstanceInv /\ SlotInv
    /\ \A c \in Clients : RequestInv(c)

\* What the batch and the publisher do.
Outside ==
    \/ OpenLive \/ \E run \in Runs : Commit(run)
    \/ BeginCopy \/ EndCopy \/ Replace \/ StopCopy

LEMMA SplitNext ==
    Next <=> \/ Outside
             \/ \E c \in Clients : \/ Serve(c)
                                 \/ \E kind \in Kinds, filter \in Filters : Ask(c, kind, filter)
BY DEF Next, Outside

\* Requests keep their type, whatever is changed of them.
LEMMA IdleType == Idle \in Requests
BY DEF Requests, Idle, Phases, Kinds

LEMMA PhaseType ==
    ASSUME NEW r \in Requests, NEW p \in Phases PROVE [r EXCEPT !.phase = p] \in Requests
BY DEF Requests

LEMMA CountType ==
    ASSUME NEW r \in Requests, NEW p \in Phases, NEW n \in Nat, NEW m \in Nat
    PROVE  [r EXCEPT !.phase = p, !.counted = n, !.total = m] \in Requests
BY DEF Requests

LEMMA RowsType ==
    ASSUME NEW r \in Requests, NEW p \in Phases, NEW S \in SUBSET Rows
    PROVE  [r EXCEPT !.phase = p, !.rows = S] \in Requests
BY DEF Requests

LEMMA PageType ==
    ASSUME NEW r \in Requests, NEW S \in SUBSET Rows, NEW T \in SUBSET Rows, NEW n \in Nat
    PROVE  [r EXCEPT !.rows = S, !.first = T, !.read = n] \in Requests
BY DEF Requests

LEMMA OffsetType ==
    ASSUME NEW r \in Requests, NEW p \in Phases, NEW n \in Nat
    PROVE  [r EXCEPT !.phase = p, !.offset = n, !.counted = 0, !.total = 0] \in Requests
BY DEF Requests

LEMMA LimitType == Limit \in Nat \ {0} /\ ExportMax \in Nat \ {0}
BY ExportAssumption

LEMMA PhaseNames == {"idle", "waiting", "connecting", "querying", "answered"} = Phases
BY DEF Phases

\* The state of a request that was refused.
LEMMA RefuseType ==
    ASSUME TypeOK, NEW c \in Clients, Refuse(c)
    PROVE  request' \in [Clients -> Requests]
<1>1. request[c] \in Requests
  BY DEF TypeOK
<1>2. \/ request' = [request EXCEPT ![c] = Idle]
      \/ request' = [request EXCEPT ![c] =
                        [request[c] EXCEPT !.phase = "waiting", !.counted = 0, !.total = 0]]
  BY DEF Refuse, TypeOK
<1>3. QED
  <2>1. [request[c] EXCEPT !.phase = "waiting", !.counted = 0, !.total = 0] \in Requests
    BY <1>1, CountType DEF Phases
  <2>2. QED
    BY <1>1, <1>2, <2>1, IdleType DEF TypeOK

\* The state of a request that looks at something.
LEMMA Looked ==
    ASSUME TypeOK, NEW c \in Clients, Look(c)
    PROVE  /\ request' \in [Clients -> Requests]
           /\ \A d \in Clients \ {c} : request'[d] = request[d]
           /\ request'[c].phase \in {"waiting", "answered"} /\ request'[c].kind = "look"
           /\ request'[c].asked = request[c].asked
<1>1. request[c] \in Requests /\ instance \in Nat /\ request[c].kind = "look"
  BY DEF TypeOK, Look
<1>2. PICK next \in {"waiting", "answered"} :
        request' = [request EXCEPT ![c] = [request[c] EXCEPT !.phase = next, !.counted = instance]]
  BY <1>1 DEF Look, TypeOK
<1> DEFINE s == [request[c] EXCEPT !.phase = next, !.counted = instance]
<1>3. s \in Requests /\ s.phase = next /\ s.kind = "look" /\ s.asked = request[c].asked
  <2>1. next \in Phases
    BY PhaseNames
  <2>2. QED
    BY <1>1, <2>1 DEF Requests
<1> HIDE DEF s
<1>4. request' = [request EXCEPT ![c] = s]
  BY <1>2 DEF s
<1>5. QED
  BY <1>3, <1>4 DEF TypeOK

LEMMA TypeStep == ASSUME IInv, [Next]_vars PROVE TypeOK'
<1> USE ExportAssumption
<1> USE DEF TypeOK, IInv, configuration, batch, publisher, api
<1>1. CASE UNCHANGED vars
  BY <1>1 DEF vars
<1>2. CASE OpenLive \/ BeginCopy \/ EndCopy \/ StopCopy
  BY <1>2 DEF OpenLive, BeginCopy, EndCopy, StopCopy
<1>3. ASSUME NEW run \in Runs, Commit(run)
      PROVE  TypeOK'
  <2>1. live' \in SUBSET Rows
    BY <1>3 DEF Commit
  <2>2. releases' = releases \/ releases' = Append(releases, live')
    BY <1>3 DEF Commit
  <2>3. CASE releases' = releases
    BY <1>3, <2>1, <2>3 DEF Commit
  <2>4. CASE releases' = Append(releases, live')
    <3>1. releases' \in Seq(SUBSET Rows) /\ Len(releases') = Len(releases) + 1
      BY <2>1, <2>4
    <3>2. writing' = FALSE /\ UNCHANGED <<configuration, publisher, api>>
      BY <1>3 DEF Commit
    <3>3. instance \in 0..Len(releases') /\ newest \in 0..Len(releases')
      BY <3>1
    <3>4. QED
      BY <2>1, <3>1, <3>2, <3>3
  <2>5. QED
    BY <2>2, <2>3, <2>4
<1>4. CASE Replace
  BY <1>4 DEF Replace
<1>5. ASSUME NEW c \in Clients, NEW kind \in Kinds, NEW filter \in Filters, Ask(c, kind, filter)
      PROVE  TypeOK'
  <2>1. Begin(kind, filter) \in Requests
    <3>1. filter \in SUBSET Rows /\ newest \in Nat
      OBVIOUS
    <3>2. QED
      BY <3>1 DEF Begin, Idle, Requests, Phases, Kinds
  <2>2. QED
    BY <1>5, <2>1 DEF Ask
<1>6. ASSUME NEW c \in Clients, Acquire(c)
      PROVE  TypeOK'
  <2>1. slots' \in 0..capacity
    BY <1>6 DEF Acquire
  <2>2. request' \in [Clients -> Requests]
    BY <1>6, PhaseType, PhaseNames DEF Acquire
  <2>3. QED
    BY <1>6, <2>1, <2>2 DEF Acquire
<1>7. ASSUME NEW c \in Clients, Busy(c)
      PROVE  TypeOK'
  BY <1>7, RefuseType DEF Busy
<1>8. ASSUME NEW c \in Clients, Connect(c)
      PROVE  TypeOK'
  <2>1. instance' \in 0..Len(releases)
    BY <1>8 DEF Connect
  <2>2. request' \in [Clients -> Requests]
    BY <1>8, PhaseType, PhaseNames DEF Connect
  <2>3. QED
    BY <1>8, <2>1, <2>2 DEF Connect
<1>9. ASSUME NEW c \in Clients, HoldsSlot(c)
      PROVE  slots + 1 \in 0..capacity
  <2>1. c \in {d \in Clients : HoldsSlot(d)}
    BY <1>9
  <2>2. /\ IsFiniteSet({d \in Clients : HoldsSlot(d)})
        /\ Cardinality({d \in Clients : HoldsSlot(d)}) \in Nat
    BY FS_Subset, FS_CardinalityType
  <2>3. Cardinality({d \in Clients : HoldsSlot(d)}) # 0
    BY <2>1, <2>2, FS_EmptySet
  <2>4. QED
    BY <2>2, <2>3 DEF SlotInv
<1>10. ASSUME NEW c \in Clients, Unavailable(c)
       PROVE  TypeOK'
  BY <1>9, <1>10, RefuseType DEF Unavailable, HoldsSlot
<1>11. ASSUME NEW c \in Clients, Close(c), HoldsSlot(c)
       PROVE  slots' \in 0..capacity /\ instance' \in 0..Len(releases)
  BY <1>9, <1>11 DEF Close
<1>12. ASSUME NEW c \in Clients, QueryFails(c)
       PROVE  TypeOK'
  BY <1>11, <1>12, RefuseType DEF QueryFails, HoldsSlot
<1>13. ASSUME NEW c \in Clients, Reads(c), request' \in [Clients -> Requests]
       PROVE  TypeOK'
  BY <1>11, <1>13 DEF Reads, HoldsSlot
<1>14. ASSUME NEW c \in Clients, Reads(c)
       PROVE  instance \in 1..Len(releases) /\ Matching(c) \in SUBSET Rows
  BY <1>14 DEF Reads, Matching, InstanceInv, IsOpen, Requests
<1>15. ASSUME NEW c \in Clients, CountRows(c)
       PROVE  TypeOK'
  <2>1. Reads(c) /\ Cardinality(Matching(c)) \in Nat /\ instance \in Nat
    BY <1>14, <1>15, RowsAreFinite DEF CountRows
  <2>2. request' \in [Clients -> Requests]
    BY <1>15, <2>1, CountType, PhaseNames DEF CountRows
  <2>3. QED
    BY <1>13, <2>1, <2>2
<1>16. ASSUME NEW c \in Clients, ReadPage(c)
       PROVE  TypeOK'
  <2>1. Reads(c) /\ Matching(c) \in SUBSET Rows
    BY <1>14, <1>16 DEF ReadPage
  <2>2. PICK part \in Page(request[c].offset, Matching(c)) :
          LET r == [request[c] EXCEPT
                      !.rows = @ \cup part,
                      !.first = IF request[c].offset = 0 THEN Matching(c) ELSE @,
                      !.read = instance]
          IN request' = [request EXCEPT ![c] =
               IF HasNext(r)
               THEN [r EXCEPT !.phase = "waiting", !.offset = @ + Limit, !.counted = 0, !.total = 0]
               ELSE [r EXCEPT !.phase = "answered"]]
    BY <1>16 DEF ReadPage
  <2>3. part \in SUBSET Rows
    BY <2>1 DEF Page
  <2> DEFINE r == [request[c] EXCEPT
                     !.rows = @ \cup part,
                     !.first = IF request[c].offset = 0 THEN Matching(c) ELSE @,
                     !.read = instance]
  <2>9. request[c] \in Requests
    OBVIOUS
  <2>10. /\ request[c].rows \cup part \in SUBSET Rows
         /\ (IF request[c].offset = 0 THEN Matching(c) ELSE request[c].first) \in SUBSET Rows
         /\ instance \in Nat
    BY <2>9, <2>1, <2>3, <1>14 DEF Requests
  <2>4. r \in Requests
    BY <2>9, <2>10, PageType
  <2>6. [r EXCEPT !.phase = "answered"] \in Requests
    BY <2>4, PhaseType, PhaseNames
  <2>7. [r EXCEPT !.phase = "waiting", !.offset = @ + Limit, !.counted = 0, !.total = 0] \in Requests
    <3> HIDE DEF r
    <3>1. r.offset + Limit \in Nat
      BY <2>4, LimitType DEF Requests
    <3>2. QED
      BY <2>4, <3>1, OffsetType, PhaseNames
  <2>8. request' \in [Clients -> Requests]
    <3> HIDE DEF r
    <3>1. QED
      BY <2>2, <2>6, <2>7 DEF r
  <2>5. QED
    BY <1>13, <2>1, <2>8
<1>17. ASSUME NEW c \in Clients, Export(c)
       PROVE  TypeOK'
  <2>1. Reads(c) /\ Matching(c) \in SUBSET Rows
    BY <1>14, <1>17 DEF Export
  <2>2. PICK part \in First(QueryLimit, Matching(c)) :
          request' = [request EXCEPT ![c] =
            IF Cardinality(part) > ExportMax THEN Idle
            ELSE [@ EXCEPT !.phase = "answered", !.rows = part]]
    BY <1>17 DEF Export
  <2>3. part \in SUBSET Rows
    BY <2>1 DEF First
  <2>4. request' \in [Clients -> Requests]
    BY <2>2, <2>3, RowsType, IdleType, PhaseNames
  <2>5. QED
    BY <1>13, <2>1, <2>4
<1>20. ASSUME NEW c \in Clients, Look(c)
       PROVE  TypeOK'
  <2>1. Reads(c) /\ instance \in Nat
    BY <1>14, <1>20 DEF Look
  <2>2. request' \in [Clients -> Requests]
    BY <1>20, Looked
  <2>3. QED
    BY <1>13, <2>1, <2>2
<1>18. ASSUME NEW c \in Clients, Finish(c)
       PROVE  TypeOK'
  BY <1>18, IdleType DEF Finish
<1>19. QED
  BY <1>1, <1>2, <1>3, <1>4, <1>5, <1>6, <1>7, <1>8, <1>10, <1>12, <1>15, <1>16, <1>17, <1>18,
     <1>20, SplitNext DEF Outside, Serve

(***************************************************************************)
(* Releases.                                                               *)
(***************************************************************************)
\* Clients write nothing.
LEMMA ClientsOnlyRead ==
    ASSUME NEW c \in Clients,
           Serve(c) \/ \E kind \in Kinds, filter \in Filters : Ask(c, kind, filter)
    PROVE  UNCHANGED <<configuration, batch, publisher, releases>>
BY DEF Serve, Ask, Acquire, Busy, Connect, Unavailable, QueryFails, CountRows, ReadPage, Export,
       Look, Reads, Finish

\* A release that has all rows of those before it keeps their order.
LEMMA AppendRelease ==
    ASSUME releases \in Seq(SUBSET Rows), ReleaseInv, NEW new \in SUBSET Rows,
           \A i \in 1..Len(releases) : releases[i] \subseteq new,
           releases' = Append(releases, new)
    PROVE  /\ \A i, j \in 1..Len(releases') : i <= j => releases'[i] \subseteq releases'[j]
           /\ \A i \in 1..Len(releases') : releases'[i] \subseteq new
<1>1. /\ Len(releases') = Len(releases) + 1 /\ releases'[Len(releases) + 1] = new
      /\ \A i \in 1..Len(releases) : releases'[i] = releases[i]
      /\ Len(releases) \in Nat
  OBVIOUS
<1>2. \A i \in 1..Len(releases') : i = Len(releases) + 1 \/ i \in 1..Len(releases)
  BY <1>1
<1>3. \A i \in 1..Len(releases') : releases'[i] \subseteq new
  BY <1>1, <1>2
<1>4. ASSUME NEW i \in 1..Len(releases'), NEW j \in 1..Len(releases'), i <= j
      PROVE  releases'[i] \subseteq releases'[j]
  <2>1. CASE j = Len(releases) + 1
    BY <1>1, <1>3, <2>1
  <2>2. CASE j \in 1..Len(releases)
    <3>1. i \in 1..Len(releases)
      BY <1>4, <2>2
    <3>2. QED
      BY <1>1, <1>4, <2>2, <3>1 DEF ReleaseInv
  <2>3. QED
    BY <1>2, <2>1, <2>2
<1>5. QED
  BY <1>3, <1>4

LEMMA ReleaseStep == ASSUME IInv, [Next]_vars PROVE ReleaseInv'
<1> USE DEF IInv, configuration, batch, publisher, api
<1>1. CASE UNCHANGED <<configuration, batch, publisher, releases>>
  BY <1>1 DEF ReleaseInv
<1>2. CASE OpenLive \/ BeginCopy \/ EndCopy \/ StopCopy
  BY <1>2 DEF OpenLive, BeginCopy, EndCopy, StopCopy, ReleaseInv
<1>3. ASSUME NEW run \in Runs, Commit(run)
      PROVE  ReleaseInv'
  <2>1. /\ live \subseteq live' /\ live' \in SUBSET Rows
        /\ UNCHANGED <<configuration, publisher>>
    BY <1>3, ExportAssumption DEF Commit, TypeOK
  <2>2. CASE releases' = releases
    BY <2>1, <2>2 DEF ReleaseInv
  <2>3. CASE target = "live" /\ releases' = Append(releases, live')
    <3>1. /\ \A i, j \in 1..Len(releases') : i <= j => releases'[i] \subseteq releases'[j]
          /\ \A i \in 1..Len(releases') : releases'[i] \subseteq live'
      <4>1. \A i \in 1..Len(releases) : releases[i] \subseteq live'
        BY <2>1 DEF ReleaseInv
      <4>2. releases \in Seq(SUBSET Rows)
        BY DEF TypeOK
      <4>3. QED
        BY <2>1, <2>3, <4>1, <4>2, AppendRelease
    <3>2. copying = "no"
      BY <2>3 DEF ReleaseInv, TypeOK
    <3>3. QED
      BY <2>1, <3>1, <3>2 DEF ReleaseInv
  <2>4. QED
    BY <1>3, <2>2, <2>3 DEF Commit
<1>4. CASE Replace
  <2>1. releases \in Seq(SUBSET Rows) /\ copied \in SUBSET Rows
    BY DEF TypeOK
  <2>2. \A i \in 1..Len(releases) : releases[i] \subseteq copied
    BY <1>4 DEF Replace, ReleaseInv
  <2>3. releases' = Append(releases, copied)
    BY <1>4 DEF Replace
  <2>4. /\ \A i, j \in 1..Len(releases') : i <= j => releases'[i] \subseteq releases'[j]
        /\ \A i \in 1..Len(releases') : releases'[i] \subseteq copied
    BY <2>1, <2>2, <2>3, AppendRelease
  <2>5. copying' = "no" /\ copied' = {} /\ live' = live /\ copied \subseteq live
    BY <1>4 DEF Replace, ReleaseInv
  <2>6. QED
    BY <2>4, <2>5 DEF ReleaseInv
<1>5. QED
  BY <1>1, <1>2, <1>3, <1>4, SplitNext, ClientsOnlyRead DEF Outside, vars

(***************************************************************************)
(* Slots and connections.                                                  *)
(***************************************************************************)
\* What a client does to the slots and to the open file.
ClientStep(c) ==
    \/ /\ HoldsSlot(c)' = HoldsSlot(c) /\ IsOpen(c)' = IsOpen(c)
       /\ UNCHANGED <<instance, slots, newest>>
    \/ /\ ~HoldsSlot(c) /\ HoldsSlot(c)' /\ ~IsOpen(c)'
       /\ slots' = slots - 1 /\ UNCHANGED <<instance, newest>>
    \/ /\ HoldsSlot(c) /\ HoldsSlot(c)' /\ IsOpen(c)' /\ releases # <<>>
       /\ instance' = IF instance = 0 THEN Len(releases) ELSE instance
       /\ UNCHANGED <<slots, newest>>
    \/ /\ HoldsSlot(c) /\ ~HoldsSlot(c)' /\ ~IsOpen(c) /\ ~IsOpen(c)'
       /\ slots' = slots + 1 /\ UNCHANGED <<instance, newest>>
    \/ /\ HoldsSlot(c) /\ ~HoldsSlot(c)' /\ IsOpen(c) /\ ~IsOpen(c)'
       /\ Close(c) /\ newest' \in {newest, instance}

LEMMA ClientSteps ==
    ASSUME IInv, NEW c \in Clients,
           Serve(c) \/ \E kind \in Kinds, filter \in Filters : Ask(c, kind, filter)
    PROVE  /\ \A d \in Clients \ {c} : request'[d] = request[d]
           /\ ClientStep(c)
<1> USE DEF IInv, TypeOK, ClientStep, HoldsSlot, IsOpen
<1>1. CASE \E kind \in Kinds, filter \in Filters : Ask(c, kind, filter)
  <2>1. PICK kind \in Kinds, filter \in Filters : Ask(c, kind, filter)
    BY <1>1
  <2>2. /\ request[c].phase = "idle" /\ UNCHANGED <<instance, slots, newest>>
        /\ request' = [request EXCEPT ![c] = Begin(kind, filter)]
    BY <2>1 DEF Ask
  <2>3. Begin(kind, filter).phase = "waiting"
    BY DEF Begin, Idle
  <2>4. QED
    BY <2>2, <2>3
<1>2. CASE Acquire(c)
  BY <1>2 DEF Acquire, Requests
<1>9. CASE Connect(c)
  BY <1>9 DEF Connect, Readable, Requests
<1>10. ASSUME Refuse(c)
       PROVE  /\ request'[c].phase \in {"idle", "waiting"}
              /\ \A d \in Clients \ {c} : request'[d] = request[d]
  <2>1. request[c] \in Requests
    OBVIOUS
  <2>2. [request[c] EXCEPT !.phase = "waiting", !.counted = 0, !.total = 0].phase = "waiting"
    BY <2>1 DEF Requests
  <2>3. Idle.phase = "idle"
    BY DEF Idle
  <2>4. CASE request' = [request EXCEPT ![c] = Idle]
    BY <2>3, <2>4
  <2>5. CASE request' = [request EXCEPT ![c] =
                           [@ EXCEPT !.phase = "waiting", !.counted = 0, !.total = 0]]
    BY <2>2, <2>5
  <2>6. QED
    BY <1>10, <2>4, <2>5 DEF Refuse
<1>3. CASE Busy(c) \/ Unavailable(c) \/ QueryFails(c)
  BY <1>3, <1>10 DEF Busy, Unavailable, QueryFails
<1>4. CASE CountRows(c)
  BY <1>4 DEF CountRows, Reads, Requests
<1>5. CASE ReadPage(c)
  BY <1>5 DEF ReadPage, Reads, Requests
<1>6. CASE Export(c)
  BY <1>6 DEF Export, Reads, Idle, Requests
<1>7. CASE Finish(c)
  BY <1>7 DEF Finish, Idle
<1>11. CASE Look(c)
  BY <1>11, Looked DEF Look, Reads
<1>8. QED
  BY <1>1, <1>2, <1>3, <1>4, <1>5, <1>6, <1>7, <1>9, <1>11 DEF Serve

LEMMA InstanceStep == ASSUME IInv, [Next]_vars PROVE InstanceInv'
<1>1. CASE UNCHANGED api
  BY <1>1 DEF IInv, InstanceInv, IsOpen, api
<1>2. CASE Outside
  BY <1>1, <1>2 DEF Outside, OpenLive, Commit, BeginCopy, EndCopy, Replace, StopCopy
<1>3. ASSUME NEW c \in Clients,
             \A d \in Clients \ {c} : request'[d] = request[d], ClientStep(c), UNCHANGED releases
      PROVE  InstanceInv'
  <2>1. \A d \in Clients \ {c} : IsOpen(d)' = IsOpen(d)
    BY <1>3 DEF IsOpen
  <2>2. IsOpen(c) => HoldsSlot(c)
    BY DEF IsOpen, HoldsSlot
  <2>3. Len(releases) \in Nat /\ (releases # <<>> => Len(releases) # 0)
        /\ instance \in 0..Len(releases) /\ newest \in 0..Len(releases)
    BY DEF IInv, TypeOK
  <2>4. QED
    BY <1>3, <2>1, <2>2, <2>3 DEF IInv, InstanceInv, ClientStep, Close
<1>4. QED
  BY <1>1, <1>2, <1>3, SplitNext, ClientSteps, ClientsOnlyRead DEF vars, api

LEMMA SlotStep == ASSUME IInv, [Next]_vars PROVE SlotInv'
<1> DEFINE H == {d \in Clients : HoldsSlot(d)}
<1>1. CASE UNCHANGED <<capacity, slots, request>>
  BY <1>1 DEF IInv, SlotInv, HoldsSlot
<1>2. CASE Outside
  BY <1>1, <1>2 DEF Outside, OpenLive, Commit, BeginCopy, EndCopy, Replace, StopCopy, api,
     configuration
<1>3. ASSUME NEW c \in Clients,
             \A d \in Clients \ {c} : request'[d] = request[d], ClientStep(c),
             UNCHANGED configuration
      PROVE  SlotInv'
  <2>1. \A d \in Clients \ {c} : HoldsSlot(d)' = HoldsSlot(d)
    BY <1>3 DEF HoldsSlot
  <2>2. IsFiniteSet(H) /\ Cardinality(H) \in Nat
    BY ExportAssumption, FS_Subset, FS_CardinalityType
  <2>3. slots \in Nat /\ capacity \in Nat
    BY ExportAssumption DEF IInv, TypeOK
  <2>4. slots + Cardinality(H) = capacity
    BY DEF IInv, SlotInv
  <2>5. CASE HoldsSlot(c)' = HoldsSlot(c) /\ slots' = slots
    <3>1. H' = H
      BY <2>1, <2>5
    <3>2. QED
      BY <1>3, <2>4, <2>5, <3>1 DEF SlotInv, configuration
  <2>6. CASE ~HoldsSlot(c) /\ HoldsSlot(c)' /\ slots' = slots - 1
    <3>1. H' = H \cup {c} /\ c \notin H
      BY <2>1, <2>6
    <3>2. Cardinality(H') = Cardinality(H) + 1
      BY <2>2, <3>1, FS_AddElement
    <3>3. QED
      BY <1>3, <2>2, <2>3, <2>4, <2>6, <3>2 DEF SlotInv, configuration
  <2>7. CASE HoldsSlot(c) /\ ~HoldsSlot(c)' /\ slots' = slots + 1
    <3>1. H' = H \ {c} /\ c \in H
      BY <2>1, <2>7
    <3>2. Cardinality(H') = Cardinality(H) - 1
      BY <2>2, <3>1, FS_RemoveElement
    <3>3. QED
      BY <1>3, <2>2, <2>3, <2>4, <2>7, <3>2 DEF SlotInv, configuration
  <2>8. QED
    BY <1>3, <2>5, <2>6, <2>7 DEF ClientStep, Close
<1>4. QED
  BY <1>1, <1>2, <1>3, SplitNext, ClientSteps, ClientsOnlyRead DEF vars, api, configuration

(***************************************************************************)
(* Requests.                                                               *)
(***************************************************************************)
\* A release stays what it is, and what is read gets no older.
LEMMA OnlyForward ==
    ASSUME IInv, [Next]_vars
    PROVE  /\ Len(releases) \in Nat /\ Len(releases') \in Nat /\ Len(releases) <= Len(releases')
           /\ \A i \in 1..Len(releases) : releases'[i] = releases[i]
           /\ newest \in Nat /\ newest' \in Nat /\ newest <= newest'
<1>1. TypeOK /\ TypeOK'
  BY TypeStep DEF IInv
<1>2. newest \in Nat /\ newest' \in Nat
  BY <1>1 DEF TypeOK
<1>3. newest <= newest'
  <2>1. CASE UNCHANGED newest
    BY <1>2, <2>1
  <2>2. CASE Outside
    BY <2>1, <2>2 DEF Outside, OpenLive, Commit, BeginCopy, EndCopy, Replace, StopCopy, api
  <2>3. ASSUME NEW c \in Clients, ClientStep(c)
        PROVE  newest <= newest'
    BY <1>2, <2>3 DEF ClientStep, IInv, InstanceInv
  <2>4. QED
    BY <2>1, <2>2, <2>3, SplitNext, ClientSteps DEF vars, api
<1>4. releases' = releases \/ \E new \in SUBSET Rows : releases' = Append(releases, new)
  <2>1. CASE Outside
    <3>1. ASSUME NEW run \in Runs, Commit(run)
          PROVE  live' \in SUBSET Rows
      BY <3>1, <1>1 DEF Commit, TypeOK
    <3>2. QED
      BY <2>1, <3>1, <1>1 DEF Outside, OpenLive, Commit, BeginCopy, EndCopy, Replace, StopCopy, TypeOK
  <2>2. QED
    BY <2>1, SplitNext, ClientsOnlyRead DEF vars
<1>5. releases \in Seq(SUBSET Rows)
  BY <1>1 DEF TypeOK
<1>6. QED
  BY <1>2, <1>3, <1>4, <1>5

\* A query reads a release that is there.
LEMMA ReadsRelease ==
    ASSUME IInv, NEW c \in Clients, Reads(c)
    PROVE  /\ instance \in 1..Len(releases) /\ newest \in Nat /\ newest <= instance
           /\ newest' = instance /\ releases' = releases
           /\ releases[instance] \in SUBSET Rows /\ Matching(c) \in SUBSET Rows
BY DEF IInv, TypeOK, Reads, Matching, InstanceInv, IsOpen

LEMMA RequestStep == ASSUME IInv, [Next]_vars, NEW d \in Clients PROVE RequestInv(d)'
<1> USE DEF IInv
<1>1. /\ request[d] \in Requests /\ Len(releases) \in Nat /\ Len(releases') \in Nat
      /\ newest \in Nat /\ newest' \in Nat /\ newest <= newest'
  BY OnlyForward DEF TypeOK
<1>2. CASE request'[d] = request[d]
  <2>1. request[d].asked \in Nat /\ request[d].asked <= newest'
    BY <1>1 DEF RequestInv, Requests
  <2>2. ASSUME request[d].phase = "answered", request[d].kind = "export"
        PROVE  /\ Cardinality(request[d].rows) <= ExportMax
               /\ \E i \in 1..Len(releases') :
                    i >= request[d].asked /\ request[d].rows = releases'[i] \cap request[d].filter
    <3>1. PICK i \in 1..Len(releases) :
            i >= request[d].asked /\ request[d].rows = releases[i] \cap request[d].filter
      BY <2>2 DEF RequestInv, ExportInv
    <3>2. i \in 1..Len(releases') /\ releases'[i] = releases[i]
      BY <1>1, OnlyForward
    <3>3. QED
      BY <2>2, <3>1, <3>2 DEF RequestInv, ExportInv
  <2>3. QED
    BY <1>2, <2>1, <2>2 DEF RequestInv, ExportInv
<1>3. ASSUME request'[d].asked \in {0, newest, request[d].asked},
             request'[d].phase # "answered" \/ request'[d].kind = "list"
      PROVE  RequestInv(d)'
  BY <1>1, <1>3 DEF RequestInv, ExportInv, Requests
<1>4. ASSUME Refuse(d)
      PROVE  RequestInv(d)'
  <2>1. CASE request' = [request EXCEPT ![d] = Idle]
    BY <1>3, <2>1 DEF Idle, TypeOK
  <2>2. CASE request' = [request EXCEPT ![d] =
                           [@ EXCEPT !.phase = "waiting", !.counted = 0, !.total = 0]]
    BY <1>1, <1>3, <2>2 DEF TypeOK, Requests
  <2>3. QED
    BY <1>4, <2>1, <2>2 DEF Refuse
<1>5. ASSUME NEW kind \in Kinds, NEW filter \in Filters, Ask(d, kind, filter)
      PROVE  RequestInv(d)'
  BY <1>3, <1>5 DEF Ask, Begin, Idle, TypeOK
<1>6. CASE Acquire(d) \/ Connect(d)
  BY <1>1, <1>3, <1>6 DEF Acquire, Connect, TypeOK, Requests
<1>7. CASE Busy(d) \/ Unavailable(d) \/ QueryFails(d)
  BY <1>4, <1>7 DEF Busy, Unavailable, QueryFails
<1>8. CASE CountRows(d)
  BY <1>1, <1>3, <1>8 DEF CountRows, TypeOK, Requests
<1>9. CASE ReadPage(d)
  <2>1. PICK part \in Page(request[d].offset, Matching(d)) :
          LET r == [request[d] EXCEPT
                      !.rows = @ \cup part,
                      !.first = IF request[d].offset = 0 THEN Matching(d) ELSE @,
                      !.read = instance]
          IN request' = [request EXCEPT ![d] =
               IF HasNext(r)
               THEN [r EXCEPT !.phase = "waiting", !.offset = @ + Limit, !.counted = 0, !.total = 0]
               ELSE [r EXCEPT !.phase = "answered"]]
    BY <1>9 DEF ReadPage
  <2>2. request'[d].asked = request[d].asked /\ request'[d].kind = request[d].kind
    BY <1>1, <2>1 DEF TypeOK, Requests
  <2>3. QED
    BY <1>3, <1>9, <2>2 DEF ReadPage
<1>10. CASE Export(d)
  <2>1. PICK part \in First(QueryLimit, Matching(d)) :
          request' = [request EXCEPT ![d] =
            IF Cardinality(part) > ExportMax THEN Idle
            ELSE [@ EXCEPT !.phase = "answered", !.rows = part]]
    BY <1>10 DEF Export
  <2>2. Reads(d) /\ QueryLimit \in Nat /\ ExportMax < QueryLimit /\ ExportMax \in Nat
    BY <1>10, LimitType DEF Export, QueryLimit
  <2>3. Cardinality(part) \in Nat /\ (Cardinality(part) < QueryLimit => part = Matching(d))
    BY <2>1, <2>2, ReadsRelease, FirstIsShort
  <2>4. CASE Cardinality(part) > ExportMax
    BY <1>3, <2>1, <2>4 DEF Idle, TypeOK
  <2>5. CASE ~(Cardinality(part) > ExportMax)
    <3>1. /\ request'[d].rows = part /\ request'[d].asked = request[d].asked
          /\ request'[d].filter = request[d].filter
      BY <1>1, <2>1, <2>5 DEF TypeOK, Requests
    <3>2. part = releases[instance] \cap request[d].filter /\ Cardinality(part) <= ExportMax
      BY <2>2, <2>3, <2>5 DEF Matching
    <3>3. /\ instance \in 1..Len(releases) /\ releases' = releases
          /\ request[d].asked <= instance /\ newest' = instance /\ request[d].asked \in Nat
      BY <1>1, <2>2, ReadsRelease DEF RequestInv, Requests
    <3>4. QED
      BY <3>1, <3>2, <3>3 DEF RequestInv, ExportInv
  <2>6. QED
    BY <2>4, <2>5
<1>14. CASE Look(d)
  BY <1>1, <1>14, Looked DEF RequestInv, ExportInv, Requests
<1>11. CASE Finish(d)
  BY <1>3, <1>11 DEF Finish, Idle, TypeOK
<1>12. CASE Outside
  BY <1>2, <1>12 DEF Outside, OpenLive, Commit, BeginCopy, EndCopy, Replace, StopCopy, api
<1>13. QED
  BY <1>2, <1>5, <1>6, <1>7, <1>8, <1>9, <1>10, <1>11, <1>12, <1>14, SplitNext, ClientSteps
     DEF Serve, vars, api

(***************************************************************************)
(* Theorems.                                                               *)
(***************************************************************************)
LEMMA InitInv == Init => IInv
<1> SUFFICES ASSUME Init
             PROVE  IInv
  OBVIOUS
<1> USE ExportAssumption DEF Init
<1>1. TypeOK
  <2>1. capacity \in 1..MaxSlots /\ slots \in 0..capacity /\ capacity \in Nat
    BY LimitType
  <2>2. Len(releases) = 0 /\ releases \in Seq(SUBSET Rows) /\ instance \in 0..0 /\ newest \in 0..0
    OBVIOUS
  <2>3. request \in [Clients -> Requests]
    BY IdleType
  <2>4. QED
    BY <2>1, <2>2, <2>3 DEF TypeOK
<1>2. ReleaseInv
  BY DEF ReleaseInv
<1>3. \A c \in Clients : ~HoldsSlot(c) /\ ~IsOpen(c)
  BY DEF HoldsSlot, IsOpen, Idle
<1>4. {c \in Clients : HoldsSlot(c)} = {}
  BY <1>3
<1>5. InstanceInv /\ SlotInv
  <2>1. Cardinality({c \in Clients : HoldsSlot(c)}) = 0
    BY <1>4, FS_EmptySet
  <2>2. capacity \in Nat
    BY LimitType
  <2>3. QED
    BY <1>3, <2>1, <2>2 DEF InstanceInv, SlotInv
<1>6. \A c \in Clients : RequestInv(c)
  BY DEF RequestInv, ExportInv, Idle
<1>7. QED
  BY <1>1, <1>2, <1>5, <1>6 DEF IInv

LEMMA InductiveInvariant == Spec => []IInv
<1>1. IInv /\ [Next]_vars => IInv'
  <2> SUFFICES ASSUME IInv, [Next]_vars
               PROVE  IInv'
    OBVIOUS
  <2>1. \A c \in Clients : RequestInv(c)'
    BY RequestStep
  <2>2. QED
    BY <2>1, TypeStep, ReleaseStep, InstanceStep, SlotStep DEF IInv
<1>2. QED
  BY <1>1, InitInv, PTL DEF Spec

\* Every variable of the export API, its batch and its publisher keeps its type.
THEOREM TypeCorrect == Spec => []TypeOK
<1>1. IInv => TypeOK
  BY DEF IInv
<1>2. QED
  BY <1>1, InductiveInvariant, PTL

\* No refusal, failing connection or failing query loses a slot or keeps the file open.
THEOREM SlotsComeBack == Spec => []OnlyRequestsHold
<1>1. IInv => OnlyRequestsHold
  BY DEF IInv, InstanceInv, SlotInv, OnlyRequestsHold
<1>2. QED
  BY <1>1, InductiveInvariant, PTL

\* Whatever is committed or published meanwhile, a download is one whole release.
THEOREM DownloadsAreWhole == Spec => []ExportIsWhole
<1>1. IInv => ExportIsWhole
  BY DEF IInv, RequestInv, ExportInv, ExportIsWhole
<1>2. QED
  BY <1>1, InductiveInvariant, PTL

\* Behind the API is a sequence of whole releases that only grow, read in their order.
THEOREM ApiImplementsView == Spec => ImplementsReleasedView
<1>1. Init => View!Init
  BY DEF Init, View!Init
<1>2. ASSUME IInv, [Next]_vars
      PROVE  [View!Next]_(View!vars)
  <2> USE DEF IInv, View!vars
  <2>1. CASE UNCHANGED <<releases, newest>>
    BY <2>1
  <2>2. CASE OpenLive \/ BeginCopy \/ EndCopy \/ StopCopy
    BY <2>1, <2>2 DEF OpenLive, BeginCopy, EndCopy, StopCopy, api
  <2>3. ASSUME NEW run \in Runs, Commit(run)
        PROVE  [View!Next]_(View!vars)
    <3>1. live' \in SUBSET Rows /\ live \subseteq live' /\ UNCHANGED newest
      <4>1. live' = live \cup run /\ UNCHANGED newest
        BY <2>3 DEF Commit, api
      <4>2. live \in SUBSET Rows /\ run \in SUBSET Rows
        BY <1>2, ExportAssumption DEF TypeOK
      <4>3. QED
        BY <4>1, <4>2
    <3>2. CASE releases' = Append(releases, live')
      <4>1. \A i \in 1..Len(releases) : releases[i] \subseteq live'
        BY <1>2, <3>1 DEF ReleaseInv
      <4>3. View!Release(live')
        BY <3>1, <3>2, <4>1 DEF View!Release
      <4>2. QED
        BY <3>1, <4>3 DEF View!Next
    <3>3. QED
      BY <2>1, <2>3, <3>1, <3>2 DEF Commit
  <2>4. CASE Replace
    <3>1. copied \in SUBSET Rows /\ \A i \in 1..Len(releases) : releases[i] \subseteq copied
      BY <1>2, <2>4 DEF Replace, ReleaseInv, TypeOK
    <3>2. releases' = Append(releases, copied) /\ UNCHANGED newest
      BY <2>4 DEF Replace, api
    <3>3. View!Release(copied)
      BY <3>1, <3>2 DEF View!Release
    <3>4. QED
      BY <3>1, <3>3 DEF View!Next
  <2>5. ASSUME NEW c \in Clients, ClientStep(c), UNCHANGED releases
        PROVE  [View!Next]_(View!vars)
    <3>1. CASE IsOpen(c) /\ newest' = instance
      <4>1. instance \in 1..Len(releases) /\ newest <= instance
        <5>1. instance \in 0..Len(releases) /\ Len(releases) \in Nat
          BY <1>2 DEF TypeOK
        <5>2. instance # 0 /\ newest <= instance
          BY <1>2, <3>1 DEF InstanceInv
        <5>3. QED
          BY <5>1, <5>2
      <4>2. View!Read(instance)
        BY <2>5, <3>1, <4>1 DEF View!Read
      <4>3. QED
        BY <4>1, <4>2 DEF View!Next
    <3>2. QED
      BY <2>1, <2>5, <3>1 DEF ClientStep
  <2>6. QED
    BY <1>2, <2>1, <2>2, <2>3, <2>4, <2>5, SplitNext, ClientSteps, ClientsOnlyRead
       DEF Outside, vars, api
<1>3. QED
  BY <1>1, <1>2, InductiveInvariant, PTL DEF Spec, ImplementsReleasedView, View!Spec

(***************************************************************************)
(* Walks.                                                                  *)
(***************************************************************************)
\* The client has, of the rows that matched at its first page, those without ties that have
\* fewer than offset rows in front of them in what it read last.
Reached(w) ==
    \E i \in 1..newest :
        LET seen == releases[i] \cap w.filter IN
        /\ w.first \subseteq seen
        /\ \A r \in w.first :
              Cardinality(Above(r, seen)) < w.offset => r \in w.rows \/ Tied(r, seen)

CountInv(w) ==
    w.counted # 0 => /\ w.counted \in 1..Len(releases)
                     /\ w.total = Cardinality(releases[w.counted] \cap w.filter)

\* A row that an ended walk has missed is tied, or came too late to be counted, or one in
\* front of it did.
Excused(r, w) ==
    LET counted == releases[w.counted] \cap w.filter
        read == releases[w.read] \cap w.filter
    IN Tied(r, read) \/ \E q \in read \ counted : Key[q] >= Key[r]

EndInv(w) ==
    /\ w.counted \in 1..Len(releases) /\ w.read \in 1..Len(releases)
    /\ \A r \in w.first \ w.rows : Excused(r, w)

WalkInv(w) ==
    w.kind = "list" =>
        /\ CountInv(w)
        /\ w.phase # "answered" /\ w.offset # 0 => Reached(w)
        /\ w.phase = "answered" => EndInv(w)

\* What holds of a request that does not change goes on to hold.
LEMMA WalkKept ==
    ASSUME IInv, [Next]_vars, NEW r \in Requests, WalkInv(r)
    PROVE  WalkInv(r)'
<1>1. 1..Len(releases) \subseteq 1..Len(releases') /\ 1..newest \subseteq 1..newest'
  BY OnlyForward
<1>2. 1..newest \subseteq 1..Len(releases)
  BY DEF IInv, TypeOK
<1>3. CountInv(r) => CountInv(r)'
  BY <1>1, OnlyForward DEF CountInv
<1>4. Reached(r) => Reached(r)'
  <2> SUFFICES ASSUME Reached(r)
               PROVE  Reached(r)'
    OBVIOUS
  <2>1. PICK i \in 1..newest :
          LET seen == releases[i] \cap r.filter IN
          /\ r.first \subseteq seen
          /\ \A q \in r.first :
                Cardinality(Above(q, seen)) < r.offset => q \in r.rows \/ Tied(q, seen)
    BY DEF Reached
  <2>2. i \in 1..newest' /\ releases'[i] = releases[i]
    BY <1>1, <1>2, OnlyForward
  <2>3. QED
    BY <2>1, <2>2 DEF Reached
<1>5. EndInv(r) => EndInv(r)'
  BY <1>1, OnlyForward DEF EndInv, Excused
<1>6. QED
  BY <1>3, <1>4, <1>5 DEF WalkInv

\* What matched at the first page, when a page is read.
FirstRows(c) == IF request[c].offset = 0 THEN Matching(c) ELSE request[c].first

\* A page takes the walk from one multiple of Limit to the next, also when rows were added.
LEMMA PageStep ==
    ASSUME IInv, NEW c \in Clients, WalkInv(request[c]),
           request[c].kind = "list", request[c].phase = "querying", Reads(c),
           NEW part \in Page(request[c].offset, Matching(c))
    PROVE  /\ FirstRows(c) \subseteq Matching(c)
           /\ \A q \in FirstRows(c) :
                Cardinality(Above(q, Matching(c))) < request[c].offset + Limit =>
                    q \in request[c].rows \cup part \/ Tied(q, Matching(c))
<1> DEFINE w == request[c]
           first == FirstRows(c)
           M == Matching(c)
<1>1. w \in Requests /\ w.offset \in Nat /\ w.filter \in SUBSET Rows
  BY DEF IInv, TypeOK, Requests
<1>2. M \in SUBSET Rows /\ M = releases[instance] \cap w.filter /\ instance \in 1..Len(releases)
      /\ newest \in Nat /\ newest <= instance
  BY ReadsRelease DEF Matching
<1>3. /\ first \subseteq M
      /\ \A q \in first : Cardinality(Above(q, M)) < w.offset => q \in w.rows \/ Tied(q, M)
  <2>1. CASE w.offset = 0
    <3>1. first = M
      BY <2>1 DEF FirstRows
    <3>2. \A q \in first : Cardinality(Above(q, M)) \in Nat
      BY <1>2, <3>1, AboveGrows
    <3>3. QED
      BY <2>1, <3>1, <3>2
  <2>2. CASE w.offset # 0
    <3>1. Reached(w) /\ first = w.first
      BY <2>2 DEF WalkInv, FirstRows
    <3>2. PICK i \in 1..newest :
            LET seen == releases[i] \cap w.filter IN
            /\ w.first \subseteq seen
            /\ \A q \in w.first :
                  Cardinality(Above(q, seen)) < w.offset => q \in w.rows \/ Tied(q, seen)
      BY <3>1 DEF Reached
    <3> DEFINE seen == releases[i] \cap w.filter
    <3>3. i \in 1..Len(releases) /\ i <= instance
      BY <1>2
    <3>4. releases[i] \subseteq releases[instance]
      BY <1>2, <3>3 DEF IInv, ReleaseInv
    <3>5. seen \in SUBSET Rows /\ seen \subseteq M
      BY <1>1, <1>2, <3>4
    <3>6. ASSUME NEW q \in first, Cardinality(Above(q, M)) < w.offset
          PROVE  q \in w.rows \/ Tied(q, M)
      <4>1. q \in Rows /\ q \in w.first
        BY <3>1, <3>2, <3>5
      <4>2. Cardinality(Above(q, seen)) < w.offset
        <5> HIDE DEF seen, M, w
        <5>1. QED
          BY <1>1, <1>2, <3>5, <3>6, <4>1, AboveGrows
      <4>3. Tied(q, seen) => Tied(q, M)
        BY <3>5 DEF Tied
      <4>4. QED
        BY <3>2, <4>1, <4>2, <4>3
    <3>7. QED
      BY <3>1, <3>2, <3>5, <3>6
  <2>3. QED
    BY <2>1, <2>2
<1>4. ASSUME NEW q \in first, Cardinality(Above(q, M)) < w.offset + Limit, ~Tied(q, M)
      PROVE  q \in w.rows \cup part
  <2>1. q \in part \/ Cardinality(Above(q, M)) < w.offset
    BY <1>1, <1>2, <1>3, <1>4, PageHas
  <2>2. QED
    BY <1>3, <1>4, <2>1
<1>5. QED
  BY <1>3, <1>4

\* A walk is where it was if its place and its rows are.
LEMMA WalkSame ==
    ASSUME NEW r \in Requests, NEW s \in Requests, WalkInv(r), r.phase # "answered",
           s.phase # "answered", s.kind = r.kind, s.offset = r.offset, s.filter = r.filter,
           s.first = r.first, s.rows = r.rows, s.kind = "list" => CountInv(s)
    PROVE  WalkInv(s)
BY DEF WalkInv, Reached

LEMMA WalkMoves ==
    ASSUME IInv, [Next]_vars, NEW d \in Clients, NEW s \in Requests, WalkInv(s), request'[d] = s
    PROVE  WalkInv(request[d])'
<1>1. WalkInv(s)'
  BY WalkKept
<1>2. QED
  BY <1>1 DEF WalkInv, CountInv, Reached, EndInv, Excused

LEMMA WalkStep ==
    ASSUME IInv, [Next]_vars, NEW d \in Clients, WalkInv(request[d])
    PROVE  WalkInv(request[d])'
<1> DEFINE r == request[d]
<1>1. r \in Requests /\ request'[d] \in Requests /\ request \in [Clients -> Requests]
  BY TypeStep DEF IInv, TypeOK
<1>2. CASE request'[d] = request[d]
  BY <1>1, <1>2, WalkMoves
<1>3. CASE request'[d] = Idle
  <2>1. WalkInv(Idle)
    BY DEF WalkInv, CountInv, Idle
  <2>2. QED
    BY <1>3, <2>1, IdleType, WalkMoves
<1>4. ASSUME NEW kind \in Kinds, NEW filter \in Filters, Ask(d, kind, filter)
      PROVE  WalkInv(request[d])'
  <2>1. request'[d] = Begin(kind, filter)
    BY <1>1, <1>4 DEF Ask
  <2>2. WalkInv(Begin(kind, filter))
    BY DEF WalkInv, CountInv, Begin, Idle
  <2>3. QED
    BY <1>1, <2>1, <2>2, WalkMoves
<1>5. ASSUME NEW p \in Phases, p # "answered", r.phase # "answered",
             request'[d] = [r EXCEPT !.phase = p]
      PROVE  WalkInv(request[d])'
  <2> DEFINE s == [r EXCEPT !.phase = p]
  <2>1. /\ s.phase = p /\ s.kind = r.kind /\ s.offset = r.offset /\ s.filter = r.filter
        /\ s.first = r.first /\ s.rows = r.rows /\ s.counted = r.counted /\ s.total = r.total
    BY <1>1 DEF Requests
  <2>2. s \in Requests
    BY <1>1, PhaseType
  <2>3. s.kind = "list" => CountInv(s)
    BY <2>1 DEF WalkInv, CountInv
  <2>4. WalkInv(s)
    <3> HIDE DEF s
    <3>1. QED
      BY <1>1, <1>5, <2>1, <2>2, <2>3, WalkSame
  <2>5. QED
    BY <1>5, <2>2, <2>4, WalkMoves
<1>6. ASSUME NEW n \in Nat, NEW m \in Nat, r.phase # "answered",
             r.kind = "list" /\ n # 0 =>
                 n \in 1..Len(releases) /\ m = Cardinality(releases[n] \cap r.filter),
             request'[d] = [r EXCEPT !.phase = "waiting", !.counted = n, !.total = m]
      PROVE  WalkInv(request[d])'
  <2> DEFINE s == [r EXCEPT !.phase = "waiting", !.counted = n, !.total = m]
  <2>1. /\ s.phase = "waiting" /\ s.kind = r.kind /\ s.offset = r.offset /\ s.filter = r.filter
        /\ s.first = r.first /\ s.rows = r.rows /\ s.counted = n /\ s.total = m
    BY <1>1 DEF Requests
  <2>2. s \in Requests
    BY <1>1, CountType, PhaseNames
  <2>3. s.kind = "list" => CountInv(s)
    BY <1>6, <2>1 DEF CountInv
  <2>4. WalkInv(s)
    <3> HIDE DEF s
    <3>1. QED
      BY <1>1, <1>6, <2>1, <2>2, <2>3, WalkSame
  <2>5. QED
    BY <1>6, <2>2, <2>4, WalkMoves
<1>7. ASSUME Refuse(d), r.phase # "answered"
      PROVE  WalkInv(request[d])'
  <2>1. \/ request'[d] = Idle
        \/ request'[d] = [r EXCEPT !.phase = "waiting", !.counted = 0, !.total = 0]
    BY <1>1, <1>7 DEF Refuse
  <2>2. QED
    BY <1>3, <1>6, <1>7, <2>1
<1>8. CASE Acquire(d) \/ Connect(d)
  BY <1>1, <1>5, <1>8, PhaseNames DEF Acquire, Connect
<1>9. CASE Busy(d) \/ Unavailable(d) \/ QueryFails(d)
  BY <1>7, <1>9 DEF Busy, Unavailable, QueryFails
<1>10. CASE CountRows(d)
  <2>1. Reads(d) /\ r.phase = "querying"
    BY <1>10 DEF CountRows, Reads
  <2>2. instance \in 1..Len(releases) /\ Cardinality(Matching(d)) \in Nat /\ instance \in Nat
    BY <2>1, ReadsRelease, RowsAreFinite
  <2>3. request'[d] = [r EXCEPT !.phase = "waiting", !.counted = instance,
                                !.total = Cardinality(Matching(d))]
    BY <1>1, <1>10 DEF CountRows
  <2>4. QED
    BY <1>6, <2>1, <2>2, <2>3 DEF Matching
<1>11. CASE ReadPage(d)
  <2>1. /\ Reads(d) /\ r.phase = "querying" /\ r.kind = "list" /\ r.counted # 0
        /\ Matching(d) \in SUBSET Rows /\ Matching(d) = releases[instance] \cap r.filter
        /\ releases' = releases /\ newest' = instance /\ instance \in 1..Len(releases)
    BY <1>11, ReadsRelease DEF ReadPage, Reads, Matching
  <2>2. PICK part \in Page(request[d].offset, Matching(d)) :
          LET q == [request[d] EXCEPT
                      !.rows = @ \cup part,
                      !.first = IF request[d].offset = 0 THEN Matching(d) ELSE @,
                      !.read = instance]
          IN request' = [request EXCEPT ![d] =
               IF HasNext(q)
               THEN [q EXCEPT !.phase = "waiting", !.offset = @ + Limit, !.counted = 0, !.total = 0]
               ELSE [q EXCEPT !.phase = "answered"]]
    BY <1>11 DEF ReadPage
  <2> DEFINE first == FirstRows(d)
             q == [request[d] EXCEPT
                     !.rows = @ \cup part,
                     !.first = IF request[d].offset = 0 THEN Matching(d) ELSE @,
                     !.read = instance]
             new == request'[d]
  <2>3. /\ first \subseteq Matching(d)
        /\ \A w \in first : Cardinality(Above(w, Matching(d))) < r.offset + Limit =>
              w \in r.rows \cup part \/ Tied(w, Matching(d))
    <3> HIDE DEF q, new
    <3>1. QED
      BY <2>1, <2>2, PageStep
  <2>5. /\ q.rows = r.rows \cup part /\ q.first = first /\ q.offset = r.offset
        /\ q.total = r.total /\ q.filter = r.filter /\ q.kind = "list"
        /\ q.counted = r.counted /\ q.read = instance
    BY <1>1, <2>1 DEF Requests, FirstRows
  <2>6. r.offset \in Nat /\ r.offset + Limit \in Nat /\ r.offset + Limit # 0 /\ r.total \in Nat
        /\ Limit \in Nat
    BY <1>1, LimitType DEF Requests
  <2>7. CASE HasNext(q)
    <3>1. new = [q EXCEPT !.phase = "waiting", !.offset = @ + Limit, !.counted = 0, !.total = 0]
      BY <1>1, <2>2, <2>7
    <3>2. /\ new.rows = r.rows \cup part /\ new.first = first /\ new.offset = r.offset + Limit
          /\ new.filter = r.filter /\ new.phase = "waiting" /\ new.counted = 0
      BY <1>1, <2>5, <3>1 DEF Requests
    <3>3. Reached(request[d])'
      <4>1. instance \in 1..newest' /\ releases'[instance] \cap new.filter = Matching(d)
        BY <2>1, <3>2
      <4>2. /\ new.first \subseteq Matching(d)
            /\ \A w \in new.first : Cardinality(Above(w, Matching(d))) < new.offset =>
                  w \in new.rows \/ Tied(w, Matching(d))
        BY <2>3, <3>2
      <4> HIDE DEF new
      <4>3. new = request'[d]
        BY DEF new
      <4>4. QED
        BY <4>1, <4>2, <4>3 DEF Reached
    <3>4. QED
      BY <3>2, <3>3 DEF WalkInv, CountInv
  <2>8. CASE ~HasNext(q)
    <3>1. new = [q EXCEPT !.phase = "answered"]
      BY <1>1, <2>2, <2>8
    <3>2. /\ new.rows = r.rows \cup part /\ new.first = first /\ new.filter = r.filter
          /\ new.phase = "answered" /\ new.read = instance
          /\ new.counted = r.counted /\ new.total = r.total
      BY <1>1, <2>5, <3>1 DEF Requests
    <3>3. CountInv(r) /\ r.counted \in 1..Len(releases)
      BY <2>1 DEF WalkInv, CountInv
    <3> DEFINE counted == releases[r.counted] \cap r.filter
    <3>4. counted \in SUBSET Rows /\ Cardinality(counted) \in Nat
          /\ Cardinality(counted) <= r.offset + Limit
      <4>1. counted \in SUBSET Rows
        BY <1>1, <3>3 DEF Requests
      <4>2. Cardinality(counted) = r.total
        BY <2>1, <3>3 DEF CountInv
      <4>3. ~(r.offset + Limit < r.total)
        <5> HIDE DEF q
        <5>1. QED
          BY <2>5, <2>8 DEF HasNext
      <4>4. QED
        BY <2>6, <4>1, <4>2, <4>3
    <3>5. ASSUME NEW w \in first, w \notin r.rows \cup part
          PROVE  Tied(w, Matching(d)) \/ \E v \in Matching(d) \ counted : Key[v] >= Key[w]
      <4> SUFFICES ASSUME ~Tied(w, Matching(d)), ~\E v \in Matching(d) \ counted : Key[v] >= Key[w]
                   PROVE  FALSE
        OBVIOUS
      <4> HIDE DEF counted, first, r
      <4>1. w \in Matching(d) /\ w \in Rows /\ Key \in [Rows -> Nat]
        BY <2>1, <2>3, <3>5, ExportAssumption
      <4>2. /\ Cardinality(Above(w, Matching(d))) \in Nat
            /\ ~(Cardinality(Above(w, Matching(d))) < r.offset + Limit)
        BY <2>1, <2>3, <3>5, <4>1, AboveGrows
      <4>3. w \in counted
        BY <4>1
      <4>4. /\ Above(w, Matching(d)) \subseteq counted /\ Above(w, Matching(d)) \in SUBSET Rows
            /\ w \notin Above(w, Matching(d))
        BY <2>1, <4>1 DEF Above
      <4>5. Cardinality(Above(w, Matching(d))) < Cardinality(counted)
        BY <3>4, <4>3, <4>4, ProperSubset
      <4>6. QED
        BY <2>6, <3>4, <4>2, <4>5 DEF r
    <3>6. EndInv(request[d])'
      <4>1. /\ releases'[new.counted] \cap new.filter = counted
            /\ releases'[new.read] \cap new.filter = Matching(d)
            /\ new.counted \in 1..Len(releases') /\ new.read \in 1..Len(releases')
        BY <2>1, <3>2, <3>3
      <4>2. \A w \in new.first \ new.rows :
               Tied(w, Matching(d)) \/ \E v \in Matching(d) \ counted : Key[v] >= Key[w]
        BY <3>2, <3>5
      <4> HIDE DEF new
      <4>3. new = request'[d]
        BY DEF new
      <4>4. QED
        BY <4>1, <4>2, <4>3 DEF EndInv, Excused
    <3>7. CountInv(request[d])'
      BY <2>1, <3>2, <3>3 DEF CountInv
    <3>8. QED
      BY <3>2, <3>6, <3>7 DEF WalkInv
  <2>9. QED
    BY <2>7, <2>8
<1>12. CASE Export(d)
  <2>1. request'[d] = Idle \/ \E part \in First(QueryLimit, Matching(d)) :
           request'[d] = [r EXCEPT !.phase = "answered", !.rows = part]
    BY <1>1, <1>12 DEF Export
  <2>2. r.kind = "export"
    BY <1>12 DEF Export
  <2>3. request'[d].kind = "export" => WalkInv(request[d])'
    BY DEF WalkInv
  <2>4. QED
    BY <1>1, <1>3, <2>1, <2>2, <2>3 DEF Requests
<1>16. CASE Look(d)
  BY <1>16, Looked DEF WalkInv, IInv
<1>13. CASE Finish(d)
  BY <1>1, <1>3, <1>13 DEF Finish
<1>14. CASE Outside
  BY <1>2, <1>14 DEF Outside, OpenLive, Commit, BeginCopy, EndCopy, Replace, StopCopy, api
<1>15. QED
  BY <1>2, <1>4, <1>8, <1>9, <1>10, <1>11, <1>12, <1>13, <1>14, <1>16, SplitNext, ClientSteps
     DEF Serve, vars, api

\* Whatever keys the rows have and whatever is released meanwhile, a client that follows
\* next_offset to the end misses of what matched at its first page only rows that are tied with
\* others, and rows that came, or that another one in front of them came, after the total of
\* its last page had been counted.
THEOREM WalksMissOnlyTiedOrUncounted == Spec => []WalkMissesOnlyTiedOrUncounted
<1> DEFINE Walks == \A c \in Clients : WalkInv(request[c])
<1>1. Init => Walks
  BY DEF Init, WalkInv, CountInv, Idle
<1>2. IInv /\ Walks /\ [Next]_vars => Walks'
  BY WalkStep
<1>3. Walks => WalkMissesOnlyTiedOrUncounted
  BY DEF WalkMissesOnlyTiedOrUncounted, Walked, WalkInv, EndInv, Excused, Tied
<1>4. QED
  BY <1>1, <1>2, <1>3, InductiveInvariant, PTL DEF Spec
=============================================================================
