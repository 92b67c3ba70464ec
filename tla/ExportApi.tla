------------------------------ MODULE ExportApi ------------------------------
(***************************************************************************)
(* api/service.py, the read-only export API, with storage/snapshot.py,     *)
(* which publishes the database that it reads, and the batch that writes   *)
(* the live one.                                                           *)
(*                                                                         *)
(* A page of a list is two queries, a download is one.  A query takes a    *)
(* slot, opens a connection of its own and closes it.  DuckDB gives all    *)
(* connections of a process that are open at a time one instance of the    *)
(* file, and a file one writer or many readers.  The API is pointed at the *)
(* live file or at a snapshot.                                             *)
(***************************************************************************)
EXTENDS Naturals, Sequences, FiniteSets

CONSTANTS
    Rows,               \* of a table
    Key,                \* their sort keys: higher keys come first, equal ones in any order
    Runs,               \* of a run, the rows that it adds
    Clients,
    Filters,            \* of a filter, the rows that match
    Limit,              \* rows of a page
    ExportMax,          \* export_max_rows
    MaxSlots,           \* bound of max_concurrent_queries, here a variable
    MaxReleases         \* bound

ASSUME ExportAssumption ==
    /\ IsFiniteSet(Rows) /\ IsFiniteSet(Clients) /\ Key \in [Rows -> Nat]
    /\ {Runs, Filters} \subseteq SUBSET (SUBSET Rows)
    /\ {Limit, ExportMax, MaxSlots} \subseteq Nat \ {0} /\ MaxReleases \in Nat

VARIABLES
    target,             \* what the API is pointed at: "live" or "snapshot"
    live,               \* committed rows of the live file
    writing,            \* whether a batch has it open
    copying,            \* the publisher: "no", "copying" or "copied"
    copied,             \* what the temporary file holds
    releases,           \* what the file of the API has held: the last one is there now
    instance,           \* the release that the open connections share, or 0
    capacity, slots,    \* max_concurrent_queries, and how many of the slots are free
    request,            \* of a client
    newest              \* history: the release that the last query read

configuration == <<target, capacity>>
batch == <<live, writing>>
publisher == <<copying, copied>>
api == <<instance, slots, request, newest>>
vars == <<configuration, batch, publisher, releases, api>>

(***************************************************************************)
(* Requests.  A client reads a list page by page, asks for a download, or  *)
(* looks at a run or at the health of the API.                             *)
(***************************************************************************)
Idle ==
    [phase |-> "idle", kind |-> "list", filter |-> {}, asked |-> 0, offset |-> 0,
     counted |-> 0, total |-> 0, first |-> {}, rows |-> {}, read |-> 0]

Kinds == {"list", "export", "look"}
Phases == {"idle", "waiting", "connecting", "querying", "answered"}

\* counted is the release of the first query of a page, 0 before it.  History: asked, the
\* newest release when the request began, first, what matched at the first page, and
\* read, the release that the rows of the last page are of.
Begin(kind, filter) == [Idle EXCEPT !.phase = "waiting", !.kind = kind, !.filter = filter, !.asked = newest]

HoldsSlot(c) == request[c].phase \in {"connecting", "querying"}
IsOpen(c) == request[c].phase = "querying"

Init ==
    /\ target \in {"live", "snapshot"} /\ capacity \in 1..MaxSlots
    /\ live = {} /\ writing = FALSE
    /\ copying = "no" /\ copied = {}
    /\ releases = <<>>
    /\ instance = 0 /\ slots = capacity /\ newest = 0
    /\ request = [c \in Clients |-> Idle]

(***************************************************************************)
(* The batch.  A writer is refused while a reader has the live file open,  *)
(* and readers while it writes.                                            *)
(***************************************************************************)
LiveIsRead == copying = "copying" \/ (target = "live" /\ instance # 0)

OpenLive ==
    /\ ~writing /\ ~LiveIsRead
    /\ writing' = TRUE
    /\ UNCHANGED <<configuration, live, publisher, releases, api>>

\* persist_equity_run commits a run, its results and exceptions in one transaction.
Commit(run) ==
    /\ writing /\ Len(releases) < MaxReleases
    /\ live' = live \cup run
    /\ writing' = FALSE
    /\ releases' = IF target = "live" THEN Append(releases, live') ELSE releases
    /\ UNCHANGED <<configuration, publisher, api>>

(***************************************************************************)
(* publish_snapshot, run by one operator at a time.                        *)
(***************************************************************************)
\* Mutant: the copy is made in place.
BeginCopyInPlace ==
    /\ target = "snapshot" /\ Len(releases) < MaxReleases
    /\ copying = "no" /\ ~writing
    /\ copying' = "copying"
    /\ releases' = Append(releases, {})
    /\ UNCHANGED <<configuration, batch, copied, api>>

BeginCopy ==
    /\ target = "snapshot" /\ Len(releases) < MaxReleases
    /\ copying = "no" /\ ~writing
    /\ copying' = "copying"
    /\ UNCHANGED <<configuration, batch, copied, releases, api>>

EndCopy ==
    /\ copying = "copying"
    /\ copying' = "copied" /\ copied' = live
    /\ UNCHANGED <<configuration, batch, releases, api>>

Replace ==
    /\ copying = "copied"
    /\ releases' = Append(releases, copied)
    /\ copying' = "no" /\ copied' = {}
    /\ UNCHANGED <<configuration, batch, api>>

\* An error or a kill.  A temporary file that stays has a name of its own.
StopCopy ==
    /\ copying # "no"
    /\ copying' = "no" /\ copied' = {}
    /\ UNCHANGED <<configuration, batch, releases, api>>

(***************************************************************************)
(* ReadOnlyDuckDB.connection.                                              *)
(***************************************************************************)
Ask(c, kind, filter) ==
    /\ request[c].phase = "idle"
    /\ request' = [request EXCEPT ![c] = Begin(kind, filter)]
    /\ UNCHANGED <<configuration, batch, publisher, releases, instance, slots, newest>>

Acquire(c) ==
    /\ request[c].phase = "waiting" /\ slots > 0
    /\ slots' = slots - 1
    /\ request' = [request EXCEPT ![c] = [@ EXCEPT !.phase = "connecting"]]
    /\ UNCHANGED <<configuration, batch, publisher, releases, instance, newest>>

\* 503: the client gives up, or asks for the page again.
Refuse(c) ==
    \/ request' = [request EXCEPT ![c] = Idle]
    \/ request' = [request EXCEPT ![c] = [@ EXCEPT !.phase = "waiting", !.counted = 0, !.total = 0]]

\* No slot was free for as long as acquire waits.
Busy(c) ==
    /\ request[c].phase = "waiting" /\ slots = 0
    /\ Refuse(c)
    /\ UNCHANGED <<configuration, batch, publisher, releases, instance, slots, newest>>

Readable == releases # <<>> /\ (target = "live" => ~writing)

Connect(c) ==
    /\ request[c].phase = "connecting" /\ Readable
    /\ instance' = IF instance = 0 THEN Len(releases) ELSE instance
    /\ request' = [request EXCEPT ![c] = [@ EXCEPT !.phase = "querying"]]
    /\ UNCHANGED <<configuration, batch, publisher, releases, slots, newest>>

\* Mutant: only a connection that was made is cleaned up.
UnavailableLeaking(c) ==
    /\ request[c].phase = "connecting" /\ ~Readable
    /\ Refuse(c)
    /\ UNCHANGED <<configuration, batch, publisher, releases, instance, slots, newest>>

Unavailable(c) ==
    /\ request[c].phase = "connecting" /\ ~Readable
    /\ slots' = slots + 1
    /\ Refuse(c)
    /\ UNCHANGED <<configuration, batch, publisher, releases, instance, newest>>

\* The connection is closed and the slot given back, whatever the query did.
Close(c) ==
    /\ instance' = IF \E d \in Clients \ {c} : IsOpen(d) THEN instance ELSE 0
    /\ slots' = slots + 1

QueryFails(c) ==
    /\ request[c].phase = "querying"
    /\ Close(c)
    /\ Refuse(c)
    /\ UNCHANGED <<configuration, batch, publisher, releases, newest>>

(***************************************************************************)
(* Queries.                                                                *)
(***************************************************************************)
\* What LIMIT n can return: the first n rows, or all; rows with one key come in any order.
IsPrefix(part, rows) == \A r \in part, q \in rows \ part : Key[r] >= Key[q]
Least(m, n) == IF m < n THEN m ELSE n
First(n, rows) ==
    {part \in SUBSET rows :
        Cardinality(part) = Least(n, Cardinality(rows)) /\ IsPrefix(part, rows)}

\* LIMIT Limit OFFSET offset.
Page(offset, rows) ==
    {part \in SUBSET rows : \E before \in First(offset, rows) :
        part \cap before = {} /\ part \cup before \in First(offset + Limit, rows)}

Matching(c) == releases[instance] \cap request[c].filter

Reads(c) ==
    /\ request[c].phase = "querying"
    /\ Close(c)
    /\ newest' = instance
    /\ UNCHANGED <<configuration, batch, publisher, releases>>

\* The first query of a page.
CountRows(c) ==
    /\ request[c].kind = "list" /\ request[c].counted = 0
    /\ Reads(c)
    /\ request' = [request EXCEPT ![c] = [@ EXCEPT
                     !.phase = "waiting", !.counted = instance, !.total = Cardinality(Matching(c))]]

\* Mutant: off by one.
HasNextAfterOne(r) == r.offset + Limit + 1 < r.total

\* _pagination: next_offset is not null.
HasNext(r) == r.offset + Limit < r.total

\* The second one, and the answer.  The client follows next_offset.
ReadPage(c) ==
    /\ request[c].kind = "list" /\ request[c].counted # 0
    /\ Reads(c)
    /\ \E part \in Page(request[c].offset, Matching(c)) :
         LET r == [request[c] EXCEPT
                     !.rows = @ \cup part,
                     !.first = IF request[c].offset = 0 THEN Matching(c) ELSE @,
                     !.read = instance]
         IN request' = [request EXCEPT ![c] =
              IF HasNext(r)
              THEN [r EXCEPT !.phase = "waiting", !.offset = @ + Limit, !.counted = 0, !.total = 0]
              ELSE [r EXCEPT !.phase = "answered"]]

\* Mutant: the query asks for no row beyond the limit.
QueryLimitExact == ExportMax

QueryLimit == ExportMax + 1

\* 413 if there are more rows than may be sent; the file is made when the slot is free again.
Export(c) ==
    /\ request[c].kind = "export"
    /\ Reads(c)
    /\ \E part \in First(QueryLimit, Matching(c)) :
         request' = [request EXCEPT ![c] =
            IF Cardinality(part) > ExportMax THEN Idle
            ELSE [@ EXCEPT !.phase = "answered", !.rows = part]]

\* get_run reads the run and then its partitions, unless there is no such run; health reads once.
Look(c) ==
    /\ request[c].kind = "look"
    /\ Reads(c)
    /\ \E next \in {"waiting", "answered"} :
         /\ next = "waiting" => request[c].counted = 0
         /\ request' = [request EXCEPT ![c] = [@ EXCEPT !.phase = next, !.counted = instance]]

Finish(c) ==
    /\ request[c].phase = "answered"
    /\ request' = [request EXCEPT ![c] = Idle]
    /\ UNCHANGED <<configuration, batch, publisher, releases, instance, slots, newest>>

Serve(c) ==
    \/ Acquire(c) \/ Busy(c) \/ Connect(c) \/ Unavailable(c) \/ QueryFails(c)
    \/ CountRows(c) \/ ReadPage(c) \/ Export(c) \/ Look(c) \/ Finish(c)

Next ==
    \/ OpenLive \/ \E run \in Runs : Commit(run)
    \/ BeginCopy \/ EndCopy \/ Replace \/ StopCopy
    \/ \E c \in Clients : Serve(c)
    \/ \E c \in Clients, kind \in Kinds, filter \in Filters : Ask(c, kind, filter)

Spec == Init /\ [][Next]_vars

Requests ==
    [phase : Phases, kind : Kinds, filter : SUBSET Rows, asked : Nat, offset : Nat,
     counted : Nat, total : Nat, first : SUBSET Rows, rows : SUBSET Rows, read : Nat]

TypeOK ==
    /\ target \in {"live", "snapshot"} /\ live \subseteq Rows /\ writing \in BOOLEAN
    /\ copying \in {"no", "copying", "copied"} /\ copied \subseteq Rows
    /\ releases \in Seq(SUBSET Rows)
    /\ instance \in 0..Len(releases) /\ newest \in 0..Len(releases)
    /\ capacity \in 1..MaxSlots /\ slots \in 0..capacity
    /\ request \in [Clients -> Requests]

(***************************************************************************)
(* Properties.                                                             *)
(***************************************************************************)
\* docs/adr/0004: "readers receive a consistent release boundary".  What the API has behind it
\* is only ever replaced by a whole later release, whether a publisher ends in the middle or
\* a batch commits, and no query reads an older release than a query before it did, although
\* connections that overlap keep sharing an old one.
View == INSTANCE ReleasedView
ImplementsReleasedView == View!Spec

\* docs/EXPORT_API.md: "the API holds no idle database connection".  Slots that are not free
\* belong to requests in a query, one each, and the file is open just while some query runs:
\* refusals, failing connections and failing queries leave nothing behind that would make the
\* API refuse for ever or shut the batch out.
OnlyRequestsHold ==
    /\ slots + Cardinality({c \in Clients : HoldsSlot(c)}) = capacity
    /\ instance # 0 <=> \E c \in Clients : IsOpen(c)

Walked(c) == request[c].phase = "answered" /\ request[c].kind = "list"

\* Whatever is committed or published while a client follows next_offset to the end, it misses
\* of what matched at its first page only rows that share their sort key with another, and
\* those that a row in front of them, or they themselves, came too late to be counted in the
\* total of the page that it took for the last.
WalkMissesOnlyTiedOrUncounted ==
    \A c \in Clients : Walked(c) =>
        LET counted == releases[request[c].counted] \cap request[c].filter
            read == releases[request[c].read] \cap request[c].filter
        IN \A r \in request[c].first \ request[c].rows :
              \/ \E q \in read \ {r} : Key[q] = Key[r]
              \/ \E q \in read \ counted : Key[q] >= Key[r]

\* A download has all matching rows of one release, which is not older than what anybody had
\* read when it was asked for, and never a part of them.
ExportIsWhole ==
    \A c \in Clients :
        request[c].phase = "answered" /\ request[c].kind = "export" =>
            /\ Cardinality(request[c].rows) <= ExportMax
            /\ \E i \in 1..Len(releases) :
                 i >= request[c].asked /\ request[c].rows = releases[i] \cap request[c].filter
=============================================================================
