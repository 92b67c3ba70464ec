---------------------------- MODULE MassiveClient ----------------------------
(***************************************************************************)
(* ingestion/massive.py: worker threads read lists page by page from one   *)
(* vendor.  Every attempt of every request waits for the limiter of the    *)
(* process, which sleeps while it holds its lock; attempts that fail are   *)
(* repeated a bounded number of times.                                     *)
(*                                                                         *)
(* Time is a set of timers that run down together (Tick).  A sleep may     *)
(* take longer than asked for, and a thread that may call calls within     *)
(* MaxLag.                                                                 *)
(***************************************************************************)
EXTENDS Integers, Sequences

CONSTANTS
    Threads,
    Interval,           \* minimum_interval
    MaxLag,             \* from the return of wait to the call, at most
    MaxRetries,         \* max_retries
    LongestBackoff,     \* 30 s
    RetryAfters,        \* what the header may ask for
    Pages,              \* of a list
    None,               \* nobody, or no limiter yet
    MaxCalls            \* bound: lists that a thread reads

ASSUME MassiveAssumption ==
    /\ {Interval, Pages} \subseteq Nat \ {0} /\ RetryAfters \subseteq Nat
    /\ {MaxLag, MaxRetries, LongestBackoff, MaxCalls} \subseteq Nat
    /\ None \notin Threads

VARIABLES
    limiter,            \* _GLOBAL_LIMITER: who made it
    nextIn,             \* of the limiter a thread has made: _next_request_at - monotonic(), or 0
    holder,             \* of such a limiter: the thread that has its lock
    thread,             \* what each thread does
    sinceCall           \* history: time since the last call of anybody, up to Interval

vars == <<limiter, nextIn, holder, thread, sinceCall>>

(***************************************************************************)
(* A thread reads a list (client is the limiter its client was made with), *)
(* waits for the limiter, sleeping if it must, may call ("permitted"), has *)
(* called, backs off, and in the end returns the list or raises.           *)
(***************************************************************************)
Phases ==
    {"idle", "ready", "spacing", "permitted", "called", "backoff", "returned", "raised"}

IdleThread ==
    [phase |-> "idle", client |-> None, page |-> 1, attempt |-> 0, timer |-> 0, lag |-> 0,
     list |-> <<>>, calls |-> 0]

Init ==
    /\ limiter = None /\ nextIn = [t \in Threads |-> 0] /\ holder = [t \in Threads |-> None]
    /\ thread = [t \in Threads |-> IdleThread]
    /\ sinceCall = Interval

Down(timer) == IF timer = 0 THEN 0 ELSE timer - 1

Tick ==
    /\ \A t \in Threads : thread[t].phase = "permitted" => thread[t].lag < MaxLag
    /\ nextIn' = [t \in Threads |-> Down(nextIn[t])]
    /\ thread' = [t \in Threads |->
         [thread[t] EXCEPT !.timer = Down(@),
                           !.lag = IF thread[t].phase = "permitted" THEN @ + 1 ELSE 0]]
    /\ sinceCall' = IF sinceCall < Interval THEN sinceCall + 1 ELSE Interval
    /\ UNCHANGED <<limiter, holder>>

(***************************************************************************)
(* iter_results, and MassiveClient with _get_global_limiter.               *)
(***************************************************************************)
\* The limiter is looked up, and made by the first, under a lock of its own.
Begin(t) ==
    /\ thread[t].phase = "idle" /\ thread[t].calls < MaxCalls
    /\ limiter' = IF limiter = None THEN t ELSE limiter
    /\ thread' = [thread EXCEPT ![t] = [IdleThread EXCEPT
                    !.phase = "ready", !.client = limiter', !.calls = thread[t].calls + 1]]
    /\ UNCHANGED <<nextIn, holder, sinceCall>>

(***************************************************************************)
(* MassiveRateLimiter.wait.                                                *)
(***************************************************************************)
\* The time is read again after the sleep: the interval begins when the thread goes on.
Permit(t) ==
    /\ nextIn' = [nextIn EXCEPT ![thread[t].client] = Interval]
    /\ thread' = [thread EXCEPT ![t].phase = "permitted", ![t].lag = 0]

Pass(t) ==
    /\ thread[t].phase = "ready"
    /\ holder[thread[t].client] = None /\ nextIn[thread[t].client] = 0
    /\ Permit(t)
    /\ UNCHANGED <<limiter, holder, sinceCall>>

Sleep(t) ==
    /\ thread[t].phase = "ready"
    /\ holder[thread[t].client] = None /\ nextIn[thread[t].client] > 0
    /\ holder' = [holder EXCEPT ![thread[t].client] = t]
    /\ thread' = [thread EXCEPT ![t].phase = "spacing", ![t].timer = nextIn[thread[t].client]]
    /\ UNCHANGED <<limiter, nextIn, sinceCall>>

Wake(t) ==
    /\ thread[t].phase = "spacing" /\ thread[t].timer = 0
    /\ holder' = [holder EXCEPT ![thread[t].client] = None]
    /\ Permit(t)
    /\ UNCHANGED <<limiter, sinceCall>>

(***************************************************************************)
(* get_json.                                                               *)
(***************************************************************************)
Call(t) ==
    /\ thread[t].phase = "permitted"
    /\ thread' = [thread EXCEPT ![t].phase = "called", ![t].lag = 0]
    /\ sinceCall' = 0
    /\ UNCHANGED <<limiter, nextIn, holder>>

Least(a, b) == IF a < b THEN a ELSE b

\* A page; iter_results follows next_url, and each request has its own attempts.
Answer(t) ==
    LET read == Append(thread[t].list, thread[t].page)
    IN /\ thread[t].phase = "called"
       /\ thread' = [thread EXCEPT ![t] =
            IF thread[t].page < Pages
            THEN [@ EXCEPT !.phase = "ready", !.page = thread[t].page + 1, !.attempt = 0,
                           !.list = read]
            ELSE [@ EXCEPT !.phase = "returned", !.list = read]]
       /\ UNCHANGED <<limiter, nextIn, holder, sinceCall>>

\* Mutant: attempts are not counted.
FailForEver(t, delay) ==
    /\ thread[t].phase = "called"
    /\ thread' = [thread EXCEPT ![t].phase = "backoff", ![t].timer = delay]
    /\ UNCHANGED <<limiter, nextIn, holder, sinceCall>>

\* A time-out, a broken connection, or a status that may pass.
Fail(t, delay) ==
    /\ thread[t].phase = "called"
    /\ thread' = [thread EXCEPT ![t] =
         IF thread[t].attempt = MaxRetries THEN [@ EXCEPT !.phase = "raised"]
         ELSE [@ EXCEPT !.phase = "backoff", !.attempt = thread[t].attempt + 1, !.timer = delay]]
    /\ UNCHANGED <<limiter, nextIn, holder, sinceCall>>

FailTransiently(t) ==
    \E delay \in {Least(2^thread[t].attempt, LongestBackoff)} \cup RetryAfters : Fail(t, delay)

\* Any other status, or a body that is not as expected.
Refuse(t) ==
    /\ thread[t].phase = "called"
    /\ thread' = [thread EXCEPT ![t].phase = "raised"]
    /\ UNCHANGED <<limiter, nextIn, holder, sinceCall>>

\* Mutant: a repeated attempt does not wait for the limiter.
RetryAtOnce(t) ==
    /\ thread[t].phase = "backoff" /\ thread[t].timer = 0
    /\ thread' = [thread EXCEPT ![t].phase = "permitted", ![t].lag = 0]
    /\ UNCHANGED <<limiter, nextIn, holder, sinceCall>>

Retry(t) ==
    /\ thread[t].phase = "backoff" /\ thread[t].timer = 0
    /\ thread' = [thread EXCEPT ![t].phase = "ready"]
    /\ UNCHANGED <<limiter, nextIn, holder, sinceCall>>

End(t) ==
    /\ thread[t].phase \in {"returned", "raised"}
    /\ thread' = [thread EXCEPT ![t] = [IdleThread EXCEPT !.calls = thread[t].calls]]
    /\ UNCHANGED <<limiter, nextIn, holder, sinceCall>>

Step(t) ==
    \/ Begin(t) \/ Pass(t) \/ Sleep(t) \/ Wake(t) \/ Call(t)
    \/ Answer(t) \/ FailTransiently(t) \/ Refuse(t) \/ Retry(t) \/ End(t)

Next == Tick \/ \E t \in Threads : Step(t)

Spec == Init /\ [][Next]_vars

\* Threads run, calls have a time-out, and time passes.  The lock of the limiter is not fair.
FairSpec == Spec /\ WF_vars(Tick) /\ \A t \in Threads : WF_vars(Step(t))

TypeOK ==
    /\ limiter \in Threads \cup {None}
    /\ nextIn \in [Threads -> 0..Interval] /\ holder \in [Threads -> Threads \cup {None}]
    /\ thread \in [Threads ->
         [phase : Phases, client : Threads \cup {None}, page : 1..Pages, attempt : 0..MaxRetries,
          timer : Nat, lag : 0..MaxLag, list : Seq(1..Pages), calls : 0..MaxCalls]]
    /\ sinceCall \in 0..Interval

(***************************************************************************)
(* Properties.                                                             *)
(***************************************************************************)
\* docs/SCALABILITY.md: one limiter for all worker threads.  Two calls of the process, of any
\* threads, pages and attempts, are an interval apart, less what the first may be late.
CallsAreSpaced ==
    [][\A t \in Threads : Call(t) => sinceCall >= Interval - MaxLag]_vars

\* However often calls fail, and although all threads queue behind one that sleeps with the
\* lock, whoever begins a list gets an end of it: an error, or a list that has each page once
\* and in order, whichever of its calls were repeated.
ListsEnd ==
    \A t \in Threads :
        thread[t].phase = "ready" ~>
            \/ thread[t].phase = "raised"
            \/ thread[t].phase = "returned" /\ thread[t].list = [page \in 1..Pages |-> page]
=============================================================================
