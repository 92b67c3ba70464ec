---------------------------- MODULE ReleasedView ----------------------------
(***************************************************************************)
(* What the export API promises about the data behind it: releases follow  *)
(* one another and only add rows, each query reads one whole release, and  *)
(* no query reads an older release than a query before it.                 *)
(***************************************************************************)
EXTENDS Naturals, Sequences

CONSTANT Rows

VARIABLES
    releases,       \* the contents of each release
    newest          \* the release that the last query read

vars == <<releases, newest>>

Init == releases = <<>> /\ newest = 0

Release(content) ==
    /\ \A i \in 1..Len(releases) : releases[i] \subseteq content
    /\ releases' = Append(releases, content)
    /\ UNCHANGED newest

Read(i) ==
    /\ newest <= i
    /\ newest' = i
    /\ UNCHANGED releases

Next ==
    \/ \E content \in SUBSET Rows : Release(content)
    \/ \E i \in 1..Len(releases) : Read(i)

Spec == Init /\ [][Next]_vars
=============================================================================
