------------------------------ MODULE Coverage ------------------------------
(* What it means for recorded intervals to cover a window.  IntervalMerge   *)
(* checks that coverage_for_window computes it.                            *)
EXTENDS Integers

\* A window is covered when the spans join up over it.  Spans join when they
\* share a tick: every step from a tick to the next lies inside one span.
Covers(S, a, b) ==
    /\ \E x \in S : x[1] <= a /\ a <= x[2]
    /\ \A t \in a .. b - 1 : \E x \in S : x[1] <= t /\ t + 1 <= x[2]
=============================================================================
