--------------------------- MODULE IntervalMerge ---------------------------
(***************************************************************************)
(* coverage_for_window as it is written: sort the complete spans, merge    *)
(* neighbours, look for one merged span that holds the window.  It is      *)
(* compared with Coverage over every set of spans mark_coverage can build. *)
(***************************************************************************)
EXTENDS Coverage, Sequences, FiniteSets

CONSTANTS
    MaxTick,    \* bound on the ends of a span
    MaxRecords  \* bound on the number of rows

\* What is assumed of the constants.
ConstantsOK == MaxTick \in Nat /\ MaxRecords \in Nat

VARIABLE records    \* the complete spans of one source

Ticks == 0 .. MaxTick
Spans == {x \in Ticks \X Ticks : x[1] <= x[2]}

Before(x, y) == x[1] < y[1] \/ (x[1] = y[1] /\ x[2] < y[2])
Sorted(S) ==
    [i \in 1 .. Cardinality(S) |-> CHOOSE x \in S : Cardinality({y \in S : Before(y, x)}) = i - 1]

Merge(merged, span) ==
    IF merged = <<>> \/ span[1] > merged[Len(merged)][2] THEN Append(merged, span)
    ELSE [merged EXCEPT ![Len(merged)][2] = IF span[2] > @ THEN span[2] ELSE @]

\* The spans merged one after the other.
Merged(list) ==
    LET first[n \in 0 .. Len(list)] == IF n = 0 THEN <<>> ELSE Merge(first[n - 1], list[n])
    IN  first[Len(list)]

CoverageForWindow(S, a, b) ==
    LET merged == Merged(Sorted(S))
    IN  \E i \in 1 .. Len(merged) : merged[i][1] <= a /\ b <= merged[i][2]

\* The store hands over only the rows that meet the window.
Loaded(S, a, b) == {x \in S : x[2] >= a /\ x[1] <= b}

-----------------------------------------------------------------------------
Init == records = {}

MarkCoverage(x, complete) ==
    /\ Cardinality(records) < MaxRecords \/ ~ complete
    /\ records' = IF complete THEN records \cup {x} ELSE records \ {x}

Next == \E x \in Spans, complete \in BOOLEAN : MarkCoverage(x, complete)
Spec == Init /\ [][Next]_records

\* The merge answers "covered" exactly when the spans join up over the window,
\* and leaving out the rows that do not meet the window changes no answer.
MergeIsCoverage ==
    \A x \in Spans :
        /\ CoverageForWindow(Loaded(records, x[1], x[2]), x[1], x[2])
               <=> Covers(records, x[1], x[2])
        /\ CoverageForWindow(records, x[1], x[2]) <=> Covers(records, x[1], x[2])
=============================================================================
