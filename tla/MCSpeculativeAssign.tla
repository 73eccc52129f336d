------------------------ MODULE MCSpeculativeAssign ------------------------
(* Three publications: the first is older, the other two have one date.    *)
EXTENDS SpeculativeAssign

DigestFirst == <<2, 1, 1>>
DigestLast  == <<1, 1, 2>>
Dates  == <<1, 2, 2>>

Surfaces == [f \in Fragments |->
    CASE f = <<1, 1>> -> {"a", "b"} [] f[1] = 3 -> {"b"} [] OTHER -> {"a"}]

\* The other fragments of f, nearest first: by distance of publications, then of indices.
Nearness == [f \in Fragments |-> [g \in Fragments |->
    LET apart == IF f[1] > g[1] THEN 2 * (f[1] - g[1]) ELSE 2 * (g[1] - f[1]) + 1
    IN  4 * apart + (IF g[2] >= f[2] THEN g[2] - f[2] ELSE 2 + f[2] - g[2])]]

Alike == {<<<<2, 1>>, <<1, 2>>>>}
============================================================================
