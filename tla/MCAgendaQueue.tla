--------------------------- MODULE MCAgendaQueue ---------------------------
(* Small instances of AgendaQueue for TLC.                                 *)
EXTENDS AgendaQueue, TLC

CONSTANTS s1, s2, p1, p2, p3, a, b

OneSource  == [p \in Pubs |-> s1]
TwoSources == [p \in Pubs |-> IF p = p1 THEN s1 ELSE s2]
OneFragment == [t \in Texts |-> 1]
Fragments  == [t \in Texts |-> IF t = a THEN 3 ELSE 1]

\* Posts of one channel are interchangeable.
Copies == Permutations(Pubs)
=============================================================================
