-------------------------------- MODULE Sums --------------------------------
(* The sum of natural numbers f[c] over a finite set, counted unit by unit:  *)
(* no recursion and no order of the set is in it.                            *)
EXTENDS Integers, FiniteSets

Units(f, S) == UNION {{c} \X (1 .. f[c]) : c \in S}

Sum(f, S) == Cardinality(Units(f, S))
=============================================================================
