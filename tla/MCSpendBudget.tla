--------------------------- MODULE MCSpendBudget ---------------------------
(* Interchangeable calls for TLC.                                          *)
EXTENDS SpendBudget, TLC

CallSymmetry == Permutations(Calls)
=============================================================================
