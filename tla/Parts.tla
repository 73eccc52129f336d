------------------------------ MODULE Parts ------------------------------
(***************************************************************************)
(* Components that share no state are checked in one run of TLC, one       *)
(* component per behaviour: part names it, its variables are the first of  *)
(* the pool below, and the rest of the pool is off.                        *)
(***************************************************************************)
VARIABLES part, v1, v2, v3, v4, v5, v6, v7, v8, v9, v10, v11, v12, v13, v14, v15, v16, v17

parts == <<part, v1, v2, v3, v4, v5, v6, v7, v8, v9, v10, v11, v12, v13, v14, v15, v16, v17>>

\* Offk: the k-th variable of the pool and those after it are not used.
Off17 == v17 = "off"
Off16 == v16 = "off" /\ Off17
Off15 == v15 = "off" /\ Off16
Off14 == v14 = "off" /\ Off15
Off13 == v13 = "off" /\ Off14
Off12 == v12 = "off" /\ Off13
Off11 == v11 = "off" /\ Off12
Off10 == v10 = "off" /\ Off11
Off9 == v9 = "off" /\ Off10
Off8 == v8 = "off" /\ Off9
Off7 == v7 = "off" /\ Off8
Off6 == v6 = "off" /\ Off7
Off5 == v5 = "off" /\ Off6
Off4 == v4 = "off" /\ Off5
Off3 == v3 = "off" /\ Off4
Off2 == v2 = "off" /\ Off3

\* Keptk: nor do they change.
Kept17 == UNCHANGED v17 /\ UNCHANGED part
Kept16 == UNCHANGED v16 /\ Kept17
Kept15 == UNCHANGED v15 /\ Kept16
Kept14 == UNCHANGED v14 /\ Kept15
Kept13 == UNCHANGED v13 /\ Kept14
Kept12 == UNCHANGED v12 /\ Kept13
Kept11 == UNCHANGED v11 /\ Kept12
Kept10 == UNCHANGED v10 /\ Kept11
Kept9 == UNCHANGED v9 /\ Kept10
Kept8 == UNCHANGED v8 /\ Kept9
Kept7 == UNCHANGED v7 /\ Kept8
Kept6 == UNCHANGED v6 /\ Kept7
Kept5 == UNCHANGED v5 /\ Kept6
Kept4 == UNCHANGED v4 /\ Kept5
Kept3 == UNCHANGED v3 /\ Kept4
Kept2 == UNCHANGED v2 /\ Kept3
=============================================================================
