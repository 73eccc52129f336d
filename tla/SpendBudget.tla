---------------------------- MODULE SpendBudget ----------------------------
(***************************************************************************)
(* The daily LLM budget: the reservation ledger of SqliteSpendBudget and   *)
(* the BudgetedClient that wraps each provider call in it.                 *)
(*                                                                         *)
(* Concurrent callers (extraction, assignment, verification, ...) reserve, *)
(* call, and settle.  Each ledger method is one BEGIN IMMEDIATE            *)
(* transaction and one action.  The provider charges for a request on its  *)
(* own, whether or not the caller is still there to learn it, so `cost` is *)
(* the truth the ledger tries to follow.                                   *)
(***************************************************************************)
EXTENDS Sums

CONSTANTS
    Calls,        \* reservation ids, one per provider call
    Limit,        \* daily_limit
    Reservation,  \* reservation_amount
    Costs,        \* what the provider may charge for a call
    TTL,          \* UNKNOWN_RESERVATION_TTL, in clock steps
    DayLength,    \* clock steps per UTC day
    MaxTime       \* bound on the clock

ASSUME CallsFinite == IsFiniteSet(Calls)
ASSUME AmountsNat == /\ Limit \in Nat /\ Reservation \in Nat \ {0} /\ Costs \subseteq Nat
ASSUME ClockNat   == /\ TTL \in Nat \ {0} /\ DayLength \in Nat \ {0} /\ MaxTime \in Nat

Failures == {"timeout", "error", "cancelled"}
Outcomes == Failures \cup {"none", "active", "settled", "missing_usage", "released_unknown"}

VARIABLES
    now,       \* the clock
    row,       \* [Calls -> spend_reservation row]
    caller,    \* [Calls -> where BudgetedClient.create stands]
    day,       \* [Calls -> day]: the day `reserve` read before the lock
    cost,      \* [Calls -> Nat]: what the provider has charged so far
    charged,   \* calls the provider has charged for
    released   \* history: calls whose reservation was released as unknown

vars == <<now, row, caller, day, cost, charged, released>>

Day(t) == t \div DayLength
Days   == {Day(t) : t \in 0 .. MaxTime}

NoRow == [outcome |-> "none", day |-> Day(0), created |-> 0, amount |-> 0, settled |-> FALSE]
Rows  == {c \in Calls : row[c].outcome # "none"}

Init ==
    /\ now = 0
    /\ row = [c \in Calls |-> NoRow]
    /\ caller = [c \in Calls |-> "idle"] /\ day = [c \in Calls |-> Day(0)]
    /\ cost = [c \in Calls |-> 0] /\ charged = {} /\ released = {}

Tick == now < MaxTime /\ now' = now + 1 /\ UNCHANGED <<row, caller, day, cost, charged, released>>

-----------------------------------------------------------------------------
(* reserve                                                                 *)

\* The day is taken before the lock and the transaction.
Enter(c) ==
    /\ caller[c] = "idle"
    /\ day' = [day EXCEPT ![c] = Day(now)]
    /\ caller' = [caller EXCEPT ![c] = "entered"]
    /\ UNCHANGED <<now, row, cost, charged, released>>

\* Mutant: settled rows are released with the unknown ones.
Unknown_Settled(d) ==
    {c \in Rows : row[c].day = d /\ row[c].amount > 0 /\ row[c].created <= now - TTL}

Unknown(d) == {c \in Rows : /\ row[c].day = d /\ ~ row[c].settled /\ row[c].amount > 0
                            /\ row[c].created <= now - TTL}

Release(R) == [c \in Calls |-> IF c \in R THEN [row[c] EXCEPT !.amount = 0,
                                                              !.outcome = "released_unknown"]
                               ELSE row[c]]

Used(table, d) == Sum([c \in Calls |-> table[c].amount], {c \in Rows : table[c].day = d})

\* Mutant: the stale reservations are released only after the check.
Admits_BeforeRelease(d) == Used(row, d) + Reservation <= Limit

\* Mutant: the reservation being made is left out of the check.
Admits_OffByOne(d) == Used(Release(Unknown(d)), d) <= Limit

Admits(d) == Used(Release(Unknown(d)), d) + Reservation <= Limit

Reserve(c) ==
    /\ caller[c] = "entered" /\ Admits(day[c])
    /\ row' = [Release(Unknown(day[c])) EXCEPT
                    ![c] = [outcome |-> "active", day |-> day[c], created |-> now,
                            amount |-> Reservation, settled |-> FALSE]]
    /\ released' = released \cup Unknown(day[c])
    /\ caller' = [caller EXCEPT ![c] = "calling"] /\ day' = [day EXCEPT ![c] = Day(0)]
    /\ UNCHANGED <<now, cost, charged>>

\* BudgetExceeded leaves the transaction uncommitted: its releases roll back.
Refuse(c) ==
    /\ caller[c] = "entered" /\ ~ Admits(day[c])
    /\ caller' = [caller EXCEPT ![c] = "refused"] /\ day' = [day EXCEPT ![c] = Day(0)]
    /\ UNCHANGED <<now, row, cost, charged, released>>

-----------------------------------------------------------------------------
(* The provider call, and how its outcome reaches the ledger.              *)

\* The provider charges, even for a request nobody waits for any more.
Charge(c, k) ==
    /\ caller[c] \in {"calling", "failed", "lost", "done"} /\ c \in Rows \ charged
    /\ cost' = [cost EXCEPT ![c] = k] /\ charged' = charged \cup {c}
    /\ UNCHANGED <<now, row, caller, day, released>>

Respond(c) ==
    /\ caller[c] = "calling" /\ c \in charged
    /\ caller' = [caller EXCEPT ![c] = "returned"]
    /\ UNCHANGED <<now, row, day, cost, charged, released>>

Raise(c) ==
    /\ caller[c] = "calling"
    /\ caller' = [caller EXCEPT ![c] = "failed"]
    /\ UNCHANGED <<now, row, day, cost, charged, released>>

\* Mutant: a reservation that was released is settled at zero.
Settle_Released(c) ==
    /\ caller[c] = "returned"
    /\ row' = [row EXCEPT ![c].amount = IF c \in released THEN 0 ELSE cost[c],
                          ![c].settled = TRUE, ![c].outcome = "settled"]
    /\ caller' = [caller EXCEPT ![c] = "done"]
    /\ UNCHANGED <<now, day, cost, charged, released>>

\* Mutant: the cost is posted as a correction of the reservation.
Settle_Correction(c) ==
    /\ caller[c] = "returned"
    /\ row' = [row EXCEPT ![c].amount = @ - (Reservation - cost[c]),
                          ![c].settled = TRUE, ![c].outcome = "settled"]
    /\ caller' = [caller EXCEPT ![c] = "done"]
    /\ UNCHANGED <<now, day, cost, charged, released>>

Settle(c) ==
    /\ caller[c] = "returned"
    /\ row' = IF row[c].settled THEN row
              ELSE [row EXCEPT ![c].amount = cost[c], ![c].settled = TRUE,
                               ![c].outcome = "settled"]
    /\ caller' = [caller EXCEPT ![c] = "done"]
    /\ UNCHANGED <<now, day, cost, charged, released>>

\* fail(reservation, outcome): a label, never the amount.
Labelled(c, outcome) ==
    IF row[c].settled THEN row ELSE [row EXCEPT ![c].outcome = outcome]

\* A response without a usable usage.cost, or an exception of the call.
Fail(c, outcome) ==
    /\ \/ caller[c] = "returned" /\ outcome = "missing_usage"
       \/ caller[c] = "failed" /\ outcome \in Failures
    /\ row' = Labelled(c, outcome)
    /\ caller' = [caller EXCEPT ![c] = "done"]
    /\ UNCHANGED <<now, day, cost, charged, released>>

\* The settle or fail transaction itself raises: the row stays as it is.
StoreRaises(c) ==
    /\ caller[c] \in {"returned", "failed"}
    /\ caller' = [caller EXCEPT ![c] = "done"]
    /\ UNCHANGED <<now, row, day, cost, charged, released>>

\* The process dies: every call in flight is lost, its row is not.
Crash ==
    /\ \E c \in Calls : caller[c] \in {"entered", "calling", "returned", "failed"}
    /\ caller' = [c \in Calls |-> CASE caller[c] \in {"calling", "returned", "failed"} -> "lost"
                                    [] caller[c] = "entered" -> "idle"
                                    [] OTHER -> caller[c]]
    /\ day' = [c \in Calls |-> Day(0)]
    /\ UNCHANGED <<now, row, cost, charged, released>>

Next ==
    \/ Tick \/ Crash
    \/ \E c \in Calls :
        \/ Enter(c) \/ Reserve(c) \/ Refuse(c)
        \/ Respond(c) \/ Raise(c) \/ Settle(c) \/ StoreRaises(c)
        \/ \E k \in Costs : Charge(c, k)
        \/ \E outcome \in Failures \cup {"missing_usage"} : Fail(c, outcome)

Spec == Init /\ [][Next]_vars

-----------------------------------------------------------------------------
(* Properties.                                                             *)

InFlight == {"calling", "returned", "failed"}

\* Types.  No amount of the ledger is negative, and only rows are released.
TypeOK ==
    /\ now \in 0 .. MaxTime
    /\ row \in [Calls -> [outcome : Outcomes, day : Days, created : 0 .. MaxTime,
                          amount : Nat, settled : BOOLEAN]]
    /\ caller \in [Calls -> InFlight \cup {"idle", "entered", "refused", "lost", "done"}]
    /\ day \in [Calls -> Days] /\ cost \in [Calls -> Nat]
    /\ charged \subseteq Calls /\ released \subseteq Rows

\* The port's promise "durable reservations precede provider I/O", and what
\* the row says of a call: a settled row carries exactly what the provider
\* charged, also when it settles after its release; an open one holds its full
\* reservation unless it was released.
LedgerFollowsProvider ==
    /\ \A c \in Calls : c \in charged \/ caller[c] \in InFlight \cup {"lost", "done"} => c \in Rows
    /\ \A c \in Rows : row[c].settled => c \in charged /\ row[c].amount = cost[c]
    /\ \A c \in Rows \ released : ~ row[c].settled => row[c].amount = Reservation

\* What a day's calls really cost beyond what the ledger held for them: the
\* released ones, and those dearer than their reservation.
Overrun(d) == Sum([c \in Calls |-> IF c \in released THEN cost[c]
                                   ELSE IF cost[c] > Reservation THEN cost[c] - Reservation
                                   ELSE 0],
                  {c \in Rows : row[c].day = d})

\* The daily limit bounds the provider's charges, known to the ledger or not,
\* up to Overrun: concurrent callers, failures, lost responses and crashes
\* cannot add to it otherwise.
SpendBounded ==
    \A d \in Days :
        Sum(cost, {c \in Rows : row[c].day = d}) <= Limit + Overrun(d)

\* A settled row never changes again: neither a late `fail`, nor the release
\* of unknown reservations, nor a second settlement touches it.
SettledIsFinal == [][\A c \in Calls : row[c].settled => row'[c] = row[c]]_vars

\* A call is refused only for what the day has really spent or reserved within
\* the last TTL: dead callers do not lock the others out for the whole day.
RefusalIsJust ==
    [][\A c \in Calls : caller[c] = "entered" /\ caller'[c] = "refused" =>
          Sum([b \in Calls |-> row[b].amount],
              {b \in Rows : /\ row[b].day = day[c]
                            /\ row[b].settled \/ row[b].created > now - TTL})
            + Reservation > Limit]_vars
=============================================================================
