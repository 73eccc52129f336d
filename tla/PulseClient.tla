---------------------------- MODULE PulseClient -----------------------------
(***************************************************************************)
(* LLMClient of the news pulse: one build asks the model about the         *)
(* segments and then the pairs of its window, and again for the window     *)
(* before it, with what is left of the budget.  The answers to the items   *)
(* of a batch are cached one by one; the threads of a stage share one      *)
(* Budget.  A build may die anywhere, or be killed by an exception _send   *)
(* does not expect; the next one starts from the cache.                    *)
(*                                                                         *)
(* One process at a time: two builds of the same window are not modelled.  *)
(* An entry of the cache is written to a directory of its own and renamed, *)
(* so it is there or not.  Its key is a hash of the payload, and the items *)
(* of a stage have different payloads here: two pairs with the same one    *)
(* would share an entry in the code.  An answer is one value per label,    *)
(* and one of Decisions per pair.  Money is counted in units of the        *)
(* cheaper reserve.                                                        *)
(***************************************************************************)
EXTENDS Integers, Sequences, FiniteSets

CONSTANTS Labels, Pairs,         \* numbers of segments and of pairs in a window
          BatchSize, Workers, MaxUsd,
          ReserveLabel, ReservePair, \* CLASSIFY_RESERVE_USD, JUDGE_RESERVE_USD
          Costs,                 \* what a call may cost
          MaxRuns                \* bound: builds in one behaviour

None      == "none"
Decisions == {"same", "unclear"}

\* What is assumed of the constants: no call is reserved for free, and one is the dearest.
ConstantsOK ==
    /\ {Labels, Pairs, Workers, MaxUsd} \subseteq Nat
    /\ {BatchSize, ReserveLabel, ReservePair} \subseteq Nat \ {0}
    /\ Costs \subseteq Nat /\ \E c \in Costs : \A d \in Costs : d <= c

\* The four stages of a build: segments and pairs of the window, then of the one before.
Stages    == 1 .. 4
IsPair(s) == s % 2 = 0
Items(s)  == {s} \X (1 .. IF IsPair(s) THEN Pairs ELSE Labels)
AllItems  == UNION {Items(s) : s \in Stages}
Estimate(s) == IF IsPair(s) THEN ReservePair ELSE ReserveLabel

VARIABLES
    cache,  \* [AllItems -> answer or None]: the entries under cache_root
    runs, pc,  \* builds begun; "idle", "ask", "wait", "store", "done"
    stage, got,  \* the stage of the build, and what it was told about each item
    jobs,   \* the calls of the stage: [items, at \in "queued", "out", "ok", "no", reply]
    budget, \* Budget of the client of this window: [max, spent, reserved, stopped]
    before  \* what the client of the first window has spent

vars == <<cache, runs, pc, stage, got, jobs, budget, before>>

NewBudget(max) == [max |-> max, spent |-> 0, reserved |-> 0, stopped |-> FALSE]
Nothing        == [i \in AllItems |-> None]
Larger(a, b)   == IF a > b THEN a ELSE b

Init ==
    /\ cache = Nothing /\ runs = 0 /\ pc = "idle" /\ stage = 1 /\ got = Nothing
    /\ jobs = <<>> /\ budget = NewBudget(MaxUsd) /\ before = 0

Admits(b, estimate) == ~b.stopped /\ b.spent + b.reserved + estimate <= b.max

\* Budget.reserve, granted or refused; a refusal alone need not stop the client.
Reserve(b, estimate) ==
    IF Admits(b, estimate) THEN [b EXCEPT !.reserved = @ + estimate]
                           ELSE [b EXCEPT !.stopped = @ \/ b.spent + b.reserved >= b.max]

Settle(b, estimate, actual) ==
    LET spent == b.spent + actual
    IN  [b EXCEPT !.reserved = Larger(0, @ - estimate), !.spent = spent,
                  !.stopped = @ \/ spent >= b.max]

\* The items no entry answers, in batches of BatchSize.
Misses(s)  == {i \in Items(s) : cache[i] = None}
Batch(s, n) == {i \in Misses(s) :
    (Cardinality({j \in Misses(s) : j[2] < i[2]}) \div BatchSize) + 1 = n}
Batches(s) == (Cardinality(Misses(s)) + BatchSize - 1) \div BatchSize

Begin ==
    /\ pc \in {"idle", "done"} /\ runs < MaxRuns
    /\ runs' = runs + 1 /\ pc' = "ask" /\ stage' = 1 /\ got' = Nothing /\ jobs' = <<>>
    /\ budget' = NewBudget(MaxUsd) /\ before' = 0 /\ UNCHANGED cache

\* classify_batch and judge_many look every item up before they ask.
LookUp ==
    /\ pc = "ask"
    /\ got' = [i \in AllItems |-> IF i \in Items(stage) THEN cache[i] ELSE got[i]]
    /\ jobs' = [n \in 1 .. Batches(stage) |->
                   [items |-> Batch(stage, n), at |-> "queued", reply |-> Nothing]]
    /\ pc' = "wait" /\ UNCHANGED <<cache, runs, stage, budget, before>>

Out == {n \in DOMAIN jobs : jobs[n].at = "out"}

\* A free thread takes the next call; a refused one is answered None.
Send(n) ==
    /\ pc = "wait" /\ jobs[n].at = "queued" /\ Cardinality(Out) < Workers
    /\ \A m \in 1 .. n - 1 : jobs[m].at # "queued"
    /\ budget' = Reserve(budget, Estimate(stage))
    /\ jobs' = [jobs EXCEPT ![n].at = IF Admits(budget, Estimate(stage)) THEN "out" ELSE "no"]
    /\ UNCHANGED <<cache, runs, pc, stage, got, before>>

\* Answered: a label is missing where the model left it out, a pair it left out is unclear.
Answered(s, told) == [i \in AllItems |->
    IF i \in told THEN (IF IsPair(s) THEN "same" ELSE "label")
                  ELSE IF IsPair(s) THEN "unclear" ELSE None]

Reply(n) ==
    /\ pc = "wait" /\ jobs[n].at = "out"
    /\ \E cost \in Costs, told \in SUBSET jobs[n].items, readable \in BOOLEAN :
         /\ budget' = Settle(budget, Estimate(stage), cost)
         /\ jobs' = [jobs EXCEPT ![n].at = IF readable THEN "ok" ELSE "no",
                                 ![n].reply = IF readable THEN Answered(stage, told) ELSE @]
    /\ UNCHANGED <<cache, runs, pc, stage, got, before>>

\* A call that fails is taken to have cost nothing.
Fail(n) ==
    /\ pc = "wait" /\ jobs[n].at = "out"
    /\ budget' = Settle(budget, Estimate(stage), 0)
    /\ jobs' = [jobs EXCEPT ![n].at = "no"]
    /\ UNCHANGED <<cache, runs, pc, stage, got, before>>

\* _parallel_send has waited for all of them; only then is anything stored.
Gathered ==
    /\ pc = "wait" /\ \A n \in DOMAIN jobs : jobs[n].at \in {"ok", "no"}
    /\ pc' = "store" /\ UNCHANGED <<cache, runs, stage, got, jobs, budget, before>>

Written(job) == {i \in job.items : job.reply[i] # None}

\* The batches in the order they were made; write_cache keeps an entry already there.
Store(n) ==
    /\ pc = "store" /\ jobs[n].at = "ok" /\ \A m \in 1 .. n - 1 : jobs[m].at = "no"
    /\ got' = [i \in AllItems |-> IF i \in jobs[n].items THEN jobs[n].reply[i] ELSE got[i]]
    /\ cache' = [i \in AllItems |->
                    IF i \in Written(jobs[n]) /\ cache[i] = None THEN jobs[n].reply[i] ELSE cache[i]]
    /\ jobs' = [jobs EXCEPT ![n].at = "no"]
    /\ UNCHANGED <<runs, pc, stage, budget, before>>

\* Mutant: the window before has the whole budget again.
Remaining_Full(b) == b.max

Remaining(b) == Larger(0, b.max - b.spent)

\* The decisions missing after judge_many are unclear; then the window before.
NextStage ==
    /\ pc = "store" /\ \A n \in DOMAIN jobs : jobs[n].at = "no"
    /\ got' = [i \in AllItems |->
                  IF i \in Items(stage) /\ IsPair(stage) /\ got[i] = None THEN "unclear" ELSE got[i]]
    /\ pc' = IF stage = 4 THEN "done" ELSE "ask"
    /\ stage' = IF stage = 4 THEN stage ELSE stage + 1
    /\ jobs' = <<>>
    /\ budget' = IF stage = 2 THEN NewBudget(Remaining(budget)) ELSE budget
    /\ before' = IF stage = 2 THEN budget.spent ELSE before
    /\ UNCHANGED <<cache, runs>>

Die ==
    /\ pc \in {"ask", "wait", "store"}
    /\ pc' = "idle" /\ jobs' = <<>> /\ got' = Nothing /\ stage' = 1
    /\ budget' = NewBudget(MaxUsd) /\ before' = 0 /\ UNCHANGED <<cache, runs>>

PulseNext ==
    \/ Begin \/ LookUp \/ Gathered \/ NextStage \/ Die
    \/ \E n \in DOMAIN jobs : Send(n) \/ Reply(n) \/ Fail(n) \/ Store(n)

PulseSpec == Init /\ [][PulseNext]_vars
-----------------------------------------------------------------------------
\* What a build spends on both windows is past the cap by no more than its
\* threads may have under way beyond their reserves when the cap is met.
MostCost == CHOOSE c \in Costs : \A d \in Costs : d <= c
LeastReserve == IF ReservePair < ReserveLabel THEN ReservePair ELSE ReserveLabel
SpendWithinCap == before + budget.spent <= MaxUsd + Workers * Larger(0, MostCost - LeastReserve)

\* A build that has ended can be had again from the cache alone, with the same
\* labels and decisions, although some calls failed or left items out.
Replayed(i) == IF IsPair(i[1]) /\ cache[i] = None THEN "unclear" ELSE cache[i]
ReplayEqual == pc = "done" => \A i \in AllItems : got[i] = Replayed(i)
=============================================================================
