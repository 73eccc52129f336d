--------------------------- MODULE AgendaSnapshot ---------------------------
(***************************************************************************)
(* build_snapshot (application/agenda_snapshot.py): the links of the two   *)
(* windows are filtered, the stories several channels report are verified  *)
(* link by link by a model whose verdicts are stored as they come, and the *)
(* agenda is selected from what is left.  A build may be cut anywhere; the *)
(* next one finds the verdicts stored so far.                              *)
(***************************************************************************)
EXTENDS Integers, Sequences, FiniteSets, FiniteSetsExt, Functions

CONSTANTS
    Links,       \* numbers, the order in which the store lists the links
    LinkOf,      \* link -> story, post, and what the checks see of the quote
    PostOf,      \* post -> channel, at
    StoryOf,     \* story (a number, its id) -> the fields of the card below
    Batch,       \* 12, quotes the verifier is given at once
    Parallel,    \* 8, stories verified at once
    MinChannels, PerEntity, AgendaLimit, ClaimLimit,  \* 2, 2, 10 and 3
    Window,      \* ticks of WINDOW
    MaxTime      \* bound: the clock
\* LinkOf: story, post, verbatim (the quote is in the post), apt (tense and subject
\* agree with the title), mentions (names in the quote), numbers, terms (title words).
\* StoryOf: tickers, names and numbers of the title, key (entity, or ""), eligible
\* (a title that can be shown), scheduled, entity (primary), kin (near duplicates).

Stories == DOMAIN StoryOf
Channels == {PostOf[p].channel : p \in DOMAIN PostOf}

\* What is assumed of the constants.
ConstantsOK ==
    /\ IsFiniteSet(Links) /\ Links \subseteq Nat
    /\ \A l \in Links : LinkOf[l].post \in DOMAIN PostOf /\ LinkOf[l].terms \in Nat
    /\ \A p \in DOMAIN PostOf : PostOf[p].at \in Int
    /\ IsFiniteSet(Stories) /\ Stories \subseteq Nat
    /\ Parallel \in Nat /\ MinChannels \in Nat /\ MinChannels >= 2 /\ PerEntity \in Nat
    /\ AgendaLimit \in Nat /\ ClaimLimit \in Nat /\ Window \in Nat /\ MaxTime \in Nat

VARIABLES
    now,
    links,    \* the links assignment has stored
    verdict,  \* evidence verdicts stored, by link: "none", "yes" or "no"
    pc,       \* idle, verifying, counting or built
    tracked,  \* coverage_states of this build: the channels followed ...
    comparable,  \* ... and those complete and processed in both windows
    found,    \* links_by_story
    task,     \* verify_one, by story: off, waiting, asking, done, failed, broke
    missing,  \* links the task has still to ask about
    reply,    \* verdicts the task has and has not stored
    report

vars == <<now, links, verdict, pc, tracked, comparable, found, task, missing, reply, report>>

None == [mode |-> "none"]
Nothing == [s \in Stories |-> {}]
Unsaved == [s \in Stories |-> <<>>]
Off == [s \in Stories |-> "off"]

Init ==
    /\ now = 0 /\ links = {} /\ verdict = [l \in Links |-> "none"]
    /\ pc = "idle" /\ tracked = {} /\ comparable = {} /\ found = Nothing
    /\ task = Off /\ missing = Nothing /\ reply = Unsaved /\ report = None

Tick ==
    /\ pc = "idle" /\ now < MaxTime
    /\ now' = now + 1
    /\ UNCHANGED <<links, verdict, pc, tracked, comparable, found, task, missing, reply, report>>

Post(l) == PostOf[LinkOf[l].post]
\* Assignment goes through the posts in order and may lag behind the clock.
Assign ==
    /\ pc = "idle"
    /\ LET due == {l \in Links \ links : Post(l).at < now}
       IN  due # {} /\ links' = links \cup {Min(due)}
    /\ UNCHANGED <<now, verdict, pc, tracked, comparable, found, task, missing, reply, report>>

-----------------------------------------------------------------------------
(* The links of the two windows *)

Current(l) == now - Window <= Post(l).at /\ Post(l).at < now
Previous(l) == now - 2 * Window <= Post(l).at /\ Post(l).at < now - Window

\* The quote is in the post, fits the title, and names what the title names.
Supported(l) ==
    LET q == LinkOf[l]
        s == StoryOf[q.story]
    IN  /\ q.verbatim /\ q.apt
        /\ s.tickers # {} => q.mentions \cap s.tickers # {}
        /\ q.mentions \cap s.names # {}
        /\ s.key # "" => s.key \in q.mentions
        /\ s.numbers # {} => q.numbers \cap s.numbers # {}

LinksOf(s, T) ==
    {l \in links : /\ LinkOf[l].story = s /\ Post(l).channel \in T
                   /\ Current(l) \/ Previous(l)
                   /\ Supported(l)}

ChannelsOf(S) == {Post(l).channel : l \in S}
Votes(S) == {LinkOf[l].post : l \in S}

Load(T) ==
    /\ pc = "idle"
    /\ tracked' = T
    /\ found' = [s \in Stories |-> LinksOf(s, T)]
    /\ task' = [s \in Stories |->
           IF Cardinality(ChannelsOf({l \in found'[s] : Current(l)})) >= 2 THEN "waiting" ELSE "off"]
    /\ pc' = "verifying"
    /\ UNCHANGED <<now, links, verdict, comparable, missing, reply, report>>

-----------------------------------------------------------------------------
(* _verify_story_links, one task for each story *)

\* Mutant: what is stored is asked again.
Unknown_All(S) == S
Unknown(S) == {l \in S : verdict[l] = "none"}

Begin(s) ==
    /\ pc = "verifying" /\ task[s] = "waiting"
    /\ Cardinality({r \in Stories : task[r] = "asking"}) < Parallel
    /\ task' = [task EXCEPT ![s] = "asking"]
    /\ missing' = [missing EXCEPT ![s] = Unknown(found[s])]
    /\ UNCHANGED <<now, links, verdict, pc, tracked, comparable, found, reply, report>>

First(S, n) == {l \in S : Cardinality({k \in S : k < l}) < n}

Answer(s) ==
    /\ task[s] = "asking" /\ missing[s] # {} /\ reply[s] = <<>>
    /\ \E r \in [First(missing[s], Batch) -> {"yes", "no"}] : reply' = [reply EXCEPT ![s] = r]
    /\ missing' = [missing EXCEPT ![s] = @ \ First(@, Batch)]
    /\ UNCHANGED <<now, links, verdict, pc, tracked, comparable, found, task, report>>

Save(s) ==
    /\ task[s] = "asking" /\ reply[s] # <<>>
    /\ LET l == Min(DOMAIN reply[s])
       IN  /\ verdict' = [verdict EXCEPT ![l] = reply[s][l]]
           /\ reply' = [reply EXCEPT ![s] = Restrict(@, DOMAIN @ \ {l})]
    /\ UNCHANGED <<now, links, pc, tracked, comparable, found, task, missing, report>>

\* "failed" is an unusable reply, an outage or a store error, "broke" an exhausted budget.
Close(s, how) ==
    /\ task[s] = "asking"
    /\ IF how = "done" THEN missing[s] = {} /\ reply[s] = <<>>
       ELSE how = "broke" => missing[s] # {} /\ reply[s] = <<>>
    /\ task' = [task EXCEPT ![s] = how]
    /\ missing' = [missing EXCEPT ![s] = {}] /\ reply' = [reply EXCEPT ![s] = <<>>]
    /\ UNCHANGED <<now, links, verdict, pc, tracked, comparable, found, report>>

Leave ==
    /\ pc' = "idle" /\ tracked' = {} /\ comparable' = {} /\ found' = Nothing
    /\ task' = Off /\ missing' = Nothing /\ reply' = Unsaved /\ report' = None
    /\ UNCHANGED <<now, links, verdict>>

\* Cancellation or a crash.
Interrupt == pc \in {"verifying", "counting"} /\ Leave

Gathered == pc = "verifying" /\ \A s \in Stories : task[s] \notin {"waiting", "asking"}
\* gather waits for every task; an exhausted budget then fails the build.
OutOfBudget == Gathered /\ (\E s \in Stories : task[s] = "broke") /\ Leave

\* Mutant: a story whose verification failed keeps its links.
Evidence_Kept(s) ==
    {l \in found[s] : task[s] = "done" => verdict[l] = "yes"}
Evidence(s) ==
    IF task[s] = "failed" THEN {}
    ELSE {l \in found[s] : task[s] = "done" => verdict[l] = "yes"}

\* comparable_channel_ids comes after: the channels complete and processed.
Gather(C) ==
    /\ Gathered /\ \A s \in Stories : task[s] # "broke"
    /\ found' = [s \in Stories |-> Evidence(s)]
    /\ comparable' = C
    /\ pc' = "counting"
    /\ UNCHANGED <<now, links, verdict, tracked, task, missing, reply, report>>

-----------------------------------------------------------------------------
(* The cards, their order and the selection *)

Now(s) == {l \in found[s] : Current(l)}
Reporting(s) == Cardinality(ChannelsOf(Now(s)))
Compared(S) == Cardinality(ChannelsOf(S) \cap comparable)
Growth(s) == Compared(Now(s)) - Compared({l \in found[s] : Previous(l)})
Enough == Cardinality(comparable) >= MinChannels
Freshness(s) == Max({Post(l).at : l \in Now(s)})

\* agenda_rank_key; without enough comparable channels no card has a growth.
Before(r, s) ==
    LET g(x) == IF Enough THEN Growth(x) ELSE 0
    IN  \/ g(r) > g(s)
        \/ g(r) = g(s) /\ Reporting(r) > Reporting(s)
        \/ g(r) = g(s) /\ Reporting(r) = Reporting(s) /\ Freshness(r) > Freshness(s)
        \/ g(r) = g(s) /\ Reporting(r) = Reporting(s) /\ Freshness(r) = Freshness(s) /\ r < s

Ranked(S) == [n \in 1 .. Cardinality(S) |->
                 CHOOSE s \in S : Cardinality({r \in S : Before(r, s)}) = n - 1]

\* One of the selected stories stands in the way of s.
Blocks(chosen, s) ==
    \/ StoryOf[s].entity # "" /\
       Cardinality({r \in chosen : StoryOf[r].entity = StoryOf[s].entity}) >= PerEntity
    \/ Cardinality(Votes(Now(s))) >= 2 /\ \E r \in chosen : Votes(Now(r)) = Votes(Now(s))
    \/ \E r \in chosen : r \in StoryOf[s].kin

Selected(order) ==
    LET Take(chosen, s) ==
            IF Cardinality(chosen) = AgendaLimit \/ Blocks(chosen, s) THEN chosen
            ELSE chosen \cup {s}
        upto[n \in 0 .. Len(order)] == IF n = 0 THEN {} ELSE Take(upto[n - 1], order[n])
    IN  upto[Len(order)]

Eligible == {s \in Stories : /\ StoryOf[s].eligible /\ ~ StoryOf[s].scheduled
                             /\ Reporting(s) >= MinChannels}
Growing == {s \in Eligible : Growth(s) > 0}
Mode == IF ~ Enough THEN "limited_no_growth_claim"
        ELSE IF Growing = {} THEN "empty_no_growth" ELSE "full"
Offered == IF Enough THEN Growing ELSE Eligible

\* _claim_cards: by the words shared with the title, one for each channel, then more.
Claims(s) ==
    LET Ahead(k, l) == \/ LinkOf[k].terms > LinkOf[l].terms
                       \/ LinkOf[k].terms = LinkOf[l].terms /\ k < l
        Top(S, n) == {l \in S : Cardinality({k \in S : Ahead(k, l)}) < n}
        voices == {l \in Now(s) : ~ \E k \in Now(s) :
                       Post(k).channel = Post(l).channel /\ Ahead(k, l)}
        chosen == Top(voices, ClaimLimit)
    IN  chosen \cup Top(Now(s) \ chosen, ClaimLimit - Cardinality(chosen))

Build ==
    /\ pc = "counting"
    /\ report' = [mode |-> Mode,
                  agenda |-> IF Mode = "empty_no_growth" THEN {} ELSE Selected(Ranked(Offered)),
                  upcoming |-> {s \in Stories : StoryOf[s].scheduled /\ Reporting(s) >= 2},
                  channels |-> [s \in Stories |-> Reporting(s)],
                  claims |-> [s \in Stories |-> Claims(s)],
                  limited |-> \E s \in Stories : task[s] = "failed"]
    /\ pc' = "built"
    /\ UNCHANGED <<now, links, verdict, tracked, comparable, found, task, missing, reply>>

Return == pc = "built" /\ Leave

Next ==
    \/ Tick \/ Assign \/ Interrupt \/ OutOfBudget \/ Build \/ Return
    \/ \E T \in SUBSET Channels : Load(T)
    \/ \E C \in SUBSET tracked : Gather(C)
    \/ \E s \in Stories : \/ Begin(s) \/ Answer(s) \/ Save(s)
                          \/ \E how \in {"done", "failed", "broke"} : Close(s, how)

Spec == Init /\ [][Next]_vars

-----------------------------------------------------------------------------
(* Properties *)

TypeOK ==
    /\ now \in 0 .. MaxTime /\ links \subseteq Links
    /\ verdict \in [Links -> {"none", "yes", "no"}]
    /\ pc \in {"idle", "verifying", "counting", "built"}
    /\ comparable \subseteq tracked /\ tracked \subseteq Channels
    /\ \A s \in Stories :
          /\ found[s] \subseteq links /\ missing[s] \subseteq found[s]
          /\ DOMAIN reply[s] \subseteq found[s]
          /\ task[s] \in {"off", "waiting", "asking", "done", "failed", "broke"}
    /\ Cardinality({s \in Stories : task[s] = "asking"}) <= Parallel

\* The quotes of a story that stand: stored, followed, in the windows and verified.
Standing(s) == {l \in LinksOf(s, tracked) : verdict[l] = "yes"}

\* Whatever was cut, cached or failed before, a story on the agenda has the channels its
\* verified quotes give it, at least two, and if the report compares, it has grown among
\* the comparable channels by the same quotes.
AgendaIsVerified ==
    pc = "built" => \A s \in report.agenda :
        LET current == {l \in Standing(s) : Current(l)}
            previous == {l \in Standing(s) : Previous(l)}
        IN  /\ report.channels[s] = Cardinality(ChannelsOf(current))
            /\ report.channels[s] >= MinChannels
            /\ report.mode = "full" =>
                  Cardinality(ChannelsOf(current) \cap comparable)
                      > Cardinality(ChannelsOf(previous) \cap comparable)

\* A story that qualifies is left out only for a full agenda or for stories on it.
RestIsBlocked ==
    pc = "built" => \A s \in Offered \ report.agenda :
        Cardinality(report.agenda) = AgendaLimit \/ Blocks(report.agenda, s)

\* A story quotes as many channels as report it, up to the number of quotes shown.
EvidenceIsVaried ==
    pc = "built" => \A s \in Stories :
        LET shown == Cardinality(ChannelsOf(report.claims[s]))
        IN  shown = Min({ClaimLimit, report.channels[s]})

\* A verdict is paid for once: no step asks again what is stored or changes it.
VerdictIsFinal ==
    \A l \in Links : verdict[l] # "none" =>
        /\ verdict'[l] = verdict[l]
        /\ \A s \in Stories : l \in missing'[s] => l \in missing[s]
=============================================================================
