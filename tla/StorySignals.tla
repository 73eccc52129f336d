----------------------------- MODULE StorySignals -----------------------------
(***************************************************************************)
(* agenda_signals.py: what the code computes from the posts of a story.    *)
(* story_signals tells who repeated whom and which sums the channels       *)
(* state; add_price_moves then asks the market for the price move since    *)
(* the first post and for the price at the posts that matter.              *)
(*                                                                         *)
(* Posts are in the order of their times.  Similarity of texts and         *)
(* closeness of sums are not transitive: texts and sums are numbers here,  *)
(* alike when they differ by at most one.                                  *)
(***************************************************************************)
EXTENDS Integers, Sequences, FiniteSets

CONSTANTS
    NumPosts, NumChannels, Texts, Sums,
    Symbols,    \* tickers of the story: 1 .. Symbols
    PricedPosts \* _PRICED_POSTS

Posts    == 1 .. NumPosts
Channels == 1 .. NumChannels
Levels   == {"official", "unmarked"}
None     == 0

VARIABLES
    posts,   \* [Posts -> channel, text, level of sourcing]
    stated,  \* [Channels -> the sums its linked quotes state]
    stage,   \* "moves", "posts" or "done"
    symbol,  \* the ticker being asked for
    move,    \* the ticker whose price move the card has, or None
    atPosts, \* posts with a price
    silent   \* posts whose candle could not be read

signalVars == <<posts, stated, stage, symbol, move, atPosts, silent>>

Alike(a, b) == a - b \in -1 .. 1
Least(S) == CHOOSE x \in S : \A y \in S : x <= y

-----------------------------------------------------------------------------
(* story_signals. *)

\* The first post of every channel.
Firsts == {i \in Posts : \A j \in 1 .. i - 1 : posts[j].channel # posts[i].channel}

EchoOf(i) ==
    LET prior == {j \in Firsts : j < i /\ Alike(posts[j].text, posts[i].text)}
    IN  IF prior = {} THEN None ELSE Least(prior)

Originals == {i \in Firsts : EchoOf(i) = None}

-----------------------------------------------------------------------------
(* _figure_groups. *)

Support(c, a) == Cardinality({d \in Channels \ {c} : \E b \in stated[d] : Alike(a, b)})
Stating == {c \in Channels : stated[c] # {}}

\* The sum others state too, else the largest.
Headline(c) ==
    CHOOSE a \in stated[c] : \A b \in stated[c] :
        \/ Support(c, b) < Support(c, a)
        \/ Support(c, b) = Support(c, a) /\ b <= a

\* Channels join the first group whose first sum is close to theirs.
Heads[n \in 0 .. NumChannels] ==
    IF n = 0 THEN {}
    ELSE IF n \notin Stating \/ \E a \in Heads[n - 1] : Alike(a, Headline(n)) THEN Heads[n - 1]
    ELSE Heads[n - 1] \cup {Headline(n)}
Conflict == Cardinality(Heads[NumChannels]) >= 2

-----------------------------------------------------------------------------
\* Either the posts or the sums vary; they do not meet.  Channels are numbered
\* as they come.
PostSet == [channel : Channels, text : Texts, level : Levels]
Silence == [c \in Channels |-> {}]

SignalsInit ==
    /\ \/ /\ posts \in [Posts -> PostSet] /\ stated = Silence
          /\ \A i \in Posts : posts[i].channel \in 1 .. Cardinality(Firsts \cap 1 .. i)
       \/ /\ posts = [i \in Posts |-> [channel |-> 1, text |-> 1, level |-> "unmarked"]]
          /\ stated \in [Channels -> SUBSET Sums]
    /\ stage = "moves" /\ symbol = 1 /\ move = None /\ atPosts = {} /\ silent = {}

\* The candles before and at the first post and the last price are asked for at
\* once; without an answer the next ticker is tried.
AskMove(answered) ==
    /\ stage = "moves" /\ symbol <= Symbols
    /\ IF answered THEN move' = symbol /\ stage' = "posts" /\ UNCHANGED symbol
                   ELSE symbol' = symbol + 1 /\ UNCHANGED <<move, stage>>
    /\ UNCHANGED <<posts, stated, atPosts, silent>>

\* No ticker answered, or the 20 seconds for all stories are over: no price.
NoMove ==
    /\ stage = "moves" /\ stage' = "done"
    /\ UNCHANGED <<posts, stated, symbol, move, atPosts, silent>>

Officials == {i \in Originals : posts[i].level = "official"}
FirstOnes == {i \in Originals : Cardinality({j \in Originals : j < i}) < PricedPosts}
LastOf(S) == CHOOSE x \in S : \A y \in S : y <= x

\* Mutant: the first sources only.
Chosen_First == FirstOnes

\* The first sources, the last of them given up for the first official one.
Chosen ==
    IF Officials = {} \/ Least(Officials) \in FirstOnes THEN FirstOnes
    ELSE (FirstOnes \ {LastOf(FirstOnes)}) \cup {Least(Officials)}

\* The first post's price is known from the move; a candle that cannot be read
\* loses that post only.
AskPosts(down) ==
    /\ stage = "posts" /\ stage' = "done"
    /\ silent' = down /\ atPosts' = Chosen \ (down \ {Least(Chosen)})
    /\ UNCHANGED <<posts, stated, symbol, move>>

PostsTimeout ==
    /\ stage = "posts" /\ stage' = "done" /\ silent' = Chosen
    /\ UNCHANGED <<posts, stated, symbol, move, atPosts>>

SignalsNext ==
    \/ \E answered \in BOOLEAN : AskMove(answered)
    \/ NoMove \/ \E down \in SUBSET Chosen : AskPosts(down)
    \/ PostsTimeout

SignalsSpec == SignalsInit /\ [][SignalsNext]_signalVars

-----------------------------------------------------------------------------
Reached[n \in 0 .. NumPosts, i \in Posts] ==
    EchoOf(i) = None \/ (n > 0 /\ Reached[n - 1, EchoOf(i)])

\* An echo can be traced, repeat by repeat, to a source that repeats nobody, so
\* a reported story has an independent source, and the first post is one.
EchoesTraced ==
    /\ \A i \in Firsts : Reached[NumPosts, i]
    /\ Least(Firsts) \in Originals

\* A conflict of figures is not made by sums that only one channel appends: it
\* is shown only if no sum that all channels state has more support in each
\* than the channel's other sums.
ConflictIsReal ==
    Conflict => ~\E a \in Sums : \A c \in Stating :
                    a \in stated[c] /\ \A b \in stated[c] \ {a} : Support(c, b) < Support(c, a)

\* The post a rumour is compared against has its price: with a price move and a
\* readable candle, the first official source is priced however late it came.
OfficialIsPriced ==
    (stage = "done" /\ move # None /\ Officials # {} /\ Least(Officials) \notin silent) =>
        Least(Officials) \in atPosts
=============================================================================
