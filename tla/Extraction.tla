------------------------------ MODULE Extraction ------------------------------
(***************************************************************************)
(* analyze_publication: what is kept of a model's reading of a post, and   *)
(* how it is reused for the copies of the text in other channels.          *)
(*                                                                         *)
(* A text is a sequence of words: two projects, a plain word and a full    *)
(* stop.  The model answers with one fragment whose claims quote the text, *)
(* verbatim or not, with the right offset or a wrong one; a claim may say  *)
(* "today".  Copies are published on different days.                       *)
(***************************************************************************)
EXTENDS Integers, Sequences, FiniteSets

CONSTANTS
    TextLength,
    MinWords, \* claim_is_noise: a claim of fewer words
    Copies    \* days on which the text is published, one publication each

Projects == {"P", "Q"}
Words    == Projects \cup {"w", "."}
Texts    == [1 .. TextLength -> Words]
Today    == -1 \* a date not resolved yet
Places   == 0 .. TextLength

\* A claim's quote lies at first .. last of the text; a quote that is not in it
\* has last < first.  "at" is where the model says it starts, "when" its date.
Quoted == [first : 1 .. TextLength, last : 1 .. TextLength, at : {0, 1}, when : {Today, 0}]

VARIABLES
    text, answer, \* the model's: the claims, and the surfaces it lists as entities
    saved,        \* agenda_extractions for the text: <<>> when there is none
    result,       \* [Copies -> the pieces its analysis returned; <<>> before it]
    queued        \* copies put back for an error

extractVars == <<text, answer, saved, result, queued>>

Word(i) == text[i]
Segment(a, b) == {a + k : k \in 0 .. b - a}

-----------------------------------------------------------------------------
(* verify_fragment. *)

Same(a, b, c) == \A k \in 0 .. b - a : Word(a + k) = Word(c + k)
Occurrences(a, b) == {c \in 1 .. TextLength - (b - a) : Same(a, b, c)}

\* resolve_quote_span: where the quote starts, if that is certain.  The model's
\* offset is right (at = 1) or beside the text.
Span(c) ==
    IF c.last < c.first THEN {}
    ELSE IF c.at = 1 THEN {c.first}
    ELSE IF Cardinality(Occurrences(c.first, c.last)) = 1 THEN {c.first} ELSE {}

Noise(a, b) == Cardinality({i \in Segment(a, b) : Word(i) # "."}) < MinWords

Verified(claims) == UNION {
    {[first |-> s, last |-> s + c.last - c.first, when |-> c.when] :
        s \in {o \in Span(c) : ~ Noise(o, o + c.last - c.first)}} : c \in claims}

-----------------------------------------------------------------------------
(* split_independent_claims. *)

Named(a, b, surfaces) == {e \in surfaces : \E i \in Segment(a, b) : Word(i) = e}

\* Sentences end with a full stop that a capital follows.
Cuts(a, b) == {i \in Segment(a, b - 1) : Word(i) = "." /\ Word(i + 1) \in Projects}
Sentences(a, b) ==
    {s \in Segment(a, b) \X Segment(a, b) :
        /\ s[1] = a \/ s[1] - 1 \in Cuts(a, b)
        /\ s[2] = b \/ s[2] \in Cuts(a, b)
        /\ s[1] <= s[2] /\ \A i \in Cuts(a, b) : i < s[1] \/ i >= s[2]}

\* Mutant: a last sentence that no full stop ends is left out.
Pieces_Ended(c, surfaces) ==
    {[first |-> s[1], last |-> s[2], when |-> c.when] :
        s \in {t \in Sentences(c.first, c.last) : Word(t[2]) = "."}}

Pieces(c, surfaces) ==
    {[first |-> s[1], last |-> s[2], when |-> c.when] : s \in Sentences(c.first, c.last)}

Several(groups) == Cardinality(groups \ {{}}) >= 2

\* The fragments that go on to assignment, each a set of claims.
Split(claims, surfaces) ==
    IF \E c \in claims : claims = {c}
    THEN LET c == CHOOSE d \in claims : TRUE
         IN  IF Several({Named(s[1], s[2], surfaces) : s \in Sentences(c.first, c.last)})
             THEN {{p} : p \in Pieces(c, surfaces)} ELSE {claims}
    ELSE IF Several({Named(c.first, c.last, surfaces) : c \in claims})
         THEN {{c} : c \in claims} ELSE {claims}

-----------------------------------------------------------------------------
\* resolve_instance: "today" is the day of the publication.
OnDay(fragments, day) ==
    {{[c EXCEPT !.when = IF @ = Today THEN day ELSE @] : c \in f} : f \in fragments}

ExtractInit ==
    /\ text \in Texts
    /\ \E c, d \in Quoted : /\ d.first >= c.first
                           /\ answer = [claims |-> {c, d}, surfaces |-> Projects]
    /\ saved = <<>> /\ result = [p \in Copies |-> <<>>] /\ queued = {}

Kept(fragments, p) == fragments

\* A saved result is never "error": schema_to_extraction, the only source of one,
\* answers "ok" or "empty", and _with_verified_status keeps to these two.
Analyze(p) ==
    /\ saved = <<>>
    /\ LET fragments == Split(Verified(answer.claims), answer.surfaces)
       IN  saved' = <<Kept(fragments, p)>> /\ result' = [result EXCEPT ![p] = <<OnDay(fragments, p)>>]
    /\ queued' = queued \ {p} /\ UNCHANGED <<text, answer>>

Reuse(p) ==
    /\ saved # <<>> /\ result[p] = <<>>
    /\ result' = [result EXCEPT ![p] = <<OnDay(saved[1], p)>>]
    /\ queued' = queued \ {p} /\ UNCHANGED <<text, answer, saved>>

\* Nothing is saved of a failed extraction; the publication is queued again.
Error(p) ==
    /\ saved = <<>> /\ queued' = queued \cup {p} /\ UNCHANGED <<text, answer, saved, result>>

ExtractNext == \E p \in Copies : Analyze(p) \/ Reuse(p) \/ Error(p)

ExtractSpec == ExtractInit /\ [][ExtractNext]_extractVars

-----------------------------------------------------------------------------
Of(p) == IF result[p] = <<>> THEN {} ELSE UNION result[p][1]
Wrote(c) == Segment(c.first, c.last)

\* Every claim of an analysis lies where the model meant it: inside a claim of
\* its answer that it pointed at itself or that the text has only once.
QuotesAreCertain ==
    \A p \in Copies : \A c \in Of(p) : \E d \in answer.claims :
        /\ Wrote(c) \subseteq Wrote(d) /\ Wrote(c) # {}
        /\ d.at = 1 \/ Cardinality(Occurrences(d.first, d.last)) = 1

\* Splitting a digest loses no word of what was verified.
SplitKeepsAll ==
    \A p \in Copies : result[p] # <<>> =>
        UNION {Wrote(c) : c \in Of(p)} = UNION {Wrote(c) : c \in Verified(answer.claims)}

\* The copies of a text share one reading, but "today" in each is the day of
\* its own publication.
DatesAreItsOwn ==
    \A p \in Copies : \A c \in Of(p) : c.when \in {0, p}
=============================================================================
