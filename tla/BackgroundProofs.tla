-------------------------- MODULE BackgroundProofs --------------------------
(***************************************************************************)
(* Proofs about what works behind the service: the poll task, for any      *)
(* configuration of sources, with or without an Xpoz reader, and any poll  *)
(* interval; and the ledger of the LLM spend, for any finite set of calls, *)
(* any amounts and any clock.                                              *)
(***************************************************************************)
EXTENDS AgendaPoll, SpendBudget, SumTheorems

-----------------------------------------------------------------------------
(* The poll task.  Neither property is inductive: what /healthz says while *)
(* a cycle runs was recorded before it began, possibly several polls ago,  *)
(* and what the collection reads depends on mappings that survive from     *)
(* poll to poll.  The invariant says which families can be trusted at each *)
(* point of the iteration, and what the record that is being written owes  *)
(* them.                                                                   *)

\* A source reported as ok was resolved by the last attempt, and the lists the
\* collectors are given still hold all of it.
Sound(f) ==
    health[f] = "ok" =>
        /\ f \in heard
        /\ SourcesOf(f) \subseteq ids
        /\ SourcesOf(f) \cap Mapped \subseteq known
        /\ f = "xpoz" => Reader

\* The families resolved before f.
Before(f) == CASE f = "telegram" -> {}
               [] f = "rss"      -> {"telegram"}
               [] f = "reddit"   -> {"telegram", "rss"}
               [] OTHER          -> {"telegram", "rss", "reddit"}

\* The families whose health can be trusted at this point.  An iteration that
\* is to resolve again, and one that failed half-way, can trust none.
Trusted ==
    IF pc \in Families THEN Before(pc)
    ELSE IF pc = "record" THEN Before(note.of)
    ELSE IF pc = "down" \/ (pc \in {"top", "asleep"} /\ ids = {}) THEN {}
    ELSE Families

TrustedAreSound == \A f \in Trusted \cap Configured : Sound(f)

\* What is being recorded: an "ok" comes from a resolution that has extended
\* the lists, and is not written by a handler, which would empty the mapping.
Noted ==
    /\ pc = "record" <=> note # NoNote
    /\ pc = "record" =>
        /\ note \in [of : Configured, as : {"ok", "unavailable"}, handler : BOOLEAN]
        /\ note.as = "ok" =>
            /\ ~note.handler
            /\ note.of \in heard
            /\ SourcesOf(note.of) \subseteq ids
            /\ SourcesOf(note.of) \cap Mapped \subseteq known
            /\ note.of = "xpoz" => Reader

\* What a due collection has read is what the lists still say.
Gathered == (pc \in {"ingested", "analyze", "finish"} /\ due) => reads = Collection

PollIInv == PollTypeOK /\ TrustedAreSound /\ Noted /\ Gathered

-----------------------------------------------------------------------------
(* What the steps share.                                                   *)

\* The values a fresh task starts from, and the arithmetic of the ages.
LEMMA Values ==
  /\ NoHealth \in [Families -> {"none", "ok", "unavailable"}]
  /\ NoMem \in [phase : Phases, error : Errors, blocked : BOOLEAN, collected : BOOLEAN]
  /\ \A n \in 0 .. Poll : Saturated(n + 1) \in 0 .. Poll /\ (n > 0 => n - 1 \in 0 .. Poll)
  /\ \A n \in -1 .. Poll : n # -1 => Saturated(n + 1) \in -1 .. Poll
  /\ Poll \in 0 .. Poll /\ 0 \in 0 .. Poll /\ -1 \in -1 .. Poll
  /\ 0 .. Poll \subseteq -1 .. Poll
  /\ 0 \in Ages /\ \A n \in Ages : Aged(n) \in Ages
  BY PollPositive DEF NoHealth, NoMem, Phases, Errors, Saturated, Ages, Aged

\* The families in the order they are resolved.
LEMMA Order ==
  /\ Before("telegram") = {} /\ Before("rss") = {"telegram"}
  /\ Before("reddit") = {"telegram", "rss"}
  /\ Before("xpoz") = {"telegram", "rss", "reddit"}
  /\ \A f \in Families :
       /\ f \notin Before(f) /\ Before(f) \subseteq Families
       /\ NextFamily[f] \in Families \cup {"resolved"}
       /\ NextFamily[f] \in Families => Before(NextFamily[f]) = Before(f) \cup {f}
       /\ NextFamily[f] = "resolved" => Families = Before(f) \cup {f}
  BY DEF Before, Families, NextFamily

\* The places where a family is resolved are no others.
LEMMA PlacesOfFamilies ==
  ASSUME NEW f \in Families \cup {"resolved"}
  PROVE  /\ f \in Places
         /\ f \notin InCycle \cup {"begin", "record", "top", "asleep", "down"}
         /\ f \in Families => f # "resolved"
  BY DEF Families, Places, InCycle

\* No source belongs to two families, and each has one.
LEMMA Apart ==
  /\ \A f \in Families : SourcesOf(f) \subseteq Sources /\ SourcesOf(f) # {}
  /\ \A f, g \in Families : f # g => SourcesOf(f) \cap SourcesOf(g) = {}
  BY DEF Families, SourcesOf, Sources, Mapped

\* What is said of a family depends on its health, the history and the lists.
LEMMA SoundStays ==
  ASSUME NEW f \in Families, Sound(f),
         health'[f] = health[f], f \in heard => f \in heard',
         ids \subseteq ids',
         SourcesOf(f) \cap known \subseteq known'
  PROVE  Sound(f)'
  BY DEF Sound

\* Nobody else is trusted, and the trusted keep what they have.
LEMMA TrustStays ==
  ASSUME TrustedAreSound, UNCHANGED <<health, heard, ids, known>>, Trusted' \subseteq Trusted
  PROVE  TrustedAreSound'
  BY DEF TrustedAreSound, Sound

\* A step away from the record leaves nothing to note.
LEMMA NothingNoted ==
  ASSUME pc' # "record", note' = NoNote
  PROVE  Noted'
  BY DEF Noted, NoNote

\* An exception leaves a copy of the cycle state that can be stored.
LEMMA ExcuseTyped ==
  ASSUME PollTypeOK, NEW e \in {"failed", "budget"}
  PROVE  Excuse(e) \in [phase : Phases, error : Errors, blocked : BOOLEAN, collected : BOOLEAN]
  BY DEF PollTypeOK, Excuse, Phases, Errors

\* A report that goes on display has an age.
LEMMA DisplayTyped ==
  ASSUME PollTypeOK, NEW report \in BOOLEAN, NEW aged \in Ages, Display(report, aged)
  PROVE  shown' \in BOOLEAN /\ old' \in Ages
<1>1. shown \in BOOLEAN /\ old \in Ages
  BY DEF PollTypeOK
<1>2. shown' \in BOOLEAN
  BY <1>1 DEF Display
<1>3. old' \in Ages
  BY <1>1 DEF Display
<1> QED BY <1>2, <1>3

\* The sleep after a cycle is no longer than the poll interval.
LEMMA RemainingTyped == ASSUME PollTypeOK PROVE Remaining \in 0 .. Poll
<1>1. age \in -1 .. Poll /\ Poll \in Nat \ {0}
  BY PollPositive DEF PollTypeOK
<1>2. Poll - age \in Int
  BY <1>1
<1> QED BY <1>1, <1>2 DEF Remaining, Least1

-----------------------------------------------------------------------------
\* The ages move; nothing is trusted for its age.
LEMMA TickKeeps == ASSUME PollIInv, PollTick PROVE PollIInv'
<1> USE DEF PollIInv
<1>1. PollTypeOK'
  BY FamiliesConfigured, Values DEF PollTypeOK, stored, clock, config, task, PollTick
<1>2. TrustedAreSound'
  <2>1. Trusted' \subseteq Trusted
    BY Order DEF PollTypeOK, Trusted, InCycle, Families, stored, clock, config, task, PollTick
  <2> QED BY <2>1, TrustStays DEF stored, config, task, PollTick
<1>3. Noted'
  BY DEF Noted, stored, config, task, PollTick
<1>4. Gathered'
  BY DEF Gathered, Collection, stored, clock, config, task, PollTick
<1> QED BY <1>1, <1>2, <1>3, <1>4

\* Trouble comes without a trace.
LEMMA UpsetKeeps == ASSUME PollIInv, Upset PROVE PollIInv'
<1> USE DEF PollIInv
<1>1. PollTypeOK'
  BY FamiliesConfigured DEF PollTypeOK, stored, clock, config, task, Upset
<1>2. TrustedAreSound'
  <2>1. Trusted' \subseteq Trusted
    BY Order DEF PollTypeOK, Trusted, InCycle, Families, stored, clock, config, task, Upset
  <2> QED BY <2>1, TrustStays DEF stored, config, task, Upset
<1>3. Noted'
  BY DEF Noted, stored, config, task, Upset
<1>4. Gathered'
  BY DEF Gathered, Collection, stored, clock, config, task, Upset
<1> QED BY <1>1, <1>2, <1>3, <1>4

\* And goes without one.
LEMMA HealKeeps == ASSUME PollIInv, Heal PROVE PollIInv'
<1> USE DEF PollIInv
<1>1. PollTypeOK'
  BY FamiliesConfigured DEF PollTypeOK, stored, clock, config, task, Heal
<1>2. TrustedAreSound'
  <2>1. Trusted' \subseteq Trusted
    BY Order DEF PollTypeOK, Trusted, InCycle, Families, stored, clock, config, task, Heal
  <2> QED BY <2>1, TrustStays DEF stored, config, task, Heal
<1>3. Noted'
  BY DEF Noted, stored, config, task, Heal
<1>4. Gathered'
  BY DEF Gathered, Collection, stored, clock, config, task, Heal
<1> QED BY <1>1, <1>2, <1>3, <1>4

\* A fresh process trusts nothing, for its source_ids are empty.
LEMMA CrashKeeps == ASSUME PollIInv, PollCrash PROVE PollIInv'
<1> USE DEF PollIInv
<1>1. PollTypeOK'
  <2>1. /\ due' = FALSE /\ more' = FALSE /\ base' = NoHealth /\ mem' = NoMem /\ note' = NoNote
        /\ lag' = 0 /\ sleep' = 0 /\ made' = 0 /\ ids' = {} /\ known' = {} /\ pc' = "top"
        /\ UNCHANGED <<trouble, health, phase, error, blocked, age, shown, old, heard>>
    BY DEF PollCrash, Fresh, stored
  <2> QED BY <2>1, Values DEF PollTypeOK, Places, InCycle, Families
<1>2. TrustedAreSound'
  BY DEF TrustedAreSound, Trusted, InCycle, Families, stored, clock, config, task, PollCrash, Fresh
<1>3. Noted'
  BY NothingNoted DEF Noted, stored, clock, config, task, Families, PollCrash, Fresh
<1>4. Gathered'
  BY DEF Gathered, Noted, stored, clock, config, task, PollCrash, Fresh
<1> QED BY <1>1, <1>2, <1>3, <1>4

\* The sleeper wakes with the lists it went to sleep with.
LEMMA WakeUpKeeps == ASSUME PollIInv, WakeUp PROVE PollIInv'
<1> USE DEF PollIInv
<1>1. PollTypeOK'
  BY FamiliesConfigured DEF PollTypeOK, stored, clock, config, task, WakeUp, Places, InCycle,
         Families
<1>2. TrustedAreSound'
  <2>1. Trusted' \subseteq Trusted
    BY Order DEF PollTypeOK, Trusted, InCycle, Families, stored, clock, config, task, WakeUp
  <2> QED BY <2>1, TrustStays DEF stored, config, task, WakeUp
<1>3. Noted'
  BY NothingNoted DEF Noted, stored, clock, config, task, Families, WakeUp
<1>4. Gathered'
  BY DEF Gathered, Noted, stored, clock, config, task, WakeUp
<1> QED BY <1>1, <1>2, <1>3, <1>4

\* The supervisor's fresh task trusts nothing.
LEMMA RestartKeeps == ASSUME PollIInv, Restart PROVE PollIInv'
<1> USE DEF PollIInv
<1>1. PollTypeOK'
  <2>1. /\ due' = FALSE /\ more' = FALSE /\ base' = NoHealth /\ mem' = NoMem /\ note' = NoNote
        /\ lag' = 0 /\ sleep' = 0 /\ made' = 0 /\ ids' = {} /\ known' = {} /\ pc' = "top"
        /\ UNCHANGED <<trouble, health, phase, error, blocked, age, shown, old, heard>>
    BY DEF Restart, Fresh, stored
  <2> QED BY <2>1, Values DEF PollTypeOK, Places, InCycle, Families
<1>2. TrustedAreSound'
  BY DEF TrustedAreSound, Trusted, InCycle, Families, stored, clock, config, task, Restart,
         Fresh
<1>3. Noted'
  BY NothingNoted DEF Noted, stored, clock, config, task, Families, Restart, Fresh
<1>4. Gathered'
  BY DEF Gathered, Noted, stored, clock, config, task, Restart, Fresh
<1> QED BY <1>1, <1>2, <1>3, <1>4

\* An iteration either resolves everything anew or starts from what was trusted.
LEMMA ReadStateKeeps == ASSUME PollIInv, ReadState PROVE PollIInv'
<1> USE DEF PollIInv
<1>1. PollTypeOK'
  <2>1. /\ base' = health /\ due' \in BOOLEAN /\ lag' = 0 /\ more' = FALSE
        /\ ids' \in {{}, ids} /\ pc' \in {"telegram", "begin"} /\ (pc' = "begin" => ids' # {})
        /\ UNCHANGED <<trouble, health, phase, error, blocked, age, shown, old, made, sleep, known, note,
                       mem, heard>>
    BY DEF ReadState, Due, stored
  <2> QED BY <2>1, Values DEF PollTypeOK, Places, InCycle, Families
<1>2. TrustedAreSound'
  <2>1. CASE pc' = "telegram"
    BY <2>1, Order DEF TrustedAreSound, Trusted, Families
  <2>2. CASE pc' # "telegram"
    <3>1. Trusted' \subseteq Trusted /\ UNCHANGED <<health, heard, ids, known>>
      BY <2>2, Order DEF PollTypeOK, Trusted, InCycle, Families, stored, task, ReadState
    <3> QED BY <3>1, TrustStays
  <2> QED BY <2>1, <2>2
<1>3. Noted'
  BY NothingNoted DEF Noted, stored, clock, config, task, Families, ReadState, Due
<1>4. Gathered'
  BY DEF Gathered, Noted, stored, clock, config, task, ReadState, Due
<1> QED BY <1>1, <1>2, <1>3, <1>4

\* Nothing was touched.
LEMMA ReadStateFailsKeeps == ASSUME PollIInv, ReadStateFails PROVE PollIInv'
<1> USE DEF PollIInv
<1>1. PollTypeOK'
  BY FamiliesConfigured, Values DEF PollTypeOK, stored, clock, config, task, ReadStateFails, Rest,
         Places, InCycle, Families
<1>2. TrustedAreSound'
  <2>1. Trusted' \subseteq Trusted
    BY Order DEF PollTypeOK, Trusted, InCycle, Families, stored, clock, config, task,
           ReadStateFails, Rest
  <2> QED BY <2>1, TrustStays DEF stored, config, task, ReadStateFails, Rest
<1>3. Noted'
  BY NothingNoted DEF Noted, stored, clock, config, task, Families, ReadStateFails, Rest
<1>4. Gathered'
  BY DEF Gathered, Noted, stored, clock, config, task, ReadStateFails, Rest
<1> QED BY <1>1, <1>2, <1>3, <1>4

\* Only the sources of the skipped family leave the mappings.
LEMMA SkipFamilyKeeps == ASSUME PollIInv, NEW f \in Families, SkipFamily(f) PROVE PollIInv'
<1> USE DEF PollIInv
<1>0. NextFamily[f] \in Families \cup {"resolved"}
  BY Order
<1>1. PollTypeOK'
  BY <1>0, PlacesOfFamilies DEF PollTypeOK, stored, clock, config, task, SkipFamily
<1>2. TrustedAreSound'
  <2>1. Trusted = Before(f) /\ Trusted' \subseteq Before(f) \cup {f}
    BY <1>0, Order, PlacesOfFamilies DEF Trusted, SkipFamily
  <2>2. ASSUME NEW g \in Trusted' \cap Configured PROVE Sound(g)'
    <3>1. g # f /\ g \in Families /\ Sound(g)
      BY <2>1, FamiliesConfigured DEF TrustedAreSound, SkipFamily
    <3>2. SourcesOf(g) \cap known \subseteq known'
      BY <3>1, Apart DEF SkipFamily
    <3> QED BY <3>1, <3>2, SoundStays DEF SkipFamily, stored
  <2> QED BY <2>2 DEF TrustedAreSound
<1>3. Noted'
  BY <1>0, NothingNoted, PlacesOfFamilies DEF Noted, SkipFamily
<1>4. Gathered'
  BY <1>0, PlacesOfFamilies DEF Gathered, SkipFamily, InCycle
<1> QED BY <1>1, <1>2, <1>3, <1>4

\* The family has its sources in the lists before its health is recorded.
LEMMA ResolveFamilyKeeps == ASSUME PollIInv, NEW f \in Families, ResolveFamily(f) PROVE PollIInv'
<1> USE DEF PollIInv
<1>1. PollTypeOK'
  <2>1. note' # NoNote => note'.of \in Configured
    BY DEF ResolveFamily, Record
  <2>2. ids' \subseteq Sources /\ known' \subseteq Mapped /\ heard' \subseteq Configured
    BY Apart DEF PollTypeOK, ResolveFamily, Record, config
  <2>3. pc' \in Places /\ pc' \notin InCycle \cup {"begin"}
    BY DEF ResolveFamily, Record, Places, InCycle, Families
  <2> QED BY <2>1, <2>2, <2>3 DEF PollTypeOK, stored, clock, ResolveFamily
<1>2. TrustedAreSound'
  <2>1. pc = f /\ note'.of = f /\ pc' = "record"
    BY DEF ResolveFamily, Record
  <2>2. Trusted = Before(f) /\ Trusted' = Before(f)
    BY <2>1, PlacesOfFamilies DEF Trusted, Families
  <2>3. ASSUME NEW g \in Trusted' \cap Configured PROVE Sound(g)'
    <3>1. g # f /\ g \in Families /\ Sound(g)
      BY <2>2, Order, FamiliesConfigured DEF TrustedAreSound, Families
    <3> QED BY <3>1, SoundStays DEF ResolveFamily, Record, stored, config
  <2> QED BY <2>3 DEF TrustedAreSound
<1>3. Noted'
  <2>1. pc' = "record" /\ f \in Configured
    BY DEF ResolveFamily, Record
  <2>2. CASE f = "xpoz" => Reader
    <3>1. note' = [of |-> f, as |-> "ok", handler |-> FALSE] /\ f \in heard'
      BY <2>2 DEF ResolveFamily, Record
    <3>2. SourcesOf(f) \subseteq ids' /\ SourcesOf(f) \cap Mapped \subseteq known'
      BY <2>2 DEF ResolveFamily
    <3> QED BY <2>1, <2>2, <3>1, <3>2 DEF Noted, NoNote
  <2>3. CASE ~(f = "xpoz" => Reader)
    <3>1. note' = [of |-> f, as |-> "unavailable", handler |-> TRUE]
      BY <2>3 DEF ResolveFamily, Record
    <3> QED BY <2>1, <3>1 DEF Noted, NoNote
  <2> QED BY <2>2, <2>3
<1>4. Gathered'
  BY DEF Gathered, Noted, stored, clock, config, task, ResolveFamily, Record
<1> QED BY <1>1, <1>2, <1>3, <1>4

\* The families before Telegram are none.
LEMMA ResolveTelegramFailsKeeps == ASSUME PollIInv, ResolveTelegramFails PROVE PollIInv'
<1> USE DEF PollIInv
<1>1. PollTypeOK'
  BY FamiliesConfigured, Values DEF PollTypeOK, stored, clock, config, task, ResolveTelegramFails,
         Record, Places, InCycle, Families
<1>2. TrustedAreSound'
  BY Order, SoundStays, Apart, FamiliesConfigured DEF PollTypeOK, TrustedAreSound, Noted, Trusted,
         InCycle, Families, stored, clock, config, task, ResolveTelegramFails, Record
<1>3. Noted'
  BY Apart DEF Noted, NoNote, Families, stored, clock, config, task, ResolveTelegramFails,
         Record
<1>4. Gathered'
  BY DEF Gathered, Noted, stored, clock, config, task, ResolveTelegramFails, Record
<1> QED BY <1>1, <1>2, <1>3, <1>4

\* The families before a failed feed keep what they have.
LEMMA ResolveFeedFailsKeeps == ASSUME PollIInv, NEW f \in Families, ResolveFeedFails(f) PROVE PollIInv'
<1> USE DEF PollIInv
<1>1. PollTypeOK'
  BY FamiliesConfigured, Values DEF PollTypeOK, stored, clock, config, task, ResolveFeedFails,
         Record, Places, InCycle, Families
<1>2. TrustedAreSound'
  <2>1. pc = f /\ note'.of = f /\ pc' = "record"
    BY DEF ResolveFeedFails, Record
  <2>2. Trusted = Before(f) /\ Trusted' = Before(f)
    BY <2>1, PlacesOfFamilies DEF Trusted, Families
  <2>3. ASSUME NEW g \in Trusted' \cap Configured PROVE Sound(g)'
    <3>1. g # f /\ g \in Families /\ Sound(g)
      BY <2>2, Order, FamiliesConfigured DEF TrustedAreSound, Families
    <3> QED BY <3>1, SoundStays DEF ResolveFeedFails, Record, stored, config
  <2> QED BY <2>3 DEF TrustedAreSound
<1>3. Noted'
  BY Apart DEF Noted, NoNote, Families, stored, clock, config, task, ResolveFeedFails, Record
<1>4. Gathered'
  BY DEF Gathered, Noted, stored, clock, config, task, ResolveFeedFails, Record
<1> QED BY <1>1, <1>2, <1>3, <1>4

\* Accounts may have joined the list; the families before lose nothing.
LEMMA ResolveXpozFailsKeeps == ASSUME PollIInv, NEW x \in BOOLEAN, ResolveXpozFails(x) PROVE PollIInv'
<1> USE DEF PollIInv
<1>1. PollTypeOK'
  <2>1. ids' \subseteq Sources /\ heard' \subseteq Configured
    BY DEF PollTypeOK, ResolveXpozFails, Record, Sources, Mapped
  <2>2. pc' \in Places /\ pc' \notin InCycle \cup {"begin"} /\ note'.of \in Configured
    BY DEF ResolveXpozFails, Record, Places, InCycle, Families
  <2> QED BY <2>1, <2>2 DEF PollTypeOK, stored, clock, ResolveXpozFails
<1>2. TrustedAreSound'
  <2>1. pc = "xpoz" /\ note'.of = "xpoz" /\ pc' = "record"
    BY DEF ResolveXpozFails, Record
  <2>2. Trusted = Before("xpoz") /\ Trusted' = Before("xpoz")
    BY <2>1, PlacesOfFamilies DEF Trusted, Families
  <2>3. ASSUME NEW g \in Trusted' \cap Configured PROVE Sound(g)'
    <3>1. g # "xpoz" /\ g \in Families /\ Sound(g)
      BY <2>2, Order, FamiliesConfigured DEF TrustedAreSound, Families
    <3> QED BY <3>1, SoundStays DEF ResolveXpozFails, Record, stored, config
  <2> QED BY <2>3 DEF TrustedAreSound
<1>3. Noted'
  BY Apart DEF Noted, NoNote, Families, stored, clock, config, task, ResolveXpozFails, Record
<1>4. Gathered'
  BY DEF Gathered, Noted, stored, clock, config, task, ResolveXpozFails, Record
<1> QED BY <1>1, <1>2, <1>3, <1>4

\* The recorded family joins the trusted; the handler takes no other family's mapping.
LEMMA RecordHealthKeeps == ASSUME PollIInv, RecordHealth PROVE PollIInv'
<1> USE DEF PollIInv
<1>0. /\ note.of \in Families /\ note.as \in {"ok", "unavailable"}
      /\ NextFamily[note.of] \in Families \cup {"resolved"}
  BY FamiliesConfigured, Order DEF Noted, RecordHealth
<1>1. PollTypeOK'
  <2>1. health' \in [Families -> {"none", "ok", "unavailable"}]
    BY <1>0 DEF PollTypeOK, RecordHealth
  <2>2. known' \subseteq Mapped
    BY DEF PollTypeOK, RecordHealth, Unmapped
  <2> QED BY <1>0, <2>1, <2>2, PlacesOfFamilies DEF PollTypeOK, RecordHealth, clock
<1>2. TrustedAreSound'
  <2>1. Trusted = Before(note.of) /\ Trusted' = Before(note.of) \cup {note.of}
    BY <1>0, Order, PlacesOfFamilies DEF Trusted, RecordHealth, Families
  <2>2. ASSUME NEW g \in Trusted' \cap Configured, g # note.of PROVE Sound(g)'
    <3>1. g \in Families /\ Sound(g) /\ health'[g] = health[g]
      BY <2>1, <2>2, FamiliesConfigured DEF TrustedAreSound, RecordHealth, PollTypeOK
    <3>2. SourcesOf(g) \cap known \subseteq known'
      BY <1>0, <2>2, <3>1, Apart DEF RecordHealth, Unmapped
    <3> QED BY <3>1, <3>2, SoundStays DEF RecordHealth
  <2>3. health'[note.of] = note.as
    BY <1>0 DEF RecordHealth, PollTypeOK
  <2>4. note.as = "ok" => known' = known
    BY DEF Noted, RecordHealth
  <2>5. ASSUME NEW g \in Configured, g = note.of PROVE Sound(g)'
    BY <1>0, <2>3, <2>4, <2>5 DEF Noted, RecordHealth, Sound
  <2> QED BY <2>2, <2>5 DEF TrustedAreSound
<1>3. Noted'
  BY <1>0, NothingNoted, PlacesOfFamilies DEF RecordHealth
<1>4. Gathered'
  BY <1>0, PlacesOfFamilies DEF Gathered, RecordHealth, InCycle
<1> QED BY <1>1, <1>2, <1>3, <1>4

\* The record turns into the handler's.
LEMMA RecordFailsKeeps == ASSUME PollIInv, RecordFails PROVE PollIInv'
<1> USE DEF PollIInv
<1>0. note' = [of |-> note.of, as |-> "unavailable", handler |-> TRUE] /\ note.of \in Configured
  BY DEF Noted, RecordFails
<1>1. PollTypeOK'
  BY <1>0 DEF PollTypeOK, stored, clock, config, task, RecordFails
<1>2. TrustedAreSound'
  BY <1>0, TrustStays DEF Trusted, config, stored, RecordFails
<1>3. Noted'
  <2>1. pc' = "record"
    BY DEF RecordFails
  <2> QED BY <1>0, <2>1 DEF Noted, NoNote
<1>4. Gathered'
  BY DEF Gathered, Noted, stored, clock, config, task, RecordFails
<1> QED BY <1>1, <1>2, <1>3, <1>4

\* A task that is down trusts nothing.
LEMMA HandlerFailsKeeps == ASSUME PollIInv, HandlerFails PROVE PollIInv'
<1> USE DEF PollIInv
<1>1. PollTypeOK'
  BY FamiliesConfigured, Values DEF Noted, PollTypeOK, stored, clock, config, task, HandlerFails,
         Rest, Places, InCycle, Families
<1>2. TrustedAreSound'
  BY DEF TrustedAreSound, Trusted, InCycle, Families, stored, clock, config, task, HandlerFails,
         Rest
<1>3. Noted'
  BY NothingNoted DEF Noted, stored, clock, config, task, Families, HandlerFails, Rest
<1>4. Gathered'
  BY DEF Gathered, Noted, stored, clock, config, task, HandlerFails, Rest
<1> QED BY <1>1, <1>2, <1>3, <1>4

\* The stale health is written back only where no list is left to trust.
LEMMA NoSourcesKeeps == ASSUME PollIInv, NoSources PROVE PollIInv'
<1> USE DEF PollIInv
<1>1. PollTypeOK'
  <2>1. {health', base'} \subseteq [Families -> {"none", "ok", "unavailable"}]
    <3>1. health' \in {health, base} /\ base' = NoHealth
      BY DEF NoSources
    <3> QED BY <3>1, Values DEF PollTypeOK
  <2>2. phase' \in Phases /\ error' \in Errors
    BY DEF PollTypeOK, NoSources, Phases, Errors
  <2>3. pc' \in Places /\ pc' \notin InCycle \cup {"begin"}
    BY DEF NoSources, Rest, Places, InCycle
  <2>4. sleep' \in 0 .. Poll /\ lag' \in 0 .. Poll
    BY Values DEF NoSources, Rest
  <2>5. made' = made
    BY DEF NoSources, Rest
  <2> QED BY <2>1, <2>2, <2>3, <2>4, <2>5 DEF PollTypeOK, config, NoSources
<1>2. TrustedAreSound'
  BY DEF TrustedAreSound, Trusted, InCycle, Families, stored, clock, config, task, NoSources,
         Rest
<1>3. Noted'
  BY NothingNoted DEF Noted, stored, clock, config, task, Families, NoSources, Rest
<1>4. Gathered'
  BY DEF Gathered, Noted, stored, clock, config, task, NoSources, Rest
<1> QED BY <1>1, <1>2, <1>3, <1>4

\* The cycle may begin.
LEMMA SomeSourcesKeeps == ASSUME PollIInv, SomeSources PROVE PollIInv'
<1> USE DEF PollIInv
<1>1. PollTypeOK'
  BY FamiliesConfigured, Values DEF PollTypeOK, stored, clock, config, task, SomeSources, Places,
         InCycle, Families
<1>2. TrustedAreSound'
  <2>1. Trusted' \subseteq Trusted
    BY Order DEF PollTypeOK, Trusted, InCycle, Families, stored, clock, config, task, SomeSources
  <2> QED BY <2>1, TrustStays DEF stored, config, task, SomeSources
<1>3. Noted'
  BY NothingNoted DEF Noted, stored, clock, config, task, Families, SomeSources
<1>4. Gathered'
  BY DEF Gathered, Noted, stored, clock, config, task, SomeSources
<1> QED BY <1>1, <1>2, <1>3, <1>4

\* The cycle's first write keeps the recorded health.
LEMMA BeginKeeps == ASSUME PollIInv, Begin PROVE PollIInv'
<1> USE DEF PollIInv
<1>1. PollTypeOK'
  BY FamiliesConfigured, Values DEF PollTypeOK, stored, clock, config, task, Begin, Write,
         BeginHealth, BeginCopy, Places, InCycle, Families, Phases
<1>2. TrustedAreSound'
  <2>1. Trusted' \subseteq Trusted
    BY Order DEF PollTypeOK, Trusted, InCycle, Families, stored, clock, config, task, Begin, Write,
           BeginHealth, BeginCopy
  <2> QED BY <2>1, TrustStays DEF stored, config, task, Begin, Write, BeginHealth, BeginCopy
<1>3. Noted'
  BY NothingNoted DEF Noted, stored, clock, config, task, Families, Begin, Write, BeginHealth,
         BeginCopy
<1>4. Gathered'
  BY DEF Gathered, Noted, stored, clock, config, task, Begin, Write, BeginHealth, BeginCopy
<1> QED BY <1>1, <1>2, <1>3, <1>4

\* Nothing was written.
LEMMA BeginFailsKeeps == ASSUME PollIInv, BeginFails PROVE PollIInv'
<1> USE DEF PollIInv
<1>1. PollTypeOK'
  BY FamiliesConfigured, Values DEF PollTypeOK, stored, clock, config, task, BeginFails, Places,
         InCycle, Families
<1>2. TrustedAreSound'
  <2>1. Trusted' \subseteq Trusted
    BY Order DEF PollTypeOK, Trusted, InCycle, Families, stored, clock, config, task, BeginFails
  <2> QED BY <2>1, TrustStays DEF stored, config, task, BeginFails
<1>3. Noted'
  BY NothingNoted DEF Noted, stored, clock, config, task, Families, BeginFails
<1>4. Gathered'
  BY DEF Gathered, Noted, stored, clock, config, task, BeginFails
<1> QED BY <1>1, <1>2, <1>3, <1>4

\* Each source by the reader its mapping names.
LEMMA CollectKeeps == ASSUME PollIInv, Collect PROVE PollIInv'
<1> USE DEF PollIInv
<1>1. PollTypeOK'
  BY FamiliesConfigured, Values DEF PollTypeOK, stored, clock, config, task, Collect, Places,
         InCycle, Families
<1>2. TrustedAreSound'
  <2>1. Trusted' \subseteq Trusted
    BY Order DEF PollTypeOK, Trusted, InCycle, Families, stored, clock, config, task, Collect
  <2> QED BY <2>1, TrustStays DEF stored, config, task, Collect
<1>3. Noted'
  BY NothingNoted DEF Noted, stored, clock, config, task, Families, Collect
<1>4. Gathered'
  BY DEF Gathered, Collection, stored, clock, config, task, Collect
<1> QED BY <1>1, <1>2, <1>3, <1>4

\* The lists and the reads are as the collection left them.
LEMMA IngestedKeeps == ASSUME PollIInv, Ingested PROVE PollIInv'
<1> USE DEF PollIInv
<1>1. PollTypeOK'
  <2>1. /\ mem' \in [phase : Phases, error : Errors, blocked : BOOLEAN, collected : BOOLEAN]
        /\ mem' = [mem EXCEPT !.phase = "analyze", !.collected = due]
    BY DEF PollTypeOK, Ingested, Phases
  <2>2. phase' \in Phases /\ error' \in Errors /\ blocked' \in BOOLEAN /\ age' \in -1 .. Poll
    <3>1. /\ phase' \in {phase, mem'.phase} /\ error' \in {error, mem'.error}
          /\ blocked' \in {blocked, mem'.blocked} /\ age' \in {lag, age}
      BY DEF Ingested, Write
    <3> QED BY <2>1, <3>1, Values DEF PollTypeOK
  <2>3. ids # {} /\ pc' \in Places
    BY DEF PollTypeOK, Ingested, Places, InCycle
  <2>4. shown' \in BOOLEAN /\ old' \in Ages
    <3>1. PICK restored \in {FALSE, shown}, aged \in Ages : Display(restored, aged)
      BY DEF Ingested
    <3>2. restored \in BOOLEAN
      BY DEF PollTypeOK
    <3> QED BY <3>1, <3>2, DisplayTyped
  <2>5. UNCHANGED <<trouble, health, due, clock, config, base, note, more, heard>>
    BY DEF Ingested
  <2> QED BY <2>1, <2>2, <2>3, <2>4, <2>5 DEF PollTypeOK, clock, config
<1>2. TrustedAreSound'
  <2>1. Trusted' \subseteq Trusted
    BY Order DEF PollTypeOK, Trusted, InCycle, Families, stored, clock, config, task, Ingested,
           Write
  <2> QED BY <2>1, TrustStays DEF stored, config, task, Ingested, Write
<1>3. Noted'
  BY NothingNoted DEF Noted, stored, clock, config, task, Families, Ingested, Write
<1>4. Gathered'
  BY DEF Gathered, Collection, stored, clock, config, task, Ingested, Write
<1> QED BY <1>1, <1>2, <1>3, <1>4

\* The lists and the reads are as the collection left them.
LEMMA AnalyzeKeeps == ASSUME PollIInv, Analyze PROVE PollIInv'
<1> USE DEF PollIInv
<1>1. PollTypeOK'
  <2>1. /\ mem' \in [phase : Phases, error : Errors, blocked : BOOLEAN, collected : BOOLEAN]
        /\ Write(mem')
    BY DEF PollTypeOK, Analyze, Phases
  <2>2. phase' \in Phases /\ error' \in Errors /\ blocked' \in BOOLEAN /\ age' \in -1 .. Poll
    BY <2>1, Values DEF PollTypeOK, Write
  <2>3. ids # {} /\ pc' \in Places
    BY DEF PollTypeOK, Analyze, Places, InCycle
  <2>4. shown' \in BOOLEAN /\ old' \in Ages
    BY DisplayTyped DEF Analyze
  <2>5. UNCHANGED <<trouble, health, due, clock, config, base, note, more, heard>>
    BY DEF Analyze
  <2> QED BY <2>1, <2>2, <2>3, <2>4, <2>5 DEF PollTypeOK, clock, config
<1>2. TrustedAreSound'
  <2>1. Trusted' \subseteq Trusted
    BY Order DEF PollTypeOK, Trusted, InCycle, Families, stored, clock, config, task, Analyze, Write
  <2> QED BY <2>1, TrustStays DEF stored, config, task, Analyze, Write
<1>3. Noted'
  BY NothingNoted DEF Noted, stored, clock, config, task, Families, Analyze, Write
<1>4. Gathered'
  BY DEF Gathered, Collection, stored, clock, config, task, Analyze, Write
<1> QED BY <1>1, <1>2, <1>3, <1>4

\* The report moves no source.
LEMMA FinishKeeps == ASSUME PollIInv, NEW r \in BOOLEAN, NEW p \in BOOLEAN, Finish(r, p) PROVE PollIInv'
<1> USE DEF PollIInv
<1>1. PollTypeOK'
  <2>1. /\ mem' \in [phase : Phases, error : Errors, blocked : BOOLEAN, collected : BOOLEAN]
        /\ Write(mem')
    BY DEF PollTypeOK, Finish, Phases, Errors
  <2>2. phase' \in Phases /\ error' \in Errors /\ blocked' \in BOOLEAN /\ age' \in -1 .. Poll
    BY <2>1, Values DEF PollTypeOK, Write
  <2>3. ids # {} /\ pc' \in Places /\ more' \in BOOLEAN
    BY DEF PollTypeOK, Finish, Places, InCycle
  <2>4. shown' \in BOOLEAN /\ old' \in Ages
    <3>1. Display(p, made) /\ made \in Ages
      BY DEF Finish, PollTypeOK
    <3> QED BY <3>1, DisplayTyped
  <2>5. /\ UNCHANGED <<trouble, health, due, lag, sleep, config, base, note, heard>>
        /\ made' \in Ages
    BY Values DEF Finish
  <2> QED BY <2>1, <2>2, <2>3, <2>4, <2>5 DEF PollTypeOK, config
<1>2. TrustedAreSound'
  <2>1. Trusted' \subseteq Trusted
    BY Order DEF PollTypeOK, Trusted, InCycle, Families, stored, clock, config, task, Finish, Write
  <2> QED BY <2>1, TrustStays DEF stored, config, task, Finish, Write
<1>3. Noted'
  BY NothingNoted DEF Noted, stored, clock, config, task, Families, Finish, Write
<1>4. Gathered'
  BY DEF Gathered, Noted, stored, clock, config, task, Finish, Write
<1> QED BY <1>1, <1>2, <1>3, <1>4

\* An exception moves no source.
LEMMA CycleFailsKeeps == ASSUME PollIInv, NEW e \in {"failed", "budget"}, CycleFails(e) PROVE PollIInv'
<1> USE DEF PollIInv
<1>1. PollTypeOK'
  <2>1. mem' \in [phase : Phases, error : Errors, blocked : BOOLEAN, collected : BOOLEAN]
    BY ExcuseTyped DEF PollTypeOK, CycleFails
  <2>2. ids # {} /\ pc' \in Places
    BY DEF PollTypeOK, CycleFails, Places, InCycle
  <2>3. shown' \in BOOLEAN /\ old' \in Ages
    BY DisplayTyped DEF CycleFails
  <2>4. /\ UNCHANGED <<trouble, health, phase, error, blocked, age, due, lag, sleep, config, base,
                       note, more, heard>>
        /\ made' \in Ages
    BY Values DEF CycleFails
  <2> QED BY <2>1, <2>2, <2>3, <2>4 DEF PollTypeOK, config
<1>2. TrustedAreSound'
  <2>1. Trusted' \subseteq Trusted
    BY Order DEF PollTypeOK, Trusted, InCycle, Families, stored, clock, config, task, CycleFails,
           Excuse
  <2> QED BY <2>1, TrustStays DEF stored, config, task, CycleFails, Excuse
<1>3. Noted'
  BY NothingNoted DEF Noted, stored, clock, config, task, Families, CycleFails, Excuse
<1>4. Gathered'
  BY DEF Gathered, Noted, stored, clock, config, task, CycleFails, Excuse
<1> QED BY <1>1, <1>2, <1>3, <1>4

\* The handlers' write moves no source.
LEMMA WriteExcuseKeeps == ASSUME PollIInv, WriteExcuse PROVE PollIInv'
<1> USE DEF PollIInv
<1>1. PollTypeOK'
  <2> DEFINE m == IF mem.phase = "analyze" THEN Excuse("failed") ELSE mem
  <2>1. m \in [phase : Phases, error : Errors, blocked : BOOLEAN, collected : BOOLEAN]
    BY ExcuseTyped DEF PollTypeOK
  <2>2. phase' \in Phases /\ error' \in Errors /\ blocked' \in BOOLEAN /\ age' \in -1 .. Poll
    BY <2>1, Values DEF PollTypeOK, WriteExcuse, Write
  <2>3. ids # {} /\ pc' \in Places
    BY DEF PollTypeOK, WriteExcuse, Places, InCycle
  <2> QED BY <2>2, <2>3 DEF PollTypeOK, clock, config, WriteExcuse
<1>2. TrustedAreSound'
  <2>1. Trusted' \subseteq Trusted
    BY Order DEF PollTypeOK, Trusted, InCycle, Families, stored, clock, config, task, WriteExcuse,
           Write, Excuse
  <2> QED BY <2>1, TrustStays DEF stored, config, task, WriteExcuse, Write, Excuse
<1>3. Noted'
  BY NothingNoted DEF Noted, stored, clock, config, task, Families, WriteExcuse, Write, Excuse
<1>4. Gathered'
  BY DEF Gathered, Noted, stored, clock, config, task, WriteExcuse, Write, Excuse
<1> QED BY <1>1, <1>2, <1>3, <1>4

\* The next iteration starts from the lists this one used.
LEMMA GoOnKeeps == ASSUME PollIInv, GoOn PROVE PollIInv'
<1> USE DEF PollIInv
<1>1. PollTypeOK'
  BY FamiliesConfigured, Values DEF PollTypeOK, stored, clock, config, task, GoOn, Places, InCycle,
         Families
<1>2. TrustedAreSound'
  <2>1. Trusted' \subseteq Trusted
    BY Order DEF PollTypeOK, Trusted, InCycle, Families, stored, clock, config, task, GoOn
  <2> QED BY <2>1, TrustStays DEF stored, config, task, GoOn
<1>3. Noted'
  BY NothingNoted DEF Noted, stored, clock, config, task, Families, GoOn
<1>4. Gathered'
  BY DEF Gathered, Noted, stored, clock, config, task, GoOn
<1> QED BY <1>1, <1>2, <1>3, <1>4

\* So does the one after the sleep.
LEMMA GoToSleepKeeps == ASSUME PollIInv, GoToSleep PROVE PollIInv'
<1> USE DEF PollIInv
<1>1. PollTypeOK'
  <2>1. sleep' \in 0 .. Poll /\ lag' = 0 /\ pc' = "asleep" /\ made' = made
    BY RemainingTyped, Values DEF PollTypeOK, GoToSleep, Rest
  <2> QED BY <2>1, Values DEF PollTypeOK, stored, config, GoToSleep, Places, InCycle
<1>2. TrustedAreSound'
  <2>1. Trusted' \subseteq Trusted
    BY Order DEF PollTypeOK, Trusted, InCycle, Families, stored, clock, config, task, GoToSleep,
           Rest, Remaining, Least1
  <2> QED BY <2>1, TrustStays DEF stored, config, task, GoToSleep, Rest, Remaining, Least1
<1>3. Noted'
  BY NothingNoted DEF Noted, stored, clock, config, task, Families, GoToSleep, Rest, Remaining,
         Least1
<1>4. Gathered'
  BY DEF Gathered, Noted, stored, clock, config, task, GoToSleep, Rest, Remaining, Least1
<1> QED BY <1>1, <1>2, <1>3, <1>4

-----------------------------------------------------------------------------
(* The invariant, and what follows.                                        *)

\* Nothing is resolved to begin with.
LEMMA PollInitInv == PollInit => PollIInv
<1> SUFFICES ASSUME PollInit PROVE PollIInv
  OBVIOUS
<1>1. PollTypeOK
  BY Values DEF PollInit, PollTypeOK, Places, Phases, Errors, InCycle, Families
<1>2. Trusted = {}
  BY DEF PollInit, Trusted, Families
<1> QED BY <1>1, <1>2 DEF PollInit, PollIInv, TrustedAreSound, Noted, Gathered, NoNote

\* The groups of actions.
LEMMA ResolveKeeps == ASSUME PollIInv, Resolve PROVE PollIInv'
  BY SkipFamilyKeeps, ResolveFamilyKeeps DEF Resolve

\* run_cycle.
LEMMA CycleKeeps == ASSUME PollIInv, Cycle PROVE PollIInv'
  BY BeginKeeps, CollectKeeps, IngestedKeeps, AnalyzeKeeps, FinishKeeps, WriteExcuseKeeps,
     GoOnKeeps, GoToSleepKeeps DEF Cycle

\* What the task does when nothing raises.
LEMMA TaskKeeps == ASSUME PollIInv, Task PROVE PollIInv'
  BY WakeUpKeeps, RestartKeeps, ReadStateKeeps, ResolveKeeps, RecordHealthKeeps, NoSourcesKeeps,
     SomeSourcesKeeps, CycleKeeps DEF Task

\* What happens to it.
LEMMA FailureKeeps == ASSUME PollIInv, Failure PROVE PollIInv'
<1>1. ASSUME NEW f \in {"rss", "reddit"}, ResolveFeedFails(f) PROVE PollIInv'
  BY <1>1, ResolveFeedFailsKeeps DEF Families
<1> QED
  BY <1>1, ReadStateFailsKeeps, ResolveTelegramFailsKeeps, RecordFailsKeeps, HandlerFailsKeeps,
     BeginFailsKeeps, ResolveXpozFailsKeeps, CycleFailsKeeps DEF Failure

\* Every step keeps the invariant.
LEMMA StepInv == PollIInv /\ [PollNext]_pollVars => PollIInv'
<1> SUFFICES ASSUME PollIInv, [PollNext]_pollVars PROVE PollIInv'
  OBVIOUS
<1>1. CASE UNCHANGED pollVars
  <2> USE <1>1 DEF PollIInv, pollVars, stored, clock, config, task
  <2>1. PollTypeOK'
    BY DEF PollTypeOK
  <2>2. TrustedAreSound'
    BY TrustStays DEF Trusted
  <2>3. Noted'
    BY DEF Noted
  <2>4. Gathered'
    BY DEF Gathered, Collection
  <2> QED BY <2>1, <2>2, <2>3, <2>4
<1> QED BY <1>1, TickKeeps, UpsetKeeps, HealKeeps, CrashKeeps, TaskKeeps, FailureKeeps DEF PollNext

\* The invariant holds throughout.
THEOREM Invariance == PollSpec => []PollIInv
<1> QED BY PollInitInv, StepInv, PTL DEF PollSpec

\* While a cycle runs, every family /healthz calls ok was resolved by the last
\* attempt (cli.py, _agenda_poll).
THEOREM HealthEarned == PollSpec => []HealthIsEarned
<1>1. PollIInv => HealthIsEarned
  <2> SUFFICES ASSUME PollIInv, pc \in InCycle, NEW f \in Configured, health[f] = "ok" PROVE f \in heard
    BY DEF HealthIsEarned
  <2>1. Trusted = Families
    BY DEF Trusted, InCycle, Families
  <2> QED BY <2>1, FamiliesConfigured DEF PollIInv, TrustedAreSound, Sound
<1> QED BY <1>1, Invariance, PTL

\* After a due collection, every family /healthz calls ok has been read through
\* its own reader (cli.py, _collect_cycle over the mappings).
THEOREM CollectedByReader == PollSpec => []CollectedByItsReader
<1>1. PollIInv => CollectedByItsReader
  <2> SUFFICES ASSUME PollIInv, pc \in {"ingested", "analyze", "finish"}, due,
                      NEW f \in Configured, health[f] = "ok"
               PROVE  {<<s, s>> : s \in SourcesOf(f)} \subseteq reads
    BY DEF CollectedByItsReader, PollIInv
  <2>1. Trusted = Families /\ reads = Collection
    BY DEF PollIInv, Gathered, Trusted, InCycle, Families
  <2>2. f \in Families /\ Sound(f) /\ known \subseteq Mapped
    BY <2>1, FamiliesConfigured DEF PollIInv, TrustedAreSound, PollTypeOK
  <2>3. CASE f = "telegram"
    BY <2>1, <2>2, <2>3 DEF Sound, SourcesOf, Collection, Mapped
  <2>4. CASE f \in {"rss", "reddit"}
    BY <2>1, <2>2, <2>4 DEF Sound, SourcesOf, Collection, Mapped
  <2>5. CASE f = "xpoz"
    BY <2>1, <2>2, <2>5 DEF Sound, SourcesOf, Collection, Mapped
  <2> QED BY <2>2, <2>3, <2>4, <2>5 DEF Families
<1> QED BY <1>1, Invariance, PTL

-----------------------------------------------------------------------------
(* The ledger.  That the limit bounds the charges rests on Committed: what *)
(* reserve let in never exceeded the limit, and only what has left the     *)
(* books since, by a release or by a settlement above the reservation, may *)
(* come on top.                                                            *)

\* A response in hand was charged for, and its row is still open; a row that
\* settled belongs to a call that has come to its end.
CallState ==
    /\ \A c \in Calls : caller[c] = "returned" => c \in charged
    /\ \A c \in Calls : row[c].settled => caller[c] = "done"
    /\ \A c \in Calls : caller[c] \in {"idle", "entered", "refused"} => c \notin Rows
    /\ \A c \in Calls : c \notin Rows => row[c] = NoRow

IInv == TypeOK /\ LedgerFollowsProvider /\ CallState

\* The first day of the clock is a day.
LEMMA FirstDay == Day(0) \in Days
  BY ClockNat DEF Days

\* No rows and no calls to begin with.
LEMMA InitInv == Init => IInv
  BY AmountsNat, ClockNat, FirstDay
     DEF Init, IInv, TypeOK, LedgerFollowsProvider, CallState, Rows, NoRow, InFlight, Outcomes,
         Failures

\* reserve writes a row for a call that had none, and releases open rows only.
LEMMA ReserveKeeps == ASSUME IInv, NEW c \in Calls, Reserve(c) PROVE IInv'
<1> DEFINE R == Unknown(day[c])
<1>1. R \subseteq Rows /\ \A r \in R : ~ row[r].settled
  BY DEF Unknown
<1>2. c \notin Rows /\ c \notin R
  BY <1>1 DEF IInv, CallState, Reserve
<1>3. row' = [b \in Calls |->
                IF b = c THEN [outcome |-> "active", day |-> day[c], created |-> now,
                               amount |-> Reservation, settled |-> FALSE]
                ELSE IF b \in R THEN [row[b] EXCEPT !.amount = 0, !.outcome = "released_unknown"]
                ELSE row[b]]
  BY DEF Reserve, Release
<1>4. released' = released \cup R /\ R \subseteq Calls /\ released \subseteq Calls
  BY <1>1 DEF Reserve, Rows, IInv, TypeOK
<1> HIDE DEF R
<1>5. row' \in [Calls -> [outcome : Outcomes, day : Days, created : 0 .. MaxTime,
                          amount : Nat, settled : BOOLEAN]]
  <2> DEFINE Row == [outcome : Outcomes, day : Days, created : 0 .. MaxTime,
                     amount : Nat, settled : BOOLEAN]
  <2>1. [outcome |-> "active", day |-> day[c], created |-> now,
         amount |-> Reservation, settled |-> FALSE] \in Row
    BY AmountsNat DEF IInv, TypeOK, Outcomes
  <2>2. ASSUME NEW b \in Calls
        PROVE  [row[b] EXCEPT !.amount = 0, !.outcome = "released_unknown"] \in Row /\ row[b] \in Row
    BY DEF IInv, TypeOK, Outcomes
  <2> HIDE DEF Row
  <2>3. row' \in [Calls -> Row]
    BY <1>3, <2>1, <2>2
  <2> QED BY <2>3 DEF Row
<1>6. \A b \in Calls : row'[b].outcome = IF b = c THEN "active"
                                         ELSE IF b \in R THEN "released_unknown"
                                         ELSE row[b].outcome
  BY <1>3 DEF IInv, TypeOK
<1>7. Rows' = Rows \cup {c}
  BY <1>1, <1>4, <1>6 DEF Rows
<1>8. TypeOK'
  BY <1>1, <1>4, <1>5, <1>7, FirstDay DEF IInv, TypeOK, Reserve, InFlight
<1>9. LedgerFollowsProvider'
  <2>0. Rows \subseteq Calls /\ c \notin Rows
    BY <1>2 DEF Rows
  <2>1. \A b \in Calls : row'[b].settled <=> (b # c /\ row[b].settled)
    BY <1>1, <1>2, <1>3 DEF IInv, TypeOK
  <2>2. \A b \in Calls \ (R \cup {c}) : row'[b] = row[b]
    BY <1>3
  <2>3. row'[c].amount = Reservation
    BY <1>3
  <2> QED
    BY <1>1, <1>4, <1>7, <2>0, <2>1, <2>2, <2>3
       DEF IInv, TypeOK, LedgerFollowsProvider, Reserve, InFlight
<1>10. CallState'
  <2>1. \A b \in Calls : row'[b].settled <=> (b # c /\ row[b].settled)
    BY <1>1, <1>2, <1>3 DEF IInv, TypeOK
  <2>2. \A b \in Calls \ (R \cup {c}) : row'[b] = row[b]
    BY <1>3
  <2>3. \A b \in Calls : b # c => caller'[b] = caller[b]
    BY DEF Reserve
  <2>4. caller'[c] = "calling" /\ charged' = charged /\ caller[c] = "entered"
    BY DEF Reserve, IInv, TypeOK
  <2> QED
    BY <1>1, <1>7, <2>1, <2>2, <2>3, <2>4 DEF IInv, CallState, NoRow
<1> QED BY <1>8, <1>9, <1>10 DEF IInv

\* Every other step changes at most the row of its own call.
LEMMA NextInv == IInv /\ [Next]_vars => IInv'
<1> SUFFICES ASSUME IInv, [Next]_vars PROVE IInv'
  OBVIOUS
<1> USE DEF IInv, TypeOK, LedgerFollowsProvider, CallState, InFlight, Rows
<1>1. CASE Tick
  BY <1>1, ClockNat DEF Tick
<1>2. CASE Crash
  BY <1>2, FirstDay DEF Crash
<1>3. CASE \E c \in Calls : Enter(c)
  BY <1>3 DEF Enter, Days
<1>4. CASE \E c \in Calls : Reserve(c)
  BY <1>4, ReserveKeeps
<1>5. CASE \E c \in Calls : Refuse(c)
  BY <1>5, FirstDay DEF Refuse
<1>6. CASE \E c \in Calls : Respond(c) \/ Raise(c) \/ StoreRaises(c)
  BY <1>6 DEF Respond, Raise, StoreRaises
<1>7. CASE \E c \in Calls : Settle(c)
  BY <1>7 DEF Settle, Outcomes
<1>8. CASE \E c \in Calls, k \in Costs : Charge(c, k)
  BY <1>8, AmountsNat DEF Charge
<1>9. CASE \E c \in Calls, outcome \in Failures \cup {"missing_usage"} : Fail(c, outcome)
  BY <1>9 DEF Fail, Labelled, Outcomes, Failures
<1>10. CASE UNCHANGED vars
  BY <1>10 DEF vars
<1> QED BY <1>1, <1>2, <1>3, <1>4, <1>5, <1>6, <1>7, <1>8, <1>9, <1>10 DEF Next

\* The invariant holds in every reachable state.
THEOREM Invariant == Spec => []IInv
  BY InitInv, NextInv, PTL DEF Spec

\* Reservations precede provider I/O, settled rows are exact, and an open row
\* holds its reservation until it is released.
THEOREM LedgerIsFaithful == Spec => []LedgerFollowsProvider
<1>1. IInv => LedgerFollowsProvider
  BY DEF IInv
<1> QED BY <1>1, Invariant, PTL

\* No step of any caller, crash or release changes a settled row.
THEOREM SettledRowsStay == Spec => SettledIsFinal
<1>1. ASSUME IInv, Next, NEW c \in Calls, row[c].settled PROVE row'[c] = row[c]
  <2> USE <1>1 DEF IInv, TypeOK, CallState
  <2>1. CASE \E b \in Calls : Reserve(b)
    BY <2>1 DEF Reserve, Release, Unknown, Rows
  <2>2. CASE \E b \in Calls : Settle(b)
    BY <2>2 DEF Settle
  <2>3. CASE \E b \in Calls, outcome \in Failures \cup {"missing_usage"} : Fail(b, outcome)
    BY <2>3 DEF Fail, Labelled
  <2>4. CASE UNCHANGED row
    BY <2>4
  <2> QED
    BY <2>1, <2>2, <2>3, <2>4
       DEF Next, Tick, Crash, Enter, Refuse, Respond, Raise, StoreRaises, Charge
<1>2. IInv /\ [Next]_vars => [\A c \in Calls : row[c].settled => row'[c] = row[c]]_vars
  BY <1>1
<1> QED BY <1>2, Invariant, PTL DEF Spec, SettledIsFinal

\* Every variable keeps its type, and no amount of the ledger is negative.
THEOREM TypeCorrect == Spec => []TypeOK
<1>1. IInv => TypeOK
  BY DEF IInv
<1> QED BY <1>1, Invariant, PTL

-----------------------------------------------------------------------------
(* The sums.                                                               *)

RowsOf(d) == {c \in Rows : row[c].day = d}

\* What a call still weighs on its day of what was let in for it.
Kept == [c \in Calls |-> IF c \in released THEN 0
                         ELSE IF row[c].settled /\ row[c].amount < Reservation THEN row[c].amount
                         ELSE Reservation]

\* The calls of a day weigh no more than its limit.
Committed == \A d \in Days : Sum(Kept, RowsOf(d)) <= Limit

\* Sums over rows are sums over a finite set.
LEMMA RowsFinite ==
  ASSUME NEW d PROVE IsFiniteSet(RowsOf(d)) /\ RowsOf(d) \subseteq Calls
  BY CallsFinite, FS_Subset DEF RowsOf, Rows

\* A weight is a natural number, none above the reservation.
LEMMA KeptIs ==
  ASSUME NEW c \in Calls
  PROVE  /\ TypeOK => Kept[c] \in Nat /\ Kept[c] <= Reservation
         /\ TypeOK' => Kept'[c] \in Nat /\ Kept'[c] <= Reservation
  BY AmountsNat DEF TypeOK, Kept

\* A day whose rows are the same and weigh no more stays within the limit.
LEMMA CommittedStays ==
  ASSUME TypeOK, TypeOK', Committed, \A d \in Days : RowsOf(d)' = RowsOf(d),
         \A c \in Rows : Kept'[c] <= Kept[c]
  PROVE  Committed'
<1> SUFFICES ASSUME NEW d \in Days PROVE Sum(Kept', RowsOf(d)) <= Limit
  BY DEF Committed
<1>1. \A c \in RowsOf(d) : Kept[c] \in Nat /\ Kept'[c] \in Nat /\ Kept'[c] <= Kept[c]
  BY KeptIs DEF RowsOf, Rows
<1>2. Sum(Kept', RowsOf(d)) <= Sum(Kept, RowsOf(d))
  BY <1>1, RowsFinite, SumMonotone
<1>3. Sum(Kept, RowsOf(d)) \in Nat /\ Sum(Kept', RowsOf(d)) \in Nat
  BY <1>1, RowsFinite, SumNat
<1> QED BY <1>2, <1>3, AmountsNat DEF Committed

\* reserve lets a call in if what the day weighs leaves room for it.
LEMMA ReserveCommits ==
  ASSUME IInv, IInv', Committed, NEW c \in Calls, Reserve(c) PROVE Committed'
<1> DEFINE R     == Unknown(day[c])
           table == Release(R)
           held  == [b \in Calls |-> table[b].amount]
<1>1. R \subseteq Rows /\ (\A r \in R : ~ row[r].settled) /\ c \notin Rows
  BY DEF Unknown, IInv, CallState, Reserve
<1>2. row' = [table EXCEPT ![c] = [outcome |-> "active", day |-> day[c], created |-> now,
                                   amount |-> Reservation, settled |-> FALSE]]
      /\ released' = released \cup R
  BY DEF Reserve
<1>3. table = [b \in Calls |-> IF b \in R THEN [row[b] EXCEPT !.amount = 0,
                                                               !.outcome = "released_unknown"]
                               ELSE row[b]]
  BY DEF Release
<1>4. \A b \in Calls : /\ table[b].day = row[b].day /\ table[b].settled = row[b].settled
                       /\ table[b].amount = IF b \in R THEN 0 ELSE row[b].amount
                       /\ table[b].outcome = IF b \in R THEN "released_unknown" ELSE row[b].outcome
  BY <1>3 DEF IInv, TypeOK
<1> HIDE DEF table, R
<1>5. row'[c].day = day[c] /\ row'[c].amount = Reservation /\ ~row'[c].settled
      /\ row'[c].outcome = "active" /\ \A b \in Calls : b # c => row'[b] = table[b]
  BY <1>2, <1>3
<1>6. \A b \in Calls : b # c => /\ row'[b].day = row[b].day
                                /\ row'[b].outcome # "none" <=> row[b].outcome # "none"
  BY <1>1, <1>4, <1>5 DEF Rows
<1>7. \A d : RowsOf(d)' = IF d = day[c] THEN RowsOf(d) \cup {c} ELSE RowsOf(d)
  BY <1>1, <1>5, <1>6 DEF RowsOf, Rows
<1>8. ASSUME NEW b \in Rows
      PROVE  /\ Kept[b] \in Nat /\ Kept'[b] \in Nat /\ held[b] \in Nat
             /\ Kept'[b] <= Kept[b] /\ Kept'[b] <= held[b]
  <2>1. b \in Calls /\ b # c /\ row[b].amount \in Nat
    BY <1>1 DEF Rows, IInv, TypeOK
  <2>2. held[b] = IF b \in R THEN 0 ELSE row[b].amount
    BY <1>4, <2>1
  <2>3. Kept[b] \in Nat /\ Kept'[b] \in Nat
    BY <2>1, KeptIs DEF IInv
  <2>4. CASE b \in R
    <3>1. Kept'[b] = 0
      BY <1>2, <2>1, <2>4 DEF Kept
    <3> QED BY <2>2, <2>3, <2>4, <3>1
  <2>5. CASE b \notin R
    <3>1. row'[b].settled = row[b].settled /\ row'[b].amount = row[b].amount
      BY <1>4, <1>5, <2>1, <2>5
    <3>2. Kept'[b] = Kept[b]
      BY <1>2, <2>1, <2>5, <3>1 DEF Kept
    <3>3. Kept[b] <= row[b].amount
      BY <2>1, AmountsNat DEF Kept, IInv, LedgerFollowsProvider
    <3> QED BY <2>1, <2>2, <2>3, <2>5, <3>2, <3>3
  <2> QED BY <2>4, <2>5
<1>9. Kept'[c] = Reservation /\ c \notin RowsOf(day[c])
  BY <1>1, <1>2, <1>5 DEF Kept, RowsOf, IInv, TypeOK
<1> SUFFICES ASSUME NEW d \in Days PROVE Sum(Kept', RowsOf(d)') <= Limit
  BY DEF Committed
<1>10. /\ IsFiniteSet(RowsOf(d)) /\ RowsOf(d) \subseteq Rows
       /\ Sum(Kept', RowsOf(d)) \in Nat /\ Sum(Kept, RowsOf(d)) \in Nat /\ Sum(held, RowsOf(d)) \in Nat
       /\ Sum(Kept', RowsOf(d)) <= Sum(Kept, RowsOf(d))
       /\ Sum(Kept', RowsOf(d)) <= Sum(held, RowsOf(d))
  <2>1. IsFiniteSet(RowsOf(d)) /\ RowsOf(d) \subseteq Rows
    BY RowsFinite DEF RowsOf
  <2> HIDE DEF held
  <2> QED BY <1>8, <2>1, SumNat, SumMonotone
<1>11. CASE d # day[c]
  BY <1>7, <1>10, <1>11, AmountsNat DEF Committed
<1>12. CASE d = day[c]
  <2>1. Sum(Kept', RowsOf(d) \cup {c}) = Sum(Kept', RowsOf(d)) + Reservation
    BY <1>8, <1>9, <1>10, <1>12, SumAdd, AmountsNat
  <2>2. {b \in Rows : table[b].day = d} = RowsOf(d)
    BY <1>4 DEF RowsOf, Rows
  <2>3. Sum(held, RowsOf(d)) + Reservation <= Limit
    BY <1>12, <2>2 DEF Reserve, Admits, Used, table, R
  <2> QED BY <1>7, <1>10, <1>12, <2>1, <2>3, AmountsNat
<1> QED BY <1>11, <1>12

\* The other steps change no day and take weight off at most.
LEMMA CommittedInv == IInv /\ IInv' /\ Committed /\ [Next]_vars => Committed'
<1> SUFFICES ASSUME IInv, IInv', Committed, [Next]_vars PROVE Committed'
  OBVIOUS
<1>1. CASE \E c \in Calls : Reserve(c)
  BY <1>1, ReserveCommits
<1>2. CASE UNCHANGED <<row, released>>
  <2>1. Kept' = Kept /\ \A d : RowsOf(d)' = RowsOf(d)
    BY <1>2 DEF Kept, RowsOf, Rows
  <2> QED BY <2>1 DEF Committed
<1>3. ASSUME NEW c \in Calls, Settle(c) PROVE Committed'
  <2>1. /\ released' = released /\ c \in Rows /\ row[c].outcome # "none"
        /\ row' = IF row[c].settled THEN row
                  ELSE [row EXCEPT ![c].amount = cost[c], ![c].settled = TRUE, ![c].outcome = "settled"]
    BY <1>3 DEF Settle, IInv, CallState, LedgerFollowsProvider, InFlight, Rows
  <2>2. \A d \in Days : RowsOf(d)' = RowsOf(d)
    BY <2>1 DEF RowsOf, Rows, IInv, TypeOK
  <2>3. ASSUME NEW b \in Rows PROVE Kept'[b] <= Kept[b]
    <3>1. b \in Calls
      BY DEF Rows
    <3>2. CASE row'[b] = row[b]
      <4>1. released' = released
        BY <2>1
      <4>2. Kept'[b] = Kept[b]
        BY <3>1, <3>2, <4>1 DEF Kept
      <4> QED BY <3>1, <4>2, KeptIs DEF IInv
    <3>3. CASE row'[b] # row[b]
      <4>1. b = c /\ ~row[c].settled
        BY <2>1, <3>1, <3>3 DEF IInv, TypeOK
      <4>2. Kept[c] = IF c \in released THEN 0 ELSE Reservation
        BY <4>1 DEF Kept
      <4>3. c \in released => Kept'[c] = 0
        BY <2>1 DEF Kept
      <4>4. Kept'[c] <= Reservation
        BY KeptIs DEF IInv
      <4> QED BY <4>1, <4>2, <4>3, <4>4
    <3> QED BY <3>2, <3>3
  <2> QED BY <2>2, <2>3, CommittedStays DEF IInv
<1>4. ASSUME NEW c \in Calls, NEW outcome \in Failures \cup {"missing_usage"}, Fail(c, outcome)
      PROVE  Committed'
  <2>1. /\ released' = released /\ c \in Rows
        /\ row' = IF row[c].settled THEN row ELSE [row EXCEPT ![c].outcome = outcome]
    BY <1>4 DEF Fail, Labelled, IInv, LedgerFollowsProvider, InFlight
  <2>2. outcome # "none"
    BY DEF Failures
  <2>3. \A b \in Calls : /\ row'[b].day = row[b].day /\ row'[b].amount = row[b].amount
                         /\ row'[b].settled = row[b].settled
                         /\ row'[b].outcome # "none" <=> row[b].outcome # "none"
    BY <2>1, <2>2 DEF Rows, IInv, TypeOK
  <2>4. Kept' = Kept /\ \A d : RowsOf(d)' = RowsOf(d)
    BY <2>1, <2>3 DEF Kept, RowsOf, Rows
  <2> QED BY <2>4 DEF Committed
<1> QED
  BY <1>1, <1>2, <1>3, <1>4
     DEF Next, Tick, Crash, Enter, Refuse, Respond, Raise, StoreRaises, Charge, vars

\* The daily limit bounds what the provider charges for a day's calls, whatever
\* fails, is late, is lost or crashes, but for what was released too early and
\* what was dearer than its reservation (reserve, sqlite/spend_budget.py:72).
THEOREM LimitHolds == Spec => []SpendBounded
<1>1. Init => Committed
  <2> SUFFICES ASSUME Init, NEW d \in Days PROVE Sum(Kept, RowsOf(d)) <= Limit
    BY DEF Committed
  <2>1. RowsOf(d) = {} /\ Units(Kept, {}) = {}
    BY DEF Init, RowsOf, Rows, NoRow, Units
  <2> QED BY <2>1, FS_EmptySet, AmountsNat DEF Sum
<1>2. IInv /\ Committed => SpendBounded
  <2> DEFINE over == [c \in Calls |-> IF c \in released THEN cost[c]
                                      ELSE IF cost[c] > Reservation THEN cost[c] - Reservation
                                      ELSE 0]
  <2> SUFFICES ASSUME IInv, Committed, NEW d \in Days
               PROVE  Sum(cost, RowsOf(d)) <= Limit + Sum(over, RowsOf(d))
    BY DEF SpendBounded, Overrun, RowsOf
  <2>1. IsFiniteSet(RowsOf(d)) /\ RowsOf(d) \subseteq Calls
    BY RowsFinite
  <2>2. ASSUME NEW c \in RowsOf(d)
        PROVE  /\ cost[c] \in Nat /\ Kept[c] \in Nat /\ over[c] \in Nat
               /\ cost[c] <= Kept[c] + over[c]
    <3>1. c \in Calls /\ c \in Rows /\ cost[c] \in Nat /\ Kept[c] \in Nat /\ over[c] \in Nat
      BY <2>1, KeptIs, AmountsNat DEF RowsOf, IInv, TypeOK
    <3>2. row[c].settled => row[c].amount = cost[c]
      BY <3>1 DEF IInv, LedgerFollowsProvider
    <3> QED BY <3>1, <3>2, AmountsNat DEF Kept
  <2> HIDE DEF over
  <2>3. Sum(cost, RowsOf(d)) <= Sum(Kept, RowsOf(d)) + Sum(over, RowsOf(d))
    BY <2>1, <2>2, SumSplit
  <2>4. /\ Sum(cost, RowsOf(d)) \in Nat /\ Sum(Kept, RowsOf(d)) \in Nat
        /\ Sum(over, RowsOf(d)) \in Nat /\ Sum(Kept, RowsOf(d)) <= Limit
    BY <2>1, <2>2, SumNat DEF Committed
  <2> QED BY <2>3, <2>4, AmountsNat
<1> QED BY <1>1, <1>2, CommittedInv, Invariant, InitInv, NextInv, PTL DEF Spec

\* A refusal means that what was settled, and what was reserved within the last
\* TTL, leaves no room: what reserve releases counts for nothing.
THEOREM RefusalsAreJust == Spec => RefusalIsJust
<1> DEFINE A == \A c \in Calls : caller[c] = "entered" /\ caller'[c] = "refused" =>
                  Sum([b \in Calls |-> row[b].amount],
                      {b \in Rows : /\ row[b].day = day[c]
                                    /\ row[b].settled \/ row[b].created > now - TTL})
                    + Reservation > Limit
<1>1. IInv /\ [Next]_vars => [A]_vars
  <2> SUFFICES ASSUME IInv, Next, NEW c \in Calls, caller[c] = "entered", caller'[c] = "refused"
               PROVE  Sum([b \in Calls |-> row[b].amount],
                          {b \in Rows : /\ row[b].day = day[c]
                                        /\ row[b].settled \/ row[b].created > now - TTL})
                        + Reservation > Limit
    OBVIOUS
  <2>1. Refuse(c)
    BY DEF Next, Tick, Crash, Enter, Reserve, Refuse, Respond, Raise, Settle, StoreRaises, Charge,
           Fail, IInv, TypeOK, InFlight
  <2> DEFINE R      == Unknown(day[c])
             table  == Release(R)
             held   == [b \in Calls |-> table[b].amount]
             amount == [b \in Calls |-> row[b].amount]
             live   == {b \in Rows : /\ row[b].day = day[c]
                                     /\ row[b].settled \/ row[b].created > now - TTL}
  <2>2. ~(Sum(held, {b \in Rows : table[b].day = day[c]}) + Reservation <= Limit)
    BY <2>1 DEF Refuse, Admits, Used
  <2>3. \A b \in Calls : /\ table[b].day = row[b].day
                         /\ table[b].amount = IF b \in R THEN 0 ELSE row[b].amount
    BY DEF Release, IInv, TypeOK
  <2>4. {b \in Rows : table[b].day = day[c]} = RowsOf(day[c])
    BY <2>3 DEF RowsOf, Rows
  <2>5. ASSUME NEW b \in RowsOf(day[c])
        PROVE  held[b] \in Nat /\ (held[b] > 0 => b \in live /\ held[b] <= amount[b])
    <3>1. b \in Calls /\ b \in Rows /\ row[b].day = day[c] /\ row[b].amount \in Nat
          /\ row[b].created \in Nat /\ now \in Nat
      BY DEF RowsOf, Rows, IInv, TypeOK
    <3>2. held[b] = IF b \in R THEN 0 ELSE row[b].amount
      BY <2>3, <3>1
    <3>3. row[b].amount > 0 /\ b \notin R => row[b].settled \/ row[b].created > now - TTL
      BY <3>1, ClockNat DEF Unknown
    <3> QED BY <3>1, <3>2, <3>3
  <2>6. IsFiniteSet(live) /\ \A b \in live : amount[b] \in Nat
    BY RowsFinite, CallsFinite, FS_Subset DEF Rows, IInv, TypeOK
  <2>7. IsFiniteSet(RowsOf(day[c]))
    BY RowsFinite
  <2> HIDE DEF held, amount, live, table, R
  <2>8. Sum(held, RowsOf(day[c])) <= Sum(amount, live)
    BY <2>5, <2>6, SumMonotone
  <2>9. Sum(held, RowsOf(day[c])) \in Nat /\ Sum(amount, live) \in Nat
    BY <2>5, <2>6, <2>7, SumNat
  <2>10. Sum(amount, live) + Reservation > Limit
    <3>1. ~(Sum(held, RowsOf(day[c])) + Reservation <= Limit)
      BY <2>2, <2>4
    <3>2. Reservation \in Nat /\ Limit \in Nat
      BY AmountsNat
    <3> QED BY <2>8, <2>9, <3>1, <3>2
  <2> QED BY <2>10 DEF amount, live
<1>2. [][A]_vars => RefusalIsJust
  BY DEF RefusalIsJust
<1> QED BY <1>1, <1>2, Invariant, PTL DEF Spec
=============================================================================
