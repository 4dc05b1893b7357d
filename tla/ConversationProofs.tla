------------------------- MODULE ConversationProofs -------------------------
(***************************************************************************)
(* What the warm conversations guarantee for every set of prompts and      *)
(* replies, context length, number of slots and depth of the ring: a reply *)
(* is computed from its own prompt, every cold conversation is backed by   *)
(* its image, the live one by the caches, and a plan survives the page-out *)
(* it sets off.                                                            *)
(*                                                                         *)
(* None of these is inductive alone: the tokens an image backs were rows   *)
(* once, the rows of a job are those its plan's source shares with its     *)
(* prompt, and a plan is made two steps before it is carried out.  The     *)
(* invariant says, for each place of the job, what is known there of the   *)
(* slot the plan names.                                                    *)
(***************************************************************************)
EXTENDS ConversationSlots, PrefixProofs

SlotOf == [cache : CacheOf(Token), image : Seq(Token), draft : Seq(Token),
           agrees : Nat, used : Nat]
ImageOf == [tokens : Seq(Token), rows : Seq(Token), snaps : SUBSET Seq(Token),
            draft : Seq(Token)]

Stages == {"idle", "dispatching", "paged_out", "installed", "dispatched", "prefilling", "failed"}

\* What any slot is at the time now.
Sound(s, now) ==
    /\ s \in SlotOf /\ s.used <= now
    /\ Len(s.image) <= MaxCtx /\ Len(s.cache.tokens) <= MaxCtx /\ s.agrees <= MaxCtx
    /\ Fits(s.cache)
    /\ \A t \in AllSnapshots(s.cache) : t # <<>>
    /\ IsPrefix(s.draft, s.image)

\* What a cold slot is: its snapshots lie along its history, which its image
\* holds.
Backed(s) == Along(s.cache, s.cache.tokens) /\ IsPrefix(s.cache.tokens, s.image)

\* What the live slot is, whatever its job has come to: the snapshots lie along
\* the rows held, and as far as the retained image is trusted, it holds what both
\* those rows and the recorded history begin with.
Matches(s, held) ==
    /\ Along(s.cache, held)
    /\ s.agrees <= Len(s.image)
    /\ IsPrefix(Upto(s.image, s.agrees), held)
    /\ IsPrefix(Upto(s.image, s.agrees), s.cache.tokens)

\* What the disk tier holds is as good as a cold slot.
Storable(im) ==
    /\ im \in ImageOf /\ Len(im.rows) <= MaxCtx
    /\ \A s \in im.snaps : s # <<>> /\ IsPrefix(s, im.tokens)
    /\ IsPrefix(im.tokens, im.rows) /\ IsPrefix(im.draft, im.rows)

SlotsTyped ==
    /\ slots \in Seq(SlotOf) /\ maxSlots \in SlotCounts /\ Len(slots) <= maxSlots
    /\ live \in 0..Len(slots) /\ clock \in 0..MaxClock
    /\ \A i \in DOMAIN slots : Sound(slots[i], clock)
    /\ \A im \in stored : Storable(im)
    /\ pc \in Stages

ColdBacked == \A i \in Cold : Backed(slots[i])

CachesTyped ==
    /\ rows \in Seq(Token) /\ rings \in Seq(Token) /\ drafter \in Seq(Token)
    /\ Len(rows) <= MaxCtx /\ Len(rings) <= MaxCtx /\ Len(drafter) <= MaxCtx

LiveMatched ==
    /\ live # 0 => /\ rings = rows /\ IsPrefix(drafter, rows)
                   /\ Matches(slots[live], rows)
                   /\ pc \in {"idle", "dispatching"} => slots[live].cache.tokens = rows
    /\ (live = 0 /\ pc \in {"idle", "dispatching"}) => rows = <<>> /\ rings = <<>> /\ drafter = <<>>
    /\ pc \in {"paged_out", "installed"} => live = 0
    /\ pc \in {"dispatched", "prefilling"} => live # 0

\* A slot in use was touched after every other.
LiveIsNewest ==
    live # 0 /\ pc \in {"idle", "dispatching", "prefilling"} =>
        \A i \in Cold : slots[i].used < slots[live].used

\* The history h and the prompt begin with the same pos tokens.
Shares(h, pos, prompt) == pos \in 1..Len(h) /\ Upto(h, pos) = Upto(prompt, pos)

StopOf == [at : Nat, why : {"anchor", "turn", "branch"}]

JobOf == [kind : {"extend", "restore", "cold", "fresh", "swap", "fork", "hydrate"},
          prompt : Seq(Token), boundary : Nat, anchor : Nat, shared : Nat, slot : Nat, pos : Nat,
          spare : Nat, stops : SUBSET StopOf, image : ImageOf, target : Nat, source : Nat,
          inherited : SUBSET Seq(Token)]

\* What the job at hand asks, and that some of it is left to compute.
Request(j) ==
    /\ j \in JobOf
    /\ j.prompt # <<>> /\ Len(j.prompt) < MaxCtx
    /\ j.boundary < Len(j.prompt) /\ j.pos < Len(j.prompt)

Resumable(i, pos, prompt) ==
    /\ i \in Cold
    /\ HasSnapshotAt(slots[i].cache, pos)
    /\ Shares(slots[i].cache.tokens, pos, prompt)

Room(i) == i \in 0..Len(slots) /\ (i = 0 => Len(slots) < maxSlots)

\* What the plan's arm relies on, from the choice to the page-out and after it.
Planned(j) ==
    /\ j.kind = "extend" => live # 0 /\ j.pos = Len(rows) /\ IsPrefix(rows, j.prompt)
    /\ j.kind = "restore" =>
          /\ live # 0 /\ HasSnapshotAt(slots[live].cache, j.pos)
          /\ Shares(rows, j.pos, j.prompt)
    /\ j.kind = "cold" => live # 0 /\ j.pos = 0
    /\ j.kind = "fresh" => Room(j.slot) /\ j.pos = 0
    /\ j.kind = "swap" => Resumable(j.slot, j.pos, j.prompt)
    /\ j.kind = "fork" =>
          /\ j.source \in DOMAIN slots
          /\ Room(j.target) /\ j.target # j.source
          /\ Shares(slots[j.source].cache.tokens, j.pos, j.prompt)
          /\ j.source # live => slots[j.source].image # <<>>
          /\ \A s \in j.inherited : s # <<>> /\ IsPrefix(s, Upto(j.prompt, j.pos))
          /\ \E s \in j.inherited : Len(s) = j.pos
    /\ j.kind = "hydrate" =>
          /\ Room(j.target)
          /\ Storable(j.image)
          /\ Shares(j.image.tokens, j.pos, j.prompt)
          /\ \E s \in j.image.snaps : Len(s) = j.pos

\* The fork's source is another slot than the prompt's.
SourceApart ==
    job.kind = "fork" =>
        /\ job.source \in DOMAIN slots /\ job.spare = job.source
        /\ (IF pc = "installed" THEN job.slot ELSE live) # job.source

\* What is known of the job at each of its places.
JobPlaced ==
    /\ pc \in {"dispatching", "paged_out"} =>
          \/ job = [kind |-> "batch", slot |-> 0, pos |-> 0]
          \/ Request(job) /\ Planned(job) /\ clock < MaxClock
    /\ pc = "paged_out" => job.kind \notin {"extend", "restore", "cold"}
    /\ pc = "installed" =>
          /\ Request(job) /\ clock < MaxClock /\ SourceApart
          /\ Resumable(job.slot, job.pos, job.prompt)
    /\ pc = "dispatched" =>
          /\ Request(job) /\ clock < MaxClock /\ SourceApart
          /\ Len(rows) = job.pos /\ IsPrefix(rows, job.prompt)
    /\ pc = "prefilling" =>
          /\ Request(job) /\ IsPrefix(rows, job.prompt)
          /\ \A s \in job.stops :
                /\ Len(rows) < s.at /\ s.at < Len(job.prompt)
                /\ \A t \in job.stops : t.at = s.at => t = s

CInv == SlotsTyped /\ ColdBacked /\ CachesTyped /\ LiveMatched /\ LiveIsNewest /\ JobPlaced

---------------------------------------------------------------------------
(* Slots as records.                                                       *)

LEMMA SlotFields ==
    ASSUME NEW s \in SlotOf
    PROVE  /\ s.cache \in CacheOf(Token) /\ s.image \in Seq(Token) /\ s.draft \in Seq(Token)
           /\ s.agrees \in Nat /\ s.used \in Nat
           /\ s.cache.tokens \in Seq(Token)
           /\ \A t \in AllSnapshots(s.cache) : t \in Seq(Token)
  <1>1. /\ s.cache \in CacheOf(Token) /\ s.image \in Seq(Token) /\ s.draft \in Seq(Token)
        /\ s.agrees \in Nat /\ s.used \in Nat
    BY DEF SlotOf
  <1>2. s.cache.tokens \in Seq(Token) /\ \A t \in AllSnapshots(s.cache) : t \in Seq(Token)
    BY <1>1 DEF CacheOf, AllSnapshots
  <1> QED
    BY <1>1, <1>2

LEMMA SlotTouched ==
    ASSUME NEW s \in SlotOf, NEW used \in Nat, NEW t, t = [s EXCEPT !.used = used]
    PROVE  /\ t \in SlotOf /\ t.cache = s.cache /\ t.image = s.image /\ t.draft = s.draft
           /\ t.agrees = s.agrees /\ t.used = used
  BY DEF SlotOf

---------------------------------------------------------------------------
(* What the slots become.                                                  *)

LEMMA EmptySlotIs ==
    ASSUME NEW now \in Nat
    PROVE  /\ Sound(EmptySlot, now) /\ Backed(EmptySlot) /\ EmptySlot.used = 0
           /\ EmptySlot.image = <<>> /\ AllSnapshots(EmptySlot.cache) = {}
           /\ \A used \in 0..now : /\ Sound([EmptySlot EXCEPT !.used = used], now)
                                   /\ Matches([EmptySlot EXCEPT !.used = used], <<>>)
                                   /\ [EmptySlot EXCEPT !.used = used].cache.tokens = <<>>
  <1>1. /\ EmptySlot \in SlotOf /\ EmptySlot.cache \in CacheOf(Token)
        /\ EmptySlot = [cache |-> [tokens |-> <<>>, ring |-> {}, anchor |-> {}], image |-> <<>>,
                        draft |-> <<>>, agrees |-> 0, used |-> 0]
    BY DEF EmptySlot, EmptyCache, SlotOf, CacheOf
  <1>2. /\ AllSnapshots(EmptySlot.cache) = {} /\ EmptySlot.cache.tokens = <<>>
        /\ EmptySlot.image = <<>> /\ EmptySlot.draft = <<>>
    BY <1>1 DEF AllSnapshots
  <1>3. Fits(EmptySlot.cache)
    <2>1. RingBound \in Nat
      BY RingBoundIs
    <2>2. EmptySlot.cache.ring = {} /\ EmptySlot.cache.anchor = {}
      BY <1>1
    <2>3. 0 <= RingBound
      BY <2>1
    <2>4. IsFiniteSet({}) /\ Cardinality({}) = 0
      BY FS_EmptySet
    <2> QED
      BY <2>2, <2>3, <2>4 DEF Fits
  <1>4. Len(<<>>) = 0 /\ MaxCtx \in Nat /\ <<>> \in Seq(Token)
    BY SlotConstantsOK
  <1>5. IsPrefix(<<>>, <<>>) /\ Upto(<<>>, 0) = <<>>
    BY <1>4, PrefixReflexive, UptoAll
  <1>6. Sound(EmptySlot, now)
    BY <1>1, <1>2, <1>3, <1>4, <1>5 DEF Sound
  <1>7. Backed(EmptySlot)
    BY <1>2, <1>5 DEF Backed, Along
  <1>8. ASSUME NEW used \in 0..now
        PROVE  /\ Sound([EmptySlot EXCEPT !.used = used], now)
               /\ Matches([EmptySlot EXCEPT !.used = used], <<>>)
               /\ [EmptySlot EXCEPT !.used = used].cache.tokens = <<>>
    <2> DEFINE s == [EmptySlot EXCEPT !.used = used]
    <2>1. /\ s \in SlotOf /\ s.cache = EmptySlot.cache /\ s.image = <<>> /\ s.draft = <<>>
          /\ s.agrees = 0 /\ s.used = used
      <3>1. used \in Nat
        OBVIOUS
      <3>2. EmptySlot.agrees = 0 /\ EmptySlot.draft = <<>> /\ EmptySlot.image = <<>>
        BY <1>1
      <3> QED
        BY <1>1, <3>1, <3>2, SlotTouched
    <2> HIDE DEF s
    <2>2. Sound(s, now)
      BY <2>1, <1>2, <1>3, <1>4, <1>5 DEF Sound
    <2>3. Matches(s, <<>>)
      BY <2>1, <1>2, <1>4, <1>5 DEF Matches, Along
    <2> QED
      BY <2>1, <2>2, <2>3, <1>2 DEF s
  <1> QED
    BY <1>1, <1>2, <1>6, <1>7, <1>8

\* A demoted slot falls back to what its image backs: the history and the
\* snapshots it keeps are those the trusted part of the image begins with.
LEMMA DemotedIs ==
    ASSUME NEW now \in Nat, NEW held \in Seq(Token), NEW s, Sound(s, now), Matches(s, held)
    PROVE  Sound(Demoted(s), now) /\ Backed(Demoted(s)) /\ Demoted(s).used <= s.used
  <1> DEFINE n == s.agrees
             kept == Upto(s.image, n)
             cut == [s.cache EXCEPT !.tokens = Upto(@, Shorter(Len(@), n))]
             back == DropAfter(cut, n)
  <1>1. /\ s.cache \in CacheOf(Token) /\ s.image \in Seq(Token) /\ s.draft \in Seq(Token)
        /\ n \in Nat /\ n <= Len(s.image) /\ s.used \in Nat
        /\ s.cache.tokens \in Seq(Token)
    BY DEF Sound, Matches, SlotOf, CacheOf
  <1>2. kept \in Seq(Token) /\ Len(kept) = n /\ IsPrefix(kept, s.image)
    BY <1>1, UptoIs, UptoPrefix
  <1>3. IsPrefix(kept, s.cache.tokens) /\ IsPrefix(kept, held)
    BY DEF Matches
  <1>4. n <= Len(s.cache.tokens) /\ kept = Upto(s.cache.tokens, n)
    BY <1>1, <1>2, <1>3, PrefixIsUpto
  <1>5. Shorter(Len(s.cache.tokens), n) = n
    BY <1>1, <1>4 DEF Shorter
  <1>6. cut \in CacheOf(Token) /\ cut.tokens = kept /\ Fits(cut) /\ AllSnapshots(cut) = AllSnapshots(s.cache)
    BY <1>1, <1>2, <1>4, <1>5 DEF CacheOf, Fits, AllSnapshots, Sound
  <1> HIDE DEF cut, n, kept
  <1>7. /\ back \in CacheOf(Token) /\ back.tokens = kept /\ Fits(back)
        /\ AllSnapshots(back) = {t \in AllSnapshots(s.cache) : Len(t) <= n}
    <2>1. /\ back \in CacheOf(Token) /\ back.tokens = cut.tokens
          /\ AllSnapshots(back) = {t \in AllSnapshots(cut) : Len(t) <= n}
          /\ Fits(cut) => Fits(back)
      BY <1>1, <1>6, DropAfterIs
    <2> QED
      BY <2>1, <1>6
  <1>8. \A t \in AllSnapshots(back) : t \in Seq(Token) /\ t # <<>> /\ IsPrefix(t, kept)
    <2> TAKE t \in AllSnapshots(back)
    <2>1. t \in AllSnapshots(s.cache) /\ Len(t) <= n
      BY <1>7
    <2>2. t \in Seq(Token) /\ t # <<>> /\ IsPrefix(t, held)
      BY <2>1, <1>1 DEF AllSnapshots, CacheOf, Sound, Matches, Along
    <2> QED
      BY <2>1, <2>2, <1>2, <1>3, PrefixesNest
  <1> HIDE DEF back, kept, n
  <1>9. CASE s.image # <<>> /\ s.agrees > 0 /\ AllSnapshots(back) # {}
    <2>1. Demoted(s) = [s EXCEPT !.cache = back, !.agrees = 0]
      BY <1>9 DEF Demoted, back, cut, n
    <2>2. /\ Demoted(s) \in SlotOf /\ Demoted(s).cache = back /\ Demoted(s).image = s.image
          /\ Demoted(s).draft = s.draft /\ Demoted(s).used = s.used /\ Demoted(s).agrees = 0
      <3>1. s \in SlotOf /\ back \in CacheOf(Token)
        BY <1>7 DEF Sound
      <3>2. DOMAIN s = {"cache", "image", "draft", "agrees", "used"}
        BY <3>1 DEF SlotOf
      <3>3. Demoted(s) = [f \in DOMAIN s |-> IF f = "agrees" THEN 0
                                            ELSE IF f = "cache" THEN back ELSE s[f]]
        BY <2>1
      <3>4. Demoted(s) = [cache |-> back, image |-> s.image, draft |-> s.draft, agrees |-> 0,
                          used |-> s.used]
        BY <3>2, <3>3
      <3> QED
        BY <3>1, <3>4 DEF SlotOf
    <2>3. Len(s.image) <= MaxCtx /\ Len(kept) <= MaxCtx /\ 0 <= MaxCtx
      BY <1>1, <1>2, SlotConstantsOK DEF Sound
    <2>4. Sound(Demoted(s), now)
      BY <2>2, <2>3, <1>7, <1>8 DEF Sound
    <2>5. Backed(Demoted(s))
      BY <2>2, <1>2, <1>7, <1>8 DEF Backed, Along
    <2> QED
      BY <2>2, <2>4, <2>5, <1>1
  <1>10. CASE ~(s.image # <<>> /\ s.agrees > 0 /\ AllSnapshots(back) # {})
    <2>1. Demoted(s) = EmptySlot
      BY <1>10 DEF Demoted, back, cut, n
    <2> QED
      BY <2>1, <1>1, EmptySlotIs
  <1> QED
    BY <1>9, <1>10

\* A live slot paged out: its image is what the caches held, and its newest
\* snapshot is their end.
LEMMA PagedIs ==
    ASSUME SlotsTyped, CachesTyped, LiveMatched, live # 0, pc \in {"idle", "dispatching"},
           rows # <<>>
    PROVE  /\ Sound(Paged, clock) /\ Backed(Paged)
           /\ Paged.image = rows /\ Paged.cache.tokens = rows /\ Paged.used = clock
           /\ HasSnapshotAt(Paged.cache, Len(rows))
  <1> DEFINE s == slots[live]
             c == PushTail(s.cache, rings)
  <1>1. s \in SlotOf /\ Sound(s, clock) /\ clock \in Nat
    <2>1. live \in DOMAIN slots /\ slots \in Seq(SlotOf)
      BY DEF SlotsTyped
    <2> QED
      BY <2>1 DEF SlotsTyped, Sound
  <1>2. /\ rings = rows /\ IsPrefix(drafter, rows) /\ s.cache.tokens = rows /\ Along(s.cache, rows)
    BY DEF LiveMatched, Matches
  <1>3. rows \in Seq(Token) /\ drafter \in Seq(Token) /\ Len(rows) <= MaxCtx
    BY DEF CachesTyped
  <1>4. s.cache \in CacheOf(Token) /\ Fits(s.cache) /\ \A t \in AllSnapshots(s.cache) : t # <<>>
    BY <1>1 DEF SlotOf, Sound
  <1> HIDE DEF s
  <1>5. /\ c \in CacheOf(Token) /\ c.tokens = rows /\ Fits(c) /\ rows \in AllSnapshots(c)
        /\ \A t \in AllSnapshots(c) : t = rows \/ t \in AllSnapshots(s.cache)
    BY <1>2, <1>3, <1>4, PushTailIs
  <1> HIDE DEF c
  <1>6. Paged = [cache |-> c, image |-> rows, draft |-> drafter, agrees |-> 0, used |-> clock]
    BY DEF Paged, c, s
  <1>7. /\ Paged \in SlotOf /\ Paged.cache = c /\ Paged.image = rows /\ Paged.draft = drafter
        /\ Paged.used = clock /\ Paged.agrees = 0 /\ 0 <= MaxCtx
    BY <1>1, <1>3, <1>5, <1>6, SlotConstantsOK DEF SlotOf
  <1>8. \A t \in AllSnapshots(c) : t # <<>> /\ IsPrefix(t, rows)
    BY <1>2, <1>3, <1>4, <1>5, PrefixReflexive DEF Along
  <1>9. Sound(Paged, clock)
    BY <1>1, <1>2, <1>3, <1>5, <1>7, <1>8 DEF Sound
  <1>10. Backed(Paged)
    BY <1>3, <1>5, <1>7, <1>8, PrefixReflexive DEF Backed, Along
  <1>11. HasSnapshotAt(Paged.cache, Len(rows))
    BY <1>5, <1>7 DEF HasSnapshotAt
  <1> QED
    BY <1>5, <1>7, <1>9, <1>10, <1>11

\* Writing at a slot, or in a new one where there is room for it.
LEMMA PutSlotIs ==
    ASSUME slots \in Seq(SlotOf), NEW target, Room(target), NEW s \in SlotOf,
           maxSlots \in Nat, Len(slots) <= maxSlots
    PROVE  /\ PutSlot(target, s) \in Seq(SlotOf)
           /\ Len(PutSlot(target, s)) <= maxSlots /\ Len(slots) <= Len(PutSlot(target, s))
           /\ Landing(target) \in DOMAIN PutSlot(target, s) /\ Landing(target) # 0
           /\ \A i \in DOMAIN PutSlot(target, s) :
                 IF i = Landing(target) THEN PutSlot(target, s)[i] = s
                 ELSE i \in DOMAIN slots /\ PutSlot(target, s)[i] = slots[i]
  <1>1. Len(slots) \in Nat /\ DOMAIN slots = 1..Len(slots)
    OBVIOUS
  <1>2. CASE target = 0
    <2>1. PutSlot(target, s) = Append(slots, s) /\ Landing(target) = Len(slots) + 1
      BY <1>2 DEF PutSlot, Landing
    <2>2. Len(slots) < maxSlots
      BY <1>2 DEF Room
    <2>3. /\ Append(slots, s) \in Seq(SlotOf) /\ Len(Append(slots, s)) = Len(slots) + 1
          /\ DOMAIN Append(slots, s) = 1..(Len(slots) + 1)
          /\ \A i \in 1..Len(slots) : Append(slots, s)[i] = slots[i]
          /\ Append(slots, s)[Len(slots) + 1] = s
      BY <1>1, AppendProperties, LenProperties
    <2> QED
      BY <1>1, <2>1, <2>2, <2>3
  <1>3. CASE target # 0
    <2>1. PutSlot(target, s) = [slots EXCEPT ![target] = s] /\ Landing(target) = target
      BY <1>3 DEF PutSlot, Landing
    <2>2. target \in 1..Len(slots)
      BY <1>1, <1>3 DEF Room
    <2> QED
      BY <1>1, <2>1, <2>2, ExceptSeq
  <1> QED
    BY <1>2, <1>3

\* What the trim leaves alone: the live slot, the spared one, and the one most
\* recently used among the cold.
Newest(sl, liveSlot, i) ==
    /\ i # liveSlot
    /\ \A j \in DOMAIN sl \ {liveSlot} :
          sl[j].used < sl[i].used \/ (sl[j].used = sl[i].used /\ j <= i)

LEMMA TrimmedIs ==
    ASSUME NEW sl \in Seq(SlotOf), NEW liveSlot, NEW spare, NEW t \in Trimmed(sl, liveSlot, spare)
    PROVE  /\ t \in Seq(SlotOf) /\ Len(t) = Len(sl) /\ DOMAIN t = DOMAIN sl
           /\ \A i \in DOMAIN sl :
                 \/ t[i] = sl[i]
                 \/ t[i] = EmptySlot /\ i # liveSlot /\ i # spare /\ ~Newest(sl, liveSlot, i)
  <1>1. PICK gone \in SUBSET (DOMAIN sl \ {liveSlot}) :
           /\ t = [i \in DOMAIN sl |-> IF i \in gone THEN EmptySlot ELSE sl[i]]
           /\ \A i \in gone : i # spare /\ ~Newest(sl, liveSlot, i)
    BY DEF Trimmed, Newest
  <1>2. EmptySlot \in SlotOf
    BY EmptySlotIs, 0 \in Nat DEF Sound
  <1>3. DOMAIN sl = 1..Len(sl) /\ Len(sl) \in Nat /\ \A i \in DOMAIN sl : sl[i] \in SlotOf
    OBVIOUS
  <1>4. t \in [1..Len(sl) -> SlotOf]
    BY <1>1, <1>2, <1>3
  <1>5. t \in Seq(SlotOf) /\ Len(t) = Len(sl)
    BY <1>3, <1>4
  <1> QED
    BY <1>1, <1>3, <1>5

\* What a page-out stores is the slot's image, with snapshots along its history.
LEMMA StoredIs ==
    ASSUME NEW now, \A im \in stored : Storable(im), NEW s, Sound(s, now), Backed(s),
           NEW S \in Stored(s), NEW im \in S
    PROVE  Storable(im)
  <1>1. CASE S = stored
    BY <1>1
  <1>2. CASE S # stored
    <2> DEFINE along == {t \in UNION {m.snaps : m \in stored} : IsPrefix(t, s.cache.tokens)}
    <2>1. im = [tokens |-> s.cache.tokens, rows |-> s.image,
                snaps |-> along \cup AllSnapshots(s.cache), draft |-> s.draft]
      BY <1>2 DEF Stored
    <2>2. /\ s.cache.tokens \in Seq(Token) /\ s.image \in Seq(Token) /\ s.draft \in Seq(Token)
          /\ \A t \in AllSnapshots(s.cache) : t \in Seq(Token)
      BY SlotFields DEF Sound
    <2>3. \A t \in along : t \in Seq(Token) /\ t # <<>> /\ IsPrefix(t, s.cache.tokens)
      BY DEF Storable, ImageOf
    <2>4. \A t \in AllSnapshots(s.cache) : t # <<>> /\ IsPrefix(t, s.cache.tokens)
      BY DEF Sound, Backed, Along
    <2> HIDE DEF along
    <2>5. /\ im.tokens = s.cache.tokens /\ im.rows = s.image /\ im.draft = s.draft
          /\ im.snaps = along \cup AllSnapshots(s.cache)
          /\ im \in ImageOf
      BY <2>1, <2>2, <2>3 DEF ImageOf
    <2> QED
      BY <2>3, <2>4, <2>5 DEF Storable, Sound, Backed
  <1> QED
    BY <1>1, <1>2

\* What is installed: snapshots along the tokens that the image holds, the
\* deepest at n.
Installable(tokens, image, snaps, draft, n) ==
    /\ tokens \in Seq(Token) /\ image \in Seq(Token) /\ draft \in Seq(Token)
    /\ snaps \in SUBSET Seq(Token) /\ \A t \in snaps : t # <<>> /\ IsPrefix(t, tokens)
    /\ IsPrefix(tokens, image) /\ IsPrefix(draft, image) /\ Len(image) <= MaxCtx
    /\ n \in Nat /\ (\E t \in snaps : Len(t) = n) /\ \A t \in snaps : Len(t) <= n

\* A slot installed from snapshots along its tokens can be resumed at the deepest.
LEMMA InstalledIs ==
    ASSUME NEW tokens, NEW image, NEW snaps, NEW draft, NEW n,
           Installable(tokens, image, snaps, draft, n), clock \in Nat
    PROVE  /\ Sound(Installed(tokens, image, snaps, draft), clock)
           /\ Backed(Installed(tokens, image, snaps, draft))
           /\ Installed(tokens, image, snaps, draft).cache.tokens = tokens
           /\ HasSnapshotAt(Installed(tokens, image, snaps, draft).cache, n)
  <1>0. /\ tokens \in Seq(Token) /\ image \in Seq(Token) /\ draft \in Seq(Token)
        /\ snaps \in SUBSET Seq(Token) /\ \A t \in snaps : t # <<>> /\ IsPrefix(t, tokens)
        /\ IsPrefix(tokens, image) /\ IsPrefix(draft, image) /\ Len(image) <= MaxCtx
        /\ n \in Nat /\ (\E t \in snaps : Len(t) = n) /\ \A t \in snaps : Len(t) <= n
    BY DEF Installable
  <1> DEFINE lens == {Len(t) : t \in snaps}
             shallowest == {t \in snaps : Len(t) = Min(lens)}
             rest == snaps \ shallowest
             ring == {t \in rest : Cardinality({u \in rest : Len(u) > Len(t)}) < RingBound}
             c == [tokens |-> tokens, anchor |-> shallowest, ring |-> ring]
             s == Installed(tokens, image, snaps, draft)
  <1>1. IsFiniteSet(snaps) /\ OfDistinctLengths(snaps)
    BY <1>0, PrefixesAreFew
  <1>2. \A t \in shallowest, u \in shallowest : t = u
    BY <1>1 DEF OfDistinctLengths
  <1>3. shallowest \subseteq snaps
    OBVIOUS
  <1>4. PICK deepest \in snaps : Len(deepest) = n
    BY <1>0
  <1> HIDE DEF shallowest
  <1>5. /\ rest \in SUBSET Seq(Token) /\ IsFiniteSet(rest) /\ OfDistinctLengths(rest)
        /\ rest \subseteq snaps
    BY <1>0, <1>1, FS_Subset DEF OfDistinctLengths
  <1>6. deepest \in rest \/ deepest \in shallowest
    BY <1>4
  <1>7. \A t \in rest : Len(t) <= Len(deepest)
    BY <1>0, <1>4
  <1> HIDE DEF rest
  <1>8. ring \subseteq rest /\ RingBound \in Nat /\ RingBound > 0
    BY RingBoundIs
  <1>9. ring = {t \in rest : Cardinality({u \in rest : Len(u) > Len(t)}) < RingBound}
    OBVIOUS
  <1> HIDE DEF ring
  <1>10. /\ IsFiniteSet(ring) /\ Cardinality(ring) <= RingBound
         /\ deepest \in rest => deepest \in ring
    BY <1>5, <1>7, <1>8, <1>9, NewestAreKept
  <1>11. [Install(snaps) EXCEPT !.tokens = tokens] = c
    <2>1. Install(snaps) = [tokens |-> <<>>, anchor |-> shallowest, ring |-> ring]
      BY DEF Install, ring, RingBound, rest, shallowest
    <2>2. [Install(snaps) EXCEPT !.tokens = tokens]
             = [f \in DOMAIN Install(snaps) |-> IF f = "tokens" THEN tokens ELSE Install(snaps)[f]]
      OBVIOUS
    <2> QED
      BY <2>1, <2>2
  <1>12. s = [cache |-> c, image |-> image, draft |-> draft, agrees |-> 0, used |-> clock]
    BY <1>11 DEF Installed
  <1> HIDE DEF s
  <1>13. /\ c \in CacheOf(Token) /\ c.tokens = tokens
         /\ AllSnapshots(c) \subseteq snaps /\ deepest \in AllSnapshots(c)
         /\ Fits(c)
    BY <1>0, <1>2, <1>3, <1>5, <1>6, <1>8, <1>10 DEF CacheOf, AllSnapshots, Fits
  <1> HIDE DEF c
  <1>14. /\ s \in SlotOf /\ s.cache = c /\ s.image = image /\ s.draft = draft /\ s.used = clock
         /\ s.agrees = 0
    BY <1>0, <1>12, <1>13 DEF SlotOf
  <1>15. Len(tokens) <= MaxCtx /\ 0 <= MaxCtx
    BY <1>0, SlotConstantsOK, PrefixPointwise
  <1>16. Sound(s, clock) /\ Backed(s)
    BY <1>0, <1>13, <1>14, <1>15 DEF Sound, Backed, Along
  <1>17. HasSnapshotAt(s.cache, n)
    BY <1>4, <1>13, <1>14 DEF HasSnapshotAt
  <1> QED
    BY <1>13, <1>14, <1>16, <1>17 DEF s

---------------------------------------------------------------------------
(* Which slot serves a prompt.                                             *)

LEMMA SlotsAre ==
    ASSUME SlotsTyped
    PROVE  /\ slots \in Seq(SlotOf) /\ Len(slots) \in Nat /\ DOMAIN slots = 1..Len(slots)
           /\ clock \in Nat /\ maxSlots \in Nat \ {0} /\ live \in Nat
           /\ \A i \in DOMAIN slots : slots[i] \in SlotOf /\ slots[i].used \in 0..clock
  <1>1. slots \in Seq(SlotOf) /\ Len(slots) \in Nat /\ DOMAIN slots = 1..Len(slots)
    BY DEF SlotsTyped
  <1>2. clock \in Nat /\ maxSlots \in Nat \ {0} /\ live \in Nat
    BY <1>1, SlotConstantsOK DEF SlotsTyped
  <1>3. \A i \in DOMAIN slots : slots[i] \in SlotOf /\ slots[i].used \in 0..clock
    BY <1>2, SlotFields DEF SlotsTyped, Sound
  <1> QED
    BY <1>1, <1>2, <1>3

LEMMA MostRecentIs ==
    ASSUME SlotsTyped, NEW S \in SUBSET DOMAIN slots, S # {}
    PROVE  MostRecent(S) \in S
  <1> DEFINE used == {slots[i].used : i \in S}
             last == {i \in S : slots[i].used = Max(used)}
  <1>1. clock \in Nat /\ Len(slots) \in Nat /\ \A i \in S : slots[i].used \in 0..clock /\ i \in 0..Len(slots)
    BY SlotsAre
  <1>2. used \subseteq 0..clock /\ used # {}
    BY <1>1
  <1>3. Max(used) \in used /\ \A m \in used : m <= Max(used)
    <2> HIDE DEF used
    <2> QED
      BY <1>1, <1>2, MaxIs
  <1>4. last \subseteq 0..Len(slots) /\ last # {}
    BY <1>1, <1>3
  <1>5. Max(last) \in last /\ \A m \in last : m <= Max(last)
    <2> HIDE DEF last
    <2> QED
      BY <1>1, <1>4, MaxIs
  <1> DEFINE k == Max(last)
  <1>6. k \in S /\ slots[k].used = Max(used) /\ \A j \in S : slots[j].used = Max(used) => j <= k
    BY <1>5
  <1>7. \A j \in S : slots[j].used \in used
    OBVIOUS
  <1> HIDE DEF k, used, last
  <1>8. \A j \in S : slots[j].used < slots[k].used \/ (slots[j].used = slots[k].used /\ j <= k)
    BY <1>1, <1>2, <1>3, <1>6, <1>7
  <1> QED
    BY <1>6, <1>8 DEF MostRecent

LEMMA LeastRecentIs ==
    ASSUME SlotsTyped, NEW S \in SUBSET DOMAIN slots, S # {}
    PROVE  LeastRecent(S) \in S
  <1> DEFINE used == {slots[i].used : i \in S}
             first == {i \in S : slots[i].used = Min(used)}
  <1>1. \A i \in S : slots[i].used \in Nat /\ i \in Nat
    BY SlotsAre
  <1>2. used \subseteq Nat /\ used # {}
    BY <1>1
  <1>3. Min(used) \in used /\ \A m \in used : Min(used) <= m
    <2> HIDE DEF used
    <2> QED
      BY <1>2, MinIs
  <1>4. first \subseteq Nat /\ first # {}
    BY <1>1, <1>3
  <1>5. Min(first) \in first /\ \A m \in first : Min(first) <= m
    <2> HIDE DEF first
    <2> QED
      BY <1>4, MinIs
  <1> DEFINE k == Min(first)
  <1>6. k \in S /\ slots[k].used = Min(used) /\ \A j \in S : slots[j].used = Min(used) => k <= j
    BY <1>5
  <1>7. \A j \in S : slots[j].used \in used
    OBVIOUS
  <1> HIDE DEF k, used, first
  <1>8. \A j \in S : slots[k].used < slots[j].used \/ (slots[k].used = slots[j].used /\ k <= j)
    BY <1>1, <1>2, <1>3, <1>6, <1>7
  <1> QED
    BY <1>6, <1>8 DEF LeastRecent

\* Room found is room, and what it takes over is a candidate.
LEMMA RoomIs ==
    ASSUME SlotsTyped, NEW S \in SUBSET DOMAIN slots, RoomAmong(S) # {}
    PROVE  Room(The(RoomAmong(S))) /\ (The(RoomAmong(S)) = 0 \/ The(RoomAmong(S)) \in S)
  <1>1. Len(slots) \in Nat /\ DOMAIN slots = 1..Len(slots)
    BY SlotsAre
  <1>2. CASE Len(slots) < maxSlots
    <2>1. The(RoomAmong(S)) = 0
      BY <1>2 DEF RoomAmong, The
    <2> QED
      BY <1>1, <1>2, <2>1 DEF Room
  <1>3. CASE ~(Len(slots) < maxSlots)
    <2>1. S # {} /\ The(RoomAmong(S)) = LeastRecent(S)
      BY <1>3 DEF RoomAmong, The
    <2>2. LeastRecent(S) \in S
      BY <2>1, LeastRecentIs
    <2> QED
      BY <1>1, <2>1, <2>2 DEF Room
  <1> QED
    BY <1>2, <1>3

\* Where slot i resumes the prompt, if at all: at a position its history shares
\* with it, and that a snapshot makes resumable unless nothing is rewound.
LEMMA ResumeInIs ==
    ASSUME SlotsTyped, NEW prompt \in Seq(Token), prompt # <<>>, NEW i \in DOMAIN slots,
           NEW pos, pos = ResumeIn(i, prompt)
    PROVE  /\ pos \in Nat /\ pos < Len(prompt)
           /\ pos > 0 =>
                /\ Shares(slots[i].cache.tokens, pos, prompt)
                /\ i # live => slots[i].image # <<>> /\ HasSnapshotAt(slots[i].cache, pos)
                /\ i = live =>
                     LET how == Plan(slots[live].cache, prompt).how
                     IN  /\ how \in {"extend", "restore"}
                         /\ how = "extend" => pos = Len(slots[live].cache.tokens)
                         /\ how = "restore" => HasSnapshotAt(slots[live].cache, pos)
  <1> DEFINE c == slots[i].cache
             shared == SharedWith(c, prompt)
             back == RewindTo(c, shared)
  <1>1. c.tokens \in Seq(Token) /\ Len(c.tokens) \in Nat /\ Len(prompt) \in Nat \ {0}
    <2>1. c.tokens \in Seq(Token)
      BY SlotsAre, SlotFields
    <2> QED
      BY <2>1
  <1> HIDE DEF c
  <1>2. shared \in 0..Len(c.tokens) /\ shared < Len(prompt) /\ Upto(c.tokens, shared) = Upto(prompt, shared)
    BY <1>1, SharedWithIs
  <1>3. shared \in Nat
    BY <1>1, <1>2
  <1> HIDE DEF shared
  <1>4. back \in 0..shared /\ (back > 0 => HasSnapshotAt(c, back))
    BY <1>3, RewindToIs
  <1> HIDE DEF back
  <1>5. \A n \in 0..shared : /\ n < Len(prompt)
                             /\ n > 0 => Shares(c.tokens, n, prompt)
    <2> TAKE n \in 0..shared
    <2>1. n < Len(prompt) /\ n \in 0..Len(c.tokens)
      BY <1>1, <1>2, <1>3
    <2>2. Upto(c.tokens, n) = Upto(prompt, n)
      BY <1>1, <1>2, <1>3, AgreeBelow
    <2>3. n > 0 => n \in 1..Len(c.tokens)
      BY <1>1, <2>1
    <2> QED
      BY <2>1, <2>2, <2>3 DEF Shares
  <1>6. CASE i = live
    <2>1. Plan(c, prompt) = IF shared = Len(c.tokens) THEN [how |-> "extend", pos |-> shared]
                            ELSE IF back > 0 THEN [how |-> "restore", pos |-> back]
                            ELSE [how |-> "cold", pos |-> 0]
      BY DEF Plan, shared, back
    <2>2. pos = Plan(c, prompt).pos /\ c = slots[live].cache
      BY <1>6 DEF ResumeIn, c
    <2>3. pos \in 0..shared
      BY <1>3, <1>4, <2>1, <2>2
    <2>4. pos > 0 => \/ Plan(c, prompt).how = "extend" /\ pos = Len(c.tokens)
                     \/ Plan(c, prompt).how = "restore" /\ HasSnapshotAt(c, pos)
      BY <1>4, <2>1, <2>2
    <2>5. pos \in Nat /\ pos < Len(prompt) /\ (pos > 0 => Shares(c.tokens, pos, prompt))
      BY <1>3, <1>5, <2>3
    <2> QED
      BY <1>6, <2>2, <2>4, <2>5 DEF c
  <1>7. CASE i # live
    <2>1. pos = IF slots[i].image = <<>> THEN 0 ELSE back
      BY <1>7 DEF ResumeIn, back, shared, c
    <2>2. pos \in 0..shared /\ (pos > 0 => slots[i].image # <<>> /\ HasSnapshotAt(c, pos))
      BY <1>3, <1>4, <2>1
    <2>3. pos \in Nat /\ pos < Len(prompt) /\ (pos > 0 => Shares(c.tokens, pos, prompt))
      BY <1>3, <1>5, <2>2
    <2> QED
      BY <1>7, <2>2, <2>3 DEF c
  <1> QED
    BY <1>6, <1>7

LEMMA BestSlotIs ==
    ASSUME SlotsTyped, slots # <<>>, NEW prompt \in Seq(Token), prompt # <<>>
    PROVE  BestSlot(prompt) \in DOMAIN slots
  <1> DEFINE depths == {ResumeIn(i, prompt) : i \in DOMAIN slots}
             deepest == {i \in DOMAIN slots : \A j \in DOMAIN slots :
                                                 ResumeIn(j, prompt) <= ResumeIn(i, prompt)}
  <1>1. \A i \in DOMAIN slots : ResumeIn(i, prompt) \in Nat /\ ResumeIn(i, prompt) < Len(prompt)
    BY ResumeInIs
  <1>2. Len(prompt) \in Nat /\ DOMAIN slots # {}
    BY SlotsAre
  <1>3. depths \subseteq 0..Len(prompt) /\ depths # {}
    BY <1>1, <1>2
  <1>4. Max(depths) \in depths /\ \A m \in depths : m <= Max(depths)
    <2> HIDE DEF depths
    <2> QED
      BY <1>2, <1>3, MaxIs
  <1>5. deepest \subseteq DOMAIN slots /\ deepest # {}
    BY <1>4
  <1> HIDE DEF deepest
  <1>6. MostRecent(deepest) \in deepest
    BY <1>5, MostRecentIs
  <1>7. BestSlot(prompt) = IF live \in deepest THEN live ELSE MostRecent(deepest)
    BY DEF BestSlot, deepest
  <1> QED
    BY <1>5, <1>6, <1>7

\* What choose() returns is a choice that can be carried out.
LEMMA ChooseIs ==
    ASSUME SlotsTyped, NEW prompt \in Seq(Token), prompt # <<>>, NEW ch, ch = Choose(prompt)
    PROVE  /\ ch.how \in {"extend", "restore", "swap", "fresh", "cold"}
           /\ ch.pos \in Nat /\ ch.pos < Len(prompt) /\ ch.slot \in 0..Len(slots)
           /\ ch.how \in {"extend", "restore", "swap"} =>
                 /\ ch.slot \in DOMAIN slots
                 /\ Shares(slots[ch.slot].cache.tokens, ch.pos, prompt)
           /\ ch.how \in {"extend", "restore", "cold"} => live # 0 /\ ch.slot = live
           /\ ch.how = "extend" => ch.pos = Len(slots[live].cache.tokens)
           /\ ch.how = "restore" => HasSnapshotAt(slots[live].cache, ch.pos)
           /\ ch.how = "swap" => /\ ch.slot # live /\ slots[ch.slot].image # <<>>
                                 /\ HasSnapshotAt(slots[ch.slot].cache, ch.pos)
           /\ ch.how = "fresh" => Room(ch.slot)
           /\ ch.how \in {"fresh", "cold"} => ch.pos = 0
  <1> DEFINE best == BestSlot(prompt)
             resume == IF slots = <<>> THEN 0 ELSE ResumeIn(best, prompt)
             how == Plan(slots[live].cache, prompt).how
  <1>1. /\ Len(slots) \in Nat /\ DOMAIN slots = 1..Len(slots) /\ maxSlots \in Nat \ {0}
        /\ live \in 0..Len(slots) /\ Len(prompt) \in Nat \ {0}
    BY SlotsAre DEF SlotsTyped
  <1>2. /\ resume \in Nat /\ resume < Len(prompt)
        /\ resume > 0 =>
             /\ best \in DOMAIN slots
             /\ Shares(slots[best].cache.tokens, resume, prompt)
             /\ best # live => slots[best].image # <<>> /\ HasSnapshotAt(slots[best].cache, resume)
             /\ best = live => /\ how \in {"extend", "restore"}
                               /\ how = "extend" => resume = Len(slots[live].cache.tokens)
                               /\ how = "restore" => HasSnapshotAt(slots[live].cache, resume)
    <2>1. CASE slots = <<>>
      BY <2>1, <1>1
    <2>2. CASE slots # <<>>
      <3>1. best \in DOMAIN slots
        BY <2>2, BestSlotIs
      <3> HIDE DEF best
      <3>2. resume = ResumeIn(best, prompt)
        BY <2>2
      <3> HIDE DEF resume
      <3> QED
        BY <3>1, <3>2, ResumeInIs
    <2> QED
      BY <2>1, <2>2
  <1>3. ch = IF resume > 0 /\ best = live THEN [how |-> how, slot |-> live, pos |-> resume]
             ELSE IF resume > 0 THEN [how |-> "swap", slot |-> best, pos |-> resume]
             ELSE IF FreshSlot # {} THEN [how |-> "fresh", slot |-> The(FreshSlot), pos |-> 0]
             ELSE [how |-> "cold", slot |-> live, pos |-> 0]
    BY DEF Choose
  <1> HIDE DEF best, resume, how
  <1>4. CASE resume > 0 /\ best = live
    <2>1. ch.how = how /\ ch.slot = live /\ ch.pos = resume
      BY <1>3, <1>4
    <2>2. live \in DOMAIN slots /\ live # 0
      BY <1>1, <1>2, <1>4
    <2> QED
      BY <1>1, <1>2, <1>4, <2>1, <2>2
  <1>5. CASE resume > 0 /\ best # live
    <2>1. ch.how = "swap" /\ ch.slot = best /\ ch.pos = resume
      BY <1>3, <1>5
    <2> QED
      BY <1>1, <1>2, <1>5, <2>1
  <1>6. CASE ~(resume > 0) /\ FreshSlot # {}
    <2>1. ch.how = "fresh" /\ ch.slot = The(FreshSlot) /\ ch.pos = 0
      BY <1>3, <1>6
    <2>2. Room(The(FreshSlot))
      BY <1>6, RoomIs DEF FreshSlot, Cold
    <2> QED
      BY <1>1, <2>1, <2>2 DEF Room
  <1>7. CASE ~(resume > 0) /\ FreshSlot = {}
    <2>1. ch.how = "cold" /\ ch.slot = live /\ ch.pos = 0
      BY <1>3, <1>7
    <2>2. ~(Len(slots) < maxSlots) /\ Cold = {}
      BY <1>7 DEF FreshSlot, RoomAmong
    <2>3. 1 \in DOMAIN slots
      BY <1>1, <2>2
    <2>4. live # 0
      BY <2>2, <2>3 DEF Cold
    <2> QED
      BY <1>1, <2>1, <2>4
  <1> QED
    BY <1>4, <1>5, <1>6, <1>7

---------------------------------------------------------------------------
(* What is planned for a prompt.                                           *)

LEMMA DeepestSharedIs ==
    ASSUME SlotsTyped, NEW prompt \in Seq(Token), prompt # <<>>
    PROVE  DeepestShared(prompt) \in Nat
  <1> DEFINE S == {0} \cup {SharedWith(slots[i].cache, prompt) : i \in DOMAIN slots}
                      \cup {SharedWith(im, prompt) : im \in stored}
  <1>1. Len(prompt) \in Nat \ {0}
    OBVIOUS
  <1>2. ASSUME NEW c, c.tokens \in Seq(Token) PROVE SharedWith(c, prompt) \in 0..Len(prompt)
    <2>1. /\ SharedWith(c, prompt) \in 0..Len(c.tokens) /\ SharedWith(c, prompt) < Len(prompt)
          /\ Len(c.tokens) \in Nat
      BY <1>2, SharedWithIs
    <2> QED
      BY <1>1, <2>1
  <1>3. \A i \in DOMAIN slots : slots[i].cache.tokens \in Seq(Token)
    BY SlotsAre, SlotFields
  <1>4. \A im \in stored : im.tokens \in Seq(Token)
    BY DEF SlotsTyped, Storable, ImageOf
  <1>5. S \subseteq 0..Len(prompt) /\ S # {}
    BY <1>1, <1>2, <1>3, <1>4
  <1>6. DeepestShared(prompt) = Max(S)
    BY DEF DeepestShared
  <1> HIDE DEF S
  <1>7. Max(S) \in S
    BY <1>1, <1>5, MaxIs
  <1>8. Max(S) \in 0..Len(prompt)
    BY <1>5, <1>7
  <1> QED
    BY <1>6, <1>8

LEMMA StoredResumeIs ==
    ASSUME NEW im, Storable(im), NEW prompt \in Seq(Token), prompt # <<>>,
           NEW pos, pos = StoredResume(im, prompt)
    PROVE  /\ pos \in Nat /\ pos < Len(prompt)
           /\ pos > 0 => /\ Shares(im.tokens, pos, prompt)
                         /\ \E s \in im.snaps : Len(s) = pos
  <1> DEFINE shared == SharedWith(im, prompt)
             S == {0} \cup {Len(s) : s \in {t \in im.snaps : Len(t) <= shared}}
  <1>1. im.tokens \in Seq(Token) /\ \A s \in im.snaps : s \in Seq(Token)
    BY DEF Storable, ImageOf
  <1>2. Len(prompt) \in Nat \ {0} /\ Len(im.tokens) \in Nat /\ \A s \in im.snaps : Len(s) \in Nat
    BY <1>1
  <1>3. /\ shared \in 0..Len(im.tokens) /\ shared < Len(prompt)
        /\ Upto(im.tokens, shared) = Upto(prompt, shared)
    BY <1>1, SharedWithIs
  <1>4. pos = Max(S)
    BY DEF StoredResume
  <1> HIDE DEF shared
  <1>5. S \subseteq 0..shared /\ S # {} /\ shared \in Nat
    BY <1>2, <1>3
  <1>6. \A n \in S : n > 0 => \E s \in im.snaps : Len(s) = n
    OBVIOUS
  <1> HIDE DEF S
  <1>7. pos \in S
    BY <1>4, <1>5, MaxIs
  <1>8. pos \in 0..shared
    BY <1>5, <1>7
  <1>9. Upto(im.tokens, pos) = Upto(prompt, pos)
    BY <1>1, <1>2, <1>3, <1>8, AgreeBelow
  <1>10. pos \in Nat /\ pos < Len(prompt) /\ (pos > 0 => pos \in 1..Len(im.tokens))
    BY <1>2, <1>3, <1>8
  <1> QED
    BY <1>6, <1>7, <1>9, <1>10 DEF Shares

\* Between jobs, and until the page-out, snapshots lie along their slot's history.
LEMMA SnapshotsLieAlong ==
    ASSUME SlotsTyped, ColdBacked, LiveMatched, pc \in {"idle", "dispatching"},
           NEW i \in DOMAIN slots
    PROVE  /\ Along(slots[i].cache, slots[i].cache.tokens)
           /\ \A t \in AllSnapshots(slots[i].cache) : t \in Seq(Token) /\ t # <<>>
           /\ i = live => slots[i].cache.tokens = rows
  <1>1. \A t \in AllSnapshots(slots[i].cache) : t \in Seq(Token) /\ t # <<>>
    BY SlotsAre, SlotFields DEF SlotsTyped, Sound
  <1>2. CASE i = live
    <2>1. live # 0
      BY <1>2, SlotsAre
    <2> QED
      BY <1>1, <1>2, <2>1 DEF LiveMatched, Matches
  <1>3. CASE i # live
    BY <1>1, <1>3 DEF ColdBacked, Backed, Cold
  <1> QED
    BY <1>2, <1>3

\* A plan, field by field.
PlanRecord(kind, j, shared, slot, pos, image, target, source, inherited) ==
    [kind |-> kind, prompt |-> j.prompt, boundary |-> j.boundary, anchor |-> j.anchor,
     shared |-> shared, slot |-> slot, pos |-> pos, spare |-> 0, stops |-> {}, image |-> image,
     target |-> target, source |-> source, inherited |-> inherited]

\* A request that can be planned for.
Askable(j) ==
    /\ j.prompt \in Seq(Token) /\ j.prompt # <<>> /\ Len(j.prompt) < MaxCtx
    /\ j.boundary \in Nat /\ j.boundary < Len(j.prompt) /\ j.anchor \in Nat

LEMMA PlanRecordIs ==
    ASSUME NEW j, Askable(j), NEW kind, NEW shared \in Nat, NEW slot \in Nat, NEW pos \in Nat,
           pos < Len(j.prompt), NEW image \in ImageOf, NEW target \in Nat, NEW source \in Nat,
           NEW inherited \in SUBSET Seq(Token),
           kind \in {"extend", "restore", "cold", "fresh", "swap", "fork", "hydrate"},
           NEW p, p = PlanRecord(kind, j, shared, slot, pos, image, target, source, inherited)
    PROVE  /\ Request(p) /\ p.kind = kind /\ p.prompt = j.prompt /\ p.slot = slot /\ p.pos = pos
           /\ p.image = image /\ p.target = target /\ p.source = source
           /\ p.inherited = inherited
  <1>1. /\ p.kind = kind /\ p.prompt = j.prompt /\ p.slot = slot /\ p.pos = pos
        /\ p.image = image /\ p.target = target /\ p.source = source
        /\ p.inherited = inherited /\ p.boundary = j.boundary
    BY DEF PlanRecord
  <1>2. p \in JobOf
    BY DEF PlanRecord, JobOf, Askable
  <1> QED
    BY <1>1, <1>2 DEF Request, Askable

LEMMA PlansAre ==
    ASSUME SlotsTyped, ColdBacked, CachesTyped, LiveMatched, pc \in {"idle", "dispatching"},
           NEW j, Askable(j), NEW p \in Plans(j)
    PROVE  Request(p) /\ Planned(p)
  <1> DEFINE choice == Choose(j.prompt)
             shared == DeepestShared(j.prompt)
             base == [NoPlan EXCEPT !.prompt = j.prompt, !.boundary = j.boundary,
                                    !.anchor = j.anchor, !.shared = shared]
  <1>1. /\ choice.how \in {"extend", "restore", "swap", "fresh", "cold"}
        /\ choice.pos \in Nat /\ choice.pos < Len(j.prompt) /\ choice.slot \in 0..Len(slots)
        /\ choice.how \in {"extend", "restore", "swap"} =>
              /\ choice.slot \in DOMAIN slots
              /\ Shares(slots[choice.slot].cache.tokens, choice.pos, j.prompt)
        /\ choice.how \in {"extend", "restore", "cold"} => live # 0 /\ choice.slot = live
        /\ choice.how = "extend" => choice.pos = Len(slots[live].cache.tokens)
        /\ choice.how = "restore" => HasSnapshotAt(slots[live].cache, choice.pos)
        /\ choice.how = "swap" => /\ choice.slot # live /\ slots[choice.slot].image # <<>>
                                  /\ HasSnapshotAt(slots[choice.slot].cache, choice.pos)
        /\ choice.how = "fresh" => Room(choice.slot)
        /\ choice.how \in {"fresh", "cold"} => choice.pos = 0
    BY ChooseIs DEF Askable
  <1>2. shared \in Nat /\ Len(slots) \in Nat /\ Len(j.prompt) \in Nat /\ j.prompt \in Seq(Token)
    BY DeepestSharedIs, SlotsAre DEF Askable
  <1>3. NoImage \in ImageOf /\ {} \in SUBSET Seq(Token) /\ 0 \in Nat
    BY DEF NoImage, ImageOf
  <1>4. base = PlanRecord("none", j, shared, 0, 0, NoImage, 0, 0, {})
    <2>1. ASSUME NEW b, b = base
          PROVE  b = PlanRecord("none", j, shared, 0, 0, NoImage, 0, 0, {})
      <3>1. b = [f \in DOMAIN NoPlan |-> IF f = "shared" THEN shared
                   ELSE IF f = "anchor" THEN j.anchor ELSE IF f = "boundary" THEN j.boundary
                   ELSE IF f = "prompt" THEN j.prompt ELSE NoPlan[f]]
        BY <2>1
      <3> HIDE DEF shared
      <3> QED
        BY <3>1 DEF NoPlan, PlanRecord
    <2> QED
      BY <2>1
  <1>5. \/ \E im \in Candidates(j.prompt, choice.pos) :
             /\ FreshSlot # {}
             /\ p = [base EXCEPT !.kind = "hydrate", !.image = im,
                                 !.pos = StoredResume(im, j.prompt), !.target = The(FreshSlot)]
        \/ /\ ForkWanted(choice)
           /\ p = [base EXCEPT !.kind = "fork", !.source = choice.slot, !.pos = choice.pos,
                               !.target = The(ForkTarget(choice.slot)),
                               !.inherited = Inherited(choice.slot, choice.pos)]
        \/ p = [base EXCEPT !.kind = choice.how, !.slot = choice.slot, !.pos = choice.pos]
    BY DEF Plans
  <1> HIDE DEF choice, shared, base
  <1>6. ASSUME NEW im \in Candidates(j.prompt, choice.pos), FreshSlot # {},
               p = [base EXCEPT !.kind = "hydrate", !.image = im,
                                !.pos = StoredResume(im, j.prompt), !.target = The(FreshSlot)]
        PROVE  Request(p) /\ Planned(p)
    <2> DEFINE pos == StoredResume(im, j.prompt)
               target == The(FreshSlot)
    <2>1. p = PlanRecord("hydrate", j, shared, 0, pos, im, target, 0, {})
      <3>1. p = [f \in DOMAIN base |-> IF f = "target" THEN target ELSE IF f = "pos" THEN pos
                   ELSE IF f = "image" THEN im ELSE IF f = "kind" THEN "hydrate" ELSE base[f]]
        BY <1>6
      <3> HIDE DEF pos, target
      <3> QED
        BY <1>4, <3>1 DEF PlanRecord
    <2>2. im \in stored /\ pos > choice.pos
      BY DEF Candidates
    <2>3. Storable(im) /\ im \in ImageOf
      BY <2>2 DEF SlotsTyped, Storable
    <2>4. /\ pos \in Nat /\ pos < Len(j.prompt)
          /\ pos > 0 => /\ Shares(im.tokens, pos, j.prompt)
                        /\ \E s \in im.snaps : Len(s) = pos
      BY <2>3, StoredResumeIs DEF Askable
    <2>5. pos > 0
      BY <1>1, <2>2, <2>4
    <2>6. Room(target) /\ target \in Nat
      <3>1. Room(target)
        BY <1>6, RoomIs DEF FreshSlot, Cold
      <3> QED
        BY <1>2, <3>1 DEF Room
    <2> HIDE DEF pos, target
    <2>7. /\ Request(p) /\ p.kind = "hydrate" /\ p.prompt = j.prompt /\ p.pos = pos
          /\ p.image = im /\ p.target = target
      BY <1>2, <1>3, <2>1, <2>3, <2>4, <2>6, PlanRecordIs
    <2> QED
      BY <2>3, <2>4, <2>5, <2>6, <2>7 DEF Planned
  <1>7. ASSUME ForkWanted(choice),
               p = [base EXCEPT !.kind = "fork", !.source = choice.slot, !.pos = choice.pos,
                                !.target = The(ForkTarget(choice.slot)),
                                !.inherited = Inherited(choice.slot, choice.pos)]
        PROVE  Request(p) /\ Planned(p)
    <2> DEFINE source == choice.slot
               pos == choice.pos
               target == The(ForkTarget(source))
               inherited == Inherited(source, pos)
    <2>1. p = PlanRecord("fork", j, shared, 0, pos, NoImage, target, source, inherited)
      <3>1. p = [f \in DOMAIN base |-> IF f = "inherited" THEN inherited
                   ELSE IF f = "target" THEN target ELSE IF f = "pos" THEN pos
                   ELSE IF f = "source" THEN source ELSE IF f = "kind" THEN "fork" ELSE base[f]]
        BY <1>7
      <3> HIDE DEF source, pos, target, inherited
      <3> QED
        BY <1>4, <3>1 DEF PlanRecord
    <2>2. choice.how \in {"restore", "swap"} /\ ForkTarget(source) # {}
      BY <1>7 DEF ForkWanted
    <2>3. /\ source \in DOMAIN slots /\ source \in Nat /\ source # 0
          /\ Shares(slots[source].cache.tokens, pos, j.prompt)
          /\ HasSnapshotAt(slots[source].cache, pos)
          /\ source # live => slots[source].image # <<>>
      BY <1>1, <2>2, SlotsAre
    <2>4. Room(target) /\ target # source /\ target \in Nat
      <3> DEFINE others == Cold \ {source}
      <3>1. others \in SUBSET DOMAIN slots /\ source \notin others
        BY DEF Cold
      <3>2. target = The(RoomAmong(others)) /\ RoomAmong(others) # {}
        BY <2>2 DEF ForkTarget
      <3> HIDE DEF others
      <3>3. Room(target) /\ (target = 0 \/ target \in others)
        BY <3>1, <3>2, RoomIs
      <3> QED
        BY <1>2, <2>3, <3>1, <3>3 DEF Room
    <2>5. /\ Along(slots[source].cache, slots[source].cache.tokens)
          /\ \A t \in AllSnapshots(slots[source].cache) : t \in Seq(Token) /\ t # <<>>
          /\ slots[source].cache.tokens \in Seq(Token)
      BY <2>3, SnapshotsLieAlong, SlotsAre, SlotFields
    <2>6. /\ pos \in 0..Len(slots[source].cache.tokens) /\ Len(slots[source].cache.tokens) \in Nat
          /\ Upto(slots[source].cache.tokens, pos) = Upto(j.prompt, pos)
      BY <2>3, <2>5 DEF Shares
    <2>7. \A t \in inherited : t \in Seq(Token) /\ t # <<>> /\ IsPrefix(t, Upto(j.prompt, pos))
      <3> TAKE t \in inherited
      <3>1. /\ t \in Seq(Token) /\ t # <<>> /\ Len(t) <= pos
            /\ IsPrefix(t, slots[source].cache.tokens)
        BY <2>5 DEF Inherited, Along
      <3> DEFINE kept == Upto(slots[source].cache.tokens, pos)
      <3>2. kept \in Seq(Token) /\ Len(kept) = pos /\ IsPrefix(kept, slots[source].cache.tokens)
        BY <2>5, <2>6, UptoIs, UptoPrefix
      <3> HIDE DEF kept
      <3>3. IsPrefix(t, kept)
        BY <2>5, <3>1, <3>2, PrefixesNest
      <3> QED
        BY <2>6, <3>1, <3>3 DEF kept
    <2>8. \E t \in inherited : Len(t) = pos
      BY <2>3, <2>6 DEF Inherited, HasSnapshotAt
    <2>9. pos \in Nat /\ pos < Len(j.prompt)
      BY <1>1
    <2> HIDE DEF source, pos, target, inherited
    <2>10. inherited \in SUBSET Seq(Token)
      BY <2>7
    <2>11. /\ Request(p) /\ p.kind = "fork" /\ p.prompt = j.prompt /\ p.pos = pos
           /\ p.target = target /\ p.source = source /\ p.inherited = inherited
      BY <1>2, <1>3, <2>1, <2>3, <2>4, <2>9, <2>10, PlanRecordIs
    <2> QED
      BY <2>3, <2>4, <2>7, <2>8, <2>11 DEF Planned
  <1>8. ASSUME p = [base EXCEPT !.kind = choice.how, !.slot = choice.slot, !.pos = choice.pos]
        PROVE  Request(p) /\ Planned(p)
    <2>1. p = PlanRecord(choice.how, j, shared, choice.slot, choice.pos, NoImage, 0, 0, {})
      <3>1. p = [f \in DOMAIN base |-> IF f = "pos" THEN choice.pos ELSE IF f = "slot" THEN choice.slot
                   ELSE IF f = "kind" THEN choice.how ELSE base[f]]
        BY <1>8
      <3> QED
        BY <1>4, <3>1 DEF PlanRecord
    <2>2. /\ Request(p) /\ p.kind = choice.how /\ p.prompt = j.prompt /\ p.pos = choice.pos
          /\ p.slot = choice.slot
      <3>1. choice.slot \in Nat
        BY <1>1, <1>2
      <3> QED
        BY <1>1, <1>2, <1>3, <2>1, <3>1, PlanRecordIs
    <2>3. choice.how \in {"extend", "restore"} => /\ live \in DOMAIN slots
                                                  /\ slots[live].cache.tokens = rows
      BY <1>1, SnapshotsLieAlong
    <2>4. choice.how = "extend" => choice.pos = Len(rows) /\ IsPrefix(rows, j.prompt)
      <3> SUFFICES ASSUME choice.how = "extend"
                   PROVE  choice.pos = Len(rows) /\ IsPrefix(rows, j.prompt)
        OBVIOUS
      <3>1. choice.pos = Len(rows) /\ Upto(rows, Len(rows)) = Upto(j.prompt, Len(rows))
        BY <1>1, <2>3 DEF Shares
      <3>2. rows \in Seq(Token) /\ Len(rows) \in Nat /\ Upto(rows, Len(rows)) = rows
        BY UptoAll DEF CachesTyped
      <3>3. Len(rows) <= Len(j.prompt)
        BY <1>1, <1>2, <3>1
      <3> QED
        BY <1>2, <3>1, <3>2, <3>3, PrefixIsUpto
    <2>5. choice.how = "swap" => choice.slot \in Cold
      BY <1>1 DEF Cold
    <2> QED
      BY <1>1, <2>2, <2>3, <2>4, <2>5 DEF Planned, Resumable
  <1> QED
    BY <1>5, <1>6, <1>7, <1>8

---------------------------------------------------------------------------
(* The initial state, and the steps that leave the slots and caches alone. *)

\* A server that was just started keeps no conversation and plans nothing.
THEOREM CInit == Init => CInv
  <1> SUFFICES ASSUME Init PROVE CInv
    OBVIOUS
  <1>1. MaxCtx \in Nat /\ MaxClock \in Nat /\ maxSlots \in Nat
    BY SlotConstantsOK DEF Init
  <1>2. slots \in Seq(SlotOf) /\ Len(slots) = 0 /\ DOMAIN slots = {}
    BY DEF Init
  <1>3. SlotsTyped
    BY <1>1, <1>2 DEF Init, SlotsTyped, Stages
  <1>4. ColdBacked /\ LiveMatched /\ LiveIsNewest
    BY <1>2 DEF Init, ColdBacked, Cold, LiveMatched, LiveIsNewest
  <1>5. CachesTyped
    BY <1>1 DEF Init, CachesTyped
  <1>6. JobPlaced
    BY DEF Init, JobPlaced
  <1> QED
    BY <1>3, <1>4, <1>5, <1>6 DEF CInv

LEMMA SlotsUnmoved ==
    ASSUME CInv, UNCHANGED <<slots, live, maxSlots, clock, caches>>, stored' \in SUBSET stored,
           pc' \in Stages,
           pc' \in {"idle", "dispatching"} => pc \in {"idle", "dispatching"},
           pc' \in {"paged_out", "installed"} => live = 0,
           pc' \in {"dispatched", "prefilling"} => live # 0, pc' # "prefilling"
    PROVE  SlotsTyped' /\ ColdBacked' /\ CachesTyped' /\ LiveMatched' /\ LiveIsNewest'
  <1>1. SlotsTyped'
    BY DEF CInv, SlotsTyped
  <1>2. ColdBacked'
    BY DEF CInv, ColdBacked, Cold
  <1>3. CachesTyped'
    BY DEF CInv, CachesTyped, caches
  <1>4. LiveMatched'
    BY DEF CInv, LiveMatched, caches
  <1>5. LiveIsNewest'
    BY DEF CInv, LiveIsNewest, Cold
  <1> QED
    BY <1>1, <1>2, <1>3, <1>4, <1>5

\* A plan stands as long as nothing it speaks of has changed.
LEMMA PlanKept ==
    ASSUME UNCHANGED <<slots, live, maxSlots, caches>>, Planned(job')
    PROVE  Planned(job)'
  BY DEF Planned, Resumable, Room, Cold, caches

LEMMA PickJobStep == CInv /\ PickJob => CInv'
  <1> SUFFICES ASSUME CInv, PickJob PROVE CInv'
    OBVIOUS
  <1>1. PICK j \in Jobs : Len(j.prompt) < MaxCtx /\ job' \in Plans(j)
    BY DEF PickJob
  <1>2. Askable(j)
    <2>1. /\ j.prompt \in Seq(Token) /\ j.prompt # <<>> /\ Len(j.prompt) \in Nat
          /\ j.boundary \in 0..(Len(j.prompt) - 1) /\ j.anchor \in Nat
      BY SlotConstantsOK
    <2> QED
      BY <1>1, <2>1 DEF Askable
  <1>3. Request(job') /\ Planned(job')
    BY <1>1, <1>2, PlansAre DEF CInv, PickJob
  <1>4. Planned(job)'
    BY <1>3, PlanKept DEF PickJob
  <1>5. SlotsTyped' /\ ColdBacked' /\ CachesTyped' /\ LiveMatched' /\ LiveIsNewest'
    BY SlotsUnmoved DEF PickJob, Stages
  <1>6. JobPlaced'
    BY <1>3, <1>4 DEF PickJob, JobPlaced
  <1> QED
    BY <1>5, <1>6 DEF CInv

LEMMA PickBatchStep == CInv /\ PickBatch => CInv'
  <1> SUFFICES ASSUME CInv, PickBatch PROVE CInv'
    OBVIOUS
  <1>1. SlotsTyped' /\ ColdBacked' /\ CachesTyped' /\ LiveMatched' /\ LiveIsNewest'
    BY SlotsUnmoved DEF PickBatch, Stages
  <1>2. JobPlaced'
    BY DEF PickBatch, JobPlaced
  <1> QED
    BY <1>1, <1>2 DEF CInv

LEMMA GiveUpEarlyStep == CInv /\ GiveUpEarly => CInv'
  <1> SUFFICES ASSUME CInv, GiveUpEarly PROVE CInv'
    OBVIOUS
  <1>1. SlotsTyped' /\ ColdBacked' /\ CachesTyped' /\ LiveMatched' /\ LiveIsNewest'
    BY SlotsUnmoved DEF GiveUpEarly, Stages
  <1>2. JobPlaced'
    BY DEF GiveUpEarly, JobPlaced
  <1> QED
    BY <1>1, <1>2 DEF CInv

LEMMA FailStep == CInv /\ Fail => CInv'
  <1> SUFFICES ASSUME CInv, Fail PROVE CInv'
    OBVIOUS
  <1>1. SlotsTyped' /\ ColdBacked' /\ CachesTyped' /\ LiveMatched' /\ LiveIsNewest'
    BY SlotsUnmoved DEF Fail, Stages
  <1>2. JobPlaced'
    BY DEF Fail, JobPlaced
  <1> QED
    BY <1>1, <1>2 DEF CInv

LEMMA ExtendLiveStep == CInv /\ ExtendLive => CInv'
  <1> SUFFICES ASSUME CInv, ExtendLive PROVE CInv'
    OBVIOUS
  <1>1. job.kind = "extend" /\ pc = "dispatching" /\ UNCHANGED <<rows, job, clock>>
    BY DEF ExtendLive, caches
  <1>2. Request(job) /\ Planned(job) /\ clock < MaxClock
    BY <1>1 DEF CInv, JobPlaced
  <1>3. live # 0 /\ Len(rows) = job.pos /\ IsPrefix(rows, job.prompt)
    BY <1>1, <1>2 DEF Planned
  <1>4. SlotsTyped' /\ ColdBacked' /\ CachesTyped' /\ LiveMatched' /\ LiveIsNewest'
    BY <1>3, SlotsUnmoved DEF ExtendLive, Stages
  <1>5. SourceApart'
    BY <1>1 DEF SourceApart
  <1>6. JobPlaced'
    BY <1>1, <1>2, <1>3, <1>5 DEF ExtendLive, JobPlaced
  <1> QED
    BY <1>4, <1>6 DEF CInv

\* A request whose plan is amended in what the plan's arm does not rely on.
LEMMA Amended ==
    ASSUME NEW j \in JobOf, NEW shared \in Nat, NEW k, k = [j EXCEPT !.shared = shared]
    PROVE  /\ k \in JobOf /\ k.kind = j.kind /\ k.prompt = j.prompt /\ k.boundary = j.boundary
           /\ k.slot = j.slot /\ k.pos = j.pos /\ k.image = j.image /\ k.target = j.target
           /\ k.source = j.source /\ k.inherited = j.inherited
  BY DEF JobOf

LEMMA HydrateUnavailableStep == CInv /\ HydrateUnavailable => CInv'
  <1> SUFFICES ASSUME CInv, HydrateUnavailable PROVE CInv'
    OBVIOUS
  <1>1. job.kind = "hydrate" /\ pc = "dispatching"
    BY DEF HydrateUnavailable
  <1>2. Request(job) /\ clock < MaxClock
    BY <1>1 DEF CInv, JobPlaced
  <1>3. Askable(job) /\ job.shared \in Nat
    BY <1>2 DEF Request, JobOf, Askable
  <1>4. PICK plan \in Plans(job) : job' = [plan EXCEPT !.shared = job.shared]
    BY DEF HydrateUnavailable
  <1>5. Request(plan) /\ Planned(plan)
    BY <1>1, <1>3, PlansAre DEF CInv
  <1>6. /\ job' \in JobOf /\ job'.kind = plan.kind /\ job'.prompt = plan.prompt
        /\ job'.boundary = plan.boundary /\ job'.slot = plan.slot /\ job'.pos = plan.pos
        /\ job'.image = plan.image /\ job'.target = plan.target /\ job'.source = plan.source
        /\ job'.inherited = plan.inherited
    BY <1>3, <1>4, <1>5, Amended DEF Request
  <1>7. Request(job') /\ Planned(job')
    BY <1>5, <1>6 DEF Request, Planned
  <1>8. Planned(job)'
    BY <1>7, PlanKept DEF HydrateUnavailable
  <1>9. SlotsTyped' /\ ColdBacked' /\ CachesTyped' /\ LiveMatched' /\ LiveIsNewest'
    BY SlotsUnmoved DEF HydrateUnavailable, Stages
  <1>10. JobPlaced'
    BY <1>1, <1>2, <1>7, <1>8 DEF HydrateUnavailable, JobPlaced
  <1> QED
    BY <1>9, <1>10 DEF CInv

---------------------------------------------------------------------------
(* The page-out.                                                           *)

\* Who leaves the cache is imaged, and the trim its image sets off takes
\* another, never the slot the plan spares.
LEMMA PageOutIs ==
    ASSUME CInv, PageOut, live # 0, rows # <<>>
    PROVE  /\ slots' \in Seq(SlotOf) /\ Len(slots') = Len(slots) /\ DOMAIN slots' = DOMAIN slots
           /\ live \in DOMAIN slots /\ slots'[live] = Paged
           /\ \A i \in DOMAIN slots \ {live} :
                 \/ slots'[i] = slots[i]
                 \/ slots'[i] = EmptySlot /\ i # Spared
           /\ stored' \in Stored(Paged)
  <1> DEFINE sl == [slots EXCEPT ![live] = Paged]
  <1>1. pc = "dispatching" /\ slots' \in Trimmed(sl, 0, Spared) /\ stored' \in Stored(Paged)
    BY DEF PageOut
  <1>2. /\ slots \in Seq(SlotOf) /\ Len(slots) \in Nat /\ DOMAIN slots = 1..Len(slots)
        /\ live \in DOMAIN slots /\ live \in Nat
        /\ \A i \in DOMAIN slots : slots[i].used \in Nat /\ slots[i].used <= clock
        /\ clock \in Nat
    BY SlotsAre DEF CInv, SlotsTyped
  <1>3. Paged \in SlotOf /\ Paged.used = clock
    BY <1>1, PagedIs DEF CInv, Sound
  <1>4. /\ sl \in Seq(SlotOf) /\ Len(sl) = Len(slots) /\ DOMAIN sl = DOMAIN slots
        /\ sl[live] = Paged /\ \A i \in DOMAIN slots \ {live} : sl[i] = slots[i]
    BY <1>2, <1>3, ExceptSeq
  <1>5. \A i \in DOMAIN slots \ {live} : slots[i].used < slots[live].used
    BY <1>1, <1>2 DEF CInv, LiveIsNewest, Cold
  <1> HIDE DEF sl
  <1>6. Newest(sl, 0, live)
    <2>1. ASSUME NEW j \in DOMAIN sl \ {0} PROVE sl[j].used < sl[live].used \/ (sl[j].used = sl[live].used /\ j <= live)
      <3>1. CASE j = live
        BY <1>2, <3>1
      <3>2. CASE j # live
        BY <1>2, <1>3, <1>4, <1>5, <3>2
      <3> QED
        BY <3>1, <3>2
    <2> QED
      BY <2>1 DEF Newest
  <1>7. /\ slots' \in Seq(SlotOf) /\ Len(slots') = Len(sl) /\ DOMAIN slots' = DOMAIN sl
        /\ \A i \in DOMAIN sl :
              \/ slots'[i] = sl[i]
              \/ slots'[i] = EmptySlot /\ i # 0 /\ i # Spared /\ ~Newest(sl, 0, i)
    BY <1>1, <1>4, TrimmedIs
  <1> QED
    BY <1>1, <1>2, <1>4, <1>6, <1>7

\* The plan outlives the page-out when the slot it rests on does.
LEMMA PlanOutlives ==
    ASSUME CInv, Planned(job), pc = "dispatching", job' = job, live' = 0, maxSlots' = maxSlots,
           job.kind \in {"hydrate", "fork", "swap", "fresh"},
           slots' \in Seq(SlotOf), Len(slots') = Len(slots),
           \A i \in DOMAIN slots : i = Spared =>
               IF i = live
               THEN /\ slots[i].cache.tokens # <<>> => slots'[i].image # <<>>
                    /\ slots[i].cache.tokens # <<>> =>
                          slots'[i].cache.tokens = slots[i].cache.tokens
               ELSE slots'[i] = slots[i]
    PROVE  Planned(job)'
  <1>1. DOMAIN slots = 1..Len(slots) /\ DOMAIN slots' = DOMAIN slots
    BY DEF CInv, SlotsTyped
  <1>2. CASE job.kind \in {"hydrate", "fresh"}
    BY <1>1, <1>2 DEF Planned, Room
  <1>3. CASE job.kind = "swap"
    <2>1. job.slot \in DOMAIN slots /\ job.slot # live /\ Spared = job.slot
      BY <1>3 DEF Planned, Resumable, Cold, Spared
    <2>2. slots'[job.slot] = slots[job.slot]
      BY <2>1
    <2>3. job.slot # live'
      BY <1>1, <2>1
    <2> QED
      BY <1>1, <1>3, <2>1, <2>2, <2>3 DEF Planned, Resumable, Cold
  <1>4. CASE job.kind = "fork"
    <2>1. /\ job.source \in DOMAIN slots /\ Spared = job.source
          /\ Shares(slots[job.source].cache.tokens, job.pos, job.prompt)
          /\ job.source # live => slots[job.source].image # <<>>
      BY <1>4 DEF Planned, Spared
    <2>2. slots[job.source].cache.tokens # <<>>
      BY <2>1 DEF Shares
    <2>3. slots'[job.source].image # <<>> /\ slots'[job.source].cache.tokens = slots[job.source].cache.tokens
      BY <2>1, <2>2
    <2> QED
      BY <1>1, <1>4, <2>1, <2>3 DEF Planned, Room
  <1> QED
    BY <1>2, <1>3, <1>4

LEMMA PageOutStep == CInv /\ PageOut => CInv'
  <1> SUFFICES ASSUME CInv, PageOut PROVE CInv'
    OBVIOUS
  <1>1. /\ pc = "dispatching" /\ pc' = "paged_out" /\ live' = 0 /\ job' = job
        /\ maxSlots' = maxSlots /\ clock' = clock /\ UNCHANGED caches
        /\ job.kind \in {"hydrate", "fork", "swap", "fresh", "batch"}
    BY DEF PageOut
  <1>2. /\ slots \in Seq(SlotOf) /\ Len(slots) \in Nat /\ DOMAIN slots = 1..Len(slots)
        /\ clock \in Nat /\ live \in 0..Len(slots)
        /\ \A i \in DOMAIN slots : Sound(slots[i], clock)
        /\ \A im \in stored : Storable(im)
    BY SlotsAre DEF CInv, SlotsTyped
  <1>3. /\ slots' \in Seq(SlotOf) /\ Len(slots') = Len(slots) /\ DOMAIN slots' = DOMAIN slots
        /\ \A i \in DOMAIN slots : Sound(slots'[i], clock) /\ Backed(slots'[i])
        /\ \A im \in stored' : Storable(im)
        /\ \A i \in DOMAIN slots : i = Spared =>
               IF i = live
               THEN /\ slots[i].cache.tokens # <<>> => slots'[i].image # <<>>
                    /\ slots[i].cache.tokens # <<>> =>
                          slots'[i].cache.tokens = slots[i].cache.tokens
               ELSE slots'[i] = slots[i]
    <2>1. CASE live = 0
      <3>1. slots' = slots /\ stored' = stored
        BY <2>1 DEF PageOut
      <3> QED
        BY <1>2, <2>1, <3>1 DEF CInv, ColdBacked, Cold
    <2>2. CASE live # 0 /\ rows = <<>>
      <3>1. slots' = [slots EXCEPT ![live] = Demoted(slots[live])] /\ stored' = stored
        BY <2>2 DEF PageOut
      <3>2. live \in DOMAIN slots /\ Matches(slots[live], rows) /\ slots[live].cache.tokens = rows
        BY <1>1, <1>2, <2>2 DEF CInv, LiveMatched
      <3>3. Sound(Demoted(slots[live]), clock) /\ Backed(Demoted(slots[live]))
        <4>1. rows \in Seq(Token)
          BY DEF CInv, CachesTyped
        <4> QED
          BY <1>2, <3>2, <4>1, DemotedIs
      <3>4. Demoted(slots[live]) \in SlotOf
        BY <3>3 DEF Sound
      <3>5. /\ slots' \in Seq(SlotOf) /\ Len(slots') = Len(slots) /\ DOMAIN slots' = DOMAIN slots
            /\ slots'[live] = Demoted(slots[live])
            /\ \A i \in DOMAIN slots \ {live} : slots'[i] = slots[i]
        BY <1>2, <3>1, <3>2, <3>4, ExceptSeq
      <3>6. \A i \in DOMAIN slots : Sound(slots'[i], clock) /\ Backed(slots'[i])
        BY <1>2, <3>3, <3>5 DEF CInv, ColdBacked, Cold
      <3> QED
        BY <1>2, <2>2, <3>1, <3>2, <3>5, <3>6
    <2>3. CASE live # 0 /\ rows # <<>>
      <3>1. /\ slots' \in Seq(SlotOf) /\ Len(slots') = Len(slots) /\ DOMAIN slots' = DOMAIN slots
            /\ live \in DOMAIN slots /\ slots'[live] = Paged
            /\ \A i \in DOMAIN slots \ {live} :
                  \/ slots'[i] = slots[i]
                  \/ slots'[i] = EmptySlot /\ i # Spared
            /\ stored' \in Stored(Paged)
        BY <2>3, PageOutIs
      <3>2. /\ Sound(Paged, clock) /\ Backed(Paged) /\ Paged.image = rows
            /\ Paged.cache.tokens = rows /\ slots[live].cache.tokens = rows
        BY <1>1, <2>3, PagedIs DEF CInv, LiveMatched
      <3>3. Sound(EmptySlot, clock) /\ Backed(EmptySlot)
        BY <1>2, EmptySlotIs
      <3>4. ASSUME NEW im \in stored' PROVE Storable(im)
        BY <1>2, <3>1, <3>2, StoredIs
      <3>5. \A i \in DOMAIN slots : Sound(slots'[i], clock) /\ Backed(slots'[i])
        BY <1>2, <3>1, <3>2, <3>3 DEF CInv, ColdBacked, Cold
      <3> QED
        BY <2>3, <3>1, <3>2, <3>4, <3>5
    <2> QED
      BY <2>1, <2>2, <2>3
  <1>4. SlotsTyped'
    BY <1>1, <1>2, <1>3 DEF CInv, SlotsTyped, Stages
  <1>5. ColdBacked'
    BY <1>3 DEF ColdBacked, Cold
  <1>6. CachesTyped' /\ LiveMatched' /\ LiveIsNewest'
    BY <1>1 DEF CInv, CachesTyped, LiveMatched, LiveIsNewest, caches
  <1>7. JobPlaced'
    <2>1. job = [kind |-> "batch", slot |-> 0, pos |-> 0] \/ (Request(job) /\ Planned(job) /\ clock < MaxClock)
      BY <1>1 DEF CInv, JobPlaced
    <2>2. CASE job = [kind |-> "batch", slot |-> 0, pos |-> 0]
      BY <1>1, <2>2 DEF JobPlaced
    <2>3. CASE Request(job) /\ Planned(job) /\ clock < MaxClock
      <3>1. job.kind \in {"hydrate", "fork", "swap", "fresh"}
        BY <1>1, <2>3 DEF Request, JobOf
      <3>2. Planned(job)'
        BY <1>1, <1>3, <2>3, <3>1, PlanOutlives
      <3> QED
        BY <1>1, <2>3, <3>1, <3>2 DEF JobPlaced
    <2> QED
      BY <2>1, <2>2, <2>3
  <1> QED
    BY <1>4, <1>5, <1>6, <1>7 DEF CInv

---------------------------------------------------------------------------
(* From the page-out to the resumed conversation.                          *)

LEMMA Installing ==
    ASSUME CInv, pc = "paged_out", job.kind \in {"fork", "hydrate"}, NEW target, Room(target),
           NEW s, Sound(s, clock), Backed(s), HasSnapshotAt(s.cache, job.pos),
           Shares(s.cache.tokens, job.pos, job.prompt),
           slots' = PutSlot(target, s), pc' = "installed",
           UNCHANGED <<live, maxSlots, clock, caches, stored>>,
           Request(job'), job'.pos = job.pos, job'.prompt = job.prompt, job'.slot = Landing(target),
           SourceApart'
    PROVE  CInv'
  <1>1. /\ slots \in Seq(SlotOf) /\ Len(slots) \in Nat /\ DOMAIN slots = 1..Len(slots)
        /\ maxSlots \in Nat /\ Len(slots) <= maxSlots
    BY SlotsAre DEF CInv, SlotsTyped
  <1>2. live = 0 /\ live' = 0 /\ s \in SlotOf
    BY DEF CInv, LiveMatched, Sound
  <1>3. /\ slots' \in Seq(SlotOf) /\ Len(slots') <= maxSlots
        /\ Landing(target) \in DOMAIN slots' /\ Landing(target) # 0
        /\ \A i \in DOMAIN slots' :
              IF i = Landing(target) THEN slots'[i] = s
              ELSE i \in DOMAIN slots /\ slots'[i] = slots[i]
    BY <1>1, <1>2, PutSlotIs
  <1>4. \A i \in DOMAIN slots : Sound(slots[i], clock) /\ Backed(slots[i])
    BY <1>1, <1>2 DEF CInv, SlotsTyped, ColdBacked, Cold
  <1>5. SlotsTyped'
    BY <1>1, <1>2, <1>3, <1>4 DEF CInv, SlotsTyped, Stages
  <1>6. ColdBacked'
    BY <1>3, <1>4 DEF ColdBacked, Cold
  <1>7. CachesTyped' /\ LiveMatched' /\ LiveIsNewest'
    BY <1>2 DEF CInv, CachesTyped, LiveMatched, LiveIsNewest, caches
  <1>8. clock < MaxClock
    <2>1. job.kind # "batch"
      OBVIOUS
    <2> QED
      BY <2>1 DEF CInv, JobPlaced
  <1>9. Resumable(job.slot, job.pos, job.prompt)'
    BY <1>2, <1>3 DEF Resumable, Cold
  <1>10. JobPlaced'
    BY <1>8, <1>9 DEF JobPlaced
  <1> QED
    BY <1>5, <1>6, <1>7, <1>10 DEF CInv

LEMMA SlotNamed ==
    ASSUME NEW j, Request(j), NEW slot \in Nat, NEW k, k = [j EXCEPT !.slot = slot]
    PROVE  /\ Request(k) /\ k.kind = j.kind /\ k.pos = j.pos /\ k.prompt = j.prompt
           /\ k.source = j.source /\ k.spare = j.spare /\ k.slot = slot
  BY DEF Request, JobOf

LEMMA SpareNamed ==
    ASSUME NEW j, Request(j), NEW spare \in Nat, NEW k, k = [j EXCEPT !.spare = spare]
    PROVE  /\ Request(k) /\ k.kind = j.kind /\ k.pos = j.pos /\ k.prompt = j.prompt
           /\ k.source = j.source /\ k.spare = spare
  BY DEF Request, JobOf

LEMMA InstallStoredStep == CInv /\ InstallStored => CInv'
  <1> SUFFICES ASSUME CInv, InstallStored PROVE CInv'
    OBVIOUS
  <1> DEFINE im == job.image
             snaps == {s \in im.snaps : Len(s) <= job.pos}
             s == Installed(im.tokens, im.rows, snaps, im.draft)
  <1>1. /\ pc = "paged_out" /\ job.kind = "hydrate" /\ slots' = PutSlot(job.target, s)
        /\ job' = [job EXCEPT !.slot = Landing(job.target)] /\ pc' = "installed"
        /\ UNCHANGED <<live, maxSlots, clock, caches, stored>>
    BY DEF InstallStored
  <1>2. Request(job) /\ Planned(job) /\ clock \in Nat /\ Len(slots) \in Nat
    BY <1>1, SlotsAre DEF CInv, JobPlaced
  <1>3. /\ Room(job.target) /\ Storable(im) /\ Shares(im.tokens, job.pos, job.prompt)
        /\ \E t \in im.snaps : Len(t) = job.pos
    BY <1>1, <1>2 DEF Planned
  <1>4. /\ im.tokens \in Seq(Token) /\ im.rows \in Seq(Token) /\ im.draft \in Seq(Token)
        /\ \A t \in im.snaps : t \in Seq(Token) /\ t # <<>> /\ IsPrefix(t, im.tokens)
        /\ IsPrefix(im.tokens, im.rows) /\ IsPrefix(im.draft, im.rows) /\ Len(im.rows) <= MaxCtx
    BY <1>3 DEF Storable, ImageOf
  <1>5. job.pos \in Nat /\ Landing(job.target) \in Nat
    BY <1>2, <1>3 DEF Request, JobOf, Room, Landing
  <1>6. /\ snaps \in SUBSET Seq(Token) /\ \A t \in snaps : t # <<>> /\ IsPrefix(t, im.tokens)
        /\ \E t \in snaps : Len(t) = job.pos
        /\ \A t \in snaps : Len(t) <= job.pos
    BY <1>3, <1>4, <1>5
  <1> HIDE DEF snaps, im
  <1>7. /\ Sound(s, clock) /\ Backed(s) /\ s.cache.tokens = im.tokens
        /\ HasSnapshotAt(s.cache, job.pos)
    <2>1. Installable(im.tokens, im.rows, snaps, im.draft, job.pos)
      BY <1>4, <1>5, <1>6 DEF Installable
    <2> QED
      BY <1>2, <2>1, InstalledIs
  <1> HIDE DEF s
  <1>8. Request(job') /\ job'.kind = job.kind /\ job'.pos = job.pos /\ job'.prompt = job.prompt /\ job'.slot = Landing(job.target)
    BY <1>1, <1>2, <1>5, SlotNamed
  <1>9. SourceApart'
    BY <1>1, <1>8 DEF SourceApart
  <1> QED
    BY <1>1, <1>3, <1>7, <1>8, <1>9, Installing

LEMMA ForkOffStep == CInv /\ ForkOff => CInv'
  <1> SUFFICES ASSUME CInv, ForkOff PROVE CInv'
    OBVIOUS
  <1> DEFINE source == slots[job.source]
             tokens == Upto(source.cache.tokens, Shorter(job.pos, Len(source.cache.tokens)))
             s == Installed(tokens, source.image, job.inherited, source.draft)
  <1>1. /\ pc = "paged_out" /\ job.kind = "fork" /\ slots' = PutSlot(job.target, s)
        /\ job' = [job EXCEPT !.spare = job.source, !.slot = Landing(job.target)]
        /\ pc' = "installed" /\ UNCHANGED <<live, maxSlots, clock, caches, stored>>
    BY DEF ForkOff
  <1>2. /\ Request(job) /\ Planned(job) /\ clock \in Nat /\ Len(slots) \in Nat
        /\ DOMAIN slots = 1..Len(slots) /\ slots \in Seq(SlotOf) /\ maxSlots \in Nat
        /\ Len(slots) <= maxSlots /\ live = 0
    BY <1>1, SlotsAre DEF CInv, JobPlaced, SlotsTyped, LiveMatched
  <1>3. /\ job.source \in DOMAIN slots /\ Room(job.target) /\ job.target # job.source
        /\ Shares(source.cache.tokens, job.pos, job.prompt)
        /\ \A t \in job.inherited : t # <<>> /\ IsPrefix(t, Upto(job.prompt, job.pos))
        /\ \E t \in job.inherited : Len(t) = job.pos
    BY <1>1, <1>2 DEF Planned
  <1>4. /\ job.pos \in Nat /\ job.prompt \in Seq(Token) /\ job.inherited \in SUBSET Seq(Token)
        /\ job.source \in Nat /\ Landing(job.target) \in Nat /\ job.pos < Len(job.prompt)
    BY <1>2, <1>3 DEF Request, JobOf, Room, Landing
  <1>5. Sound(source, clock) /\ Backed(source)
    BY <1>2, <1>3 DEF CInv, SlotsTyped, ColdBacked, Cold
  <1>6. /\ source.cache.tokens \in Seq(Token) /\ source.image \in Seq(Token)
        /\ source.draft \in Seq(Token) /\ Len(source.image) <= MaxCtx
        /\ IsPrefix(source.draft, source.image) /\ IsPrefix(source.cache.tokens, source.image)
    BY <1>5, SlotFields DEF Sound, Backed
  <1> HIDE DEF source
  <1>7. /\ tokens = Upto(source.cache.tokens, job.pos) /\ tokens = Upto(job.prompt, job.pos)
        /\ job.pos \in 0..Len(source.cache.tokens) /\ job.pos # 0 /\ job.pos \in 0..Len(job.prompt)
    BY <1>3, <1>4, <1>6 DEF Shares, Shorter
  <1> HIDE DEF tokens
  <1>8. tokens \in Seq(Token) /\ Len(tokens) = job.pos /\ IsPrefix(tokens, source.cache.tokens)
    <2>1. \A h \in Seq(Token) : \A n \in 0..Len(h) :
             Upto(h, n) \in Seq(Token) /\ Len(Upto(h, n)) = n /\ IsPrefix(Upto(h, n), h)
      BY UptoIs, UptoPrefix
    <2> QED
      BY <1>6, <1>7, <2>1
  <1>9. IsPrefix(tokens, source.image)
    BY <1>6, <1>8, PrefixTransitive
  <1>10. \A t \in job.inherited : t # <<>> /\ IsPrefix(t, tokens) /\ Len(t) <= job.pos
    <2> TAKE t \in job.inherited
    <2>1. t \in Seq(Token) /\ t # <<>> /\ IsPrefix(t, tokens)
      BY <1>3, <1>4, <1>7
    <2> QED
      BY <2>1, <1>8, PrefixPointwise
  <1>11. /\ Sound(s, clock) /\ Backed(s) /\ s.cache.tokens = tokens
         /\ HasSnapshotAt(s.cache, job.pos)
    <2>1. Installable(tokens, source.image, job.inherited, source.draft, job.pos)
      BY <1>3, <1>4, <1>6, <1>8, <1>9, <1>10 DEF Installable
    <2> QED
      BY <1>2, <2>1, InstalledIs
  <1> HIDE DEF s
  <1>12. Shares(tokens, job.pos, job.prompt)
    <2>1. Upto(tokens, Len(tokens)) = tokens
      BY <1>8, UptoAll
    <2> QED
      BY <2>1, <1>4, <1>7, <1>8 DEF Shares
  <1>13. /\ Request(job') /\ job'.kind = job.kind /\ job'.pos = job.pos /\ job'.prompt = job.prompt
         /\ job'.slot = Landing(job.target) /\ job'.source = job.source /\ job'.spare = job.source
    <2> DEFINE spared == [job EXCEPT !.spare = job.source]
    <2>1. job' = [spared EXCEPT !.slot = Landing(job.target)]
      BY <1>1
    <2>2. /\ Request(spared) /\ spared.kind = job.kind /\ spared.pos = job.pos
          /\ spared.prompt = job.prompt /\ spared.source = job.source /\ spared.spare = job.source
      BY <1>2, <1>4, SpareNamed
    <2> HIDE DEF spared
    <2> QED
      BY <1>4, <2>1, <2>2, SlotNamed
  <1>14. SourceApart'
    <2>1. Landing(job.target) # job.source
      BY <1>2, <1>3 DEF Landing
    <2>2. s \in SlotOf
      BY <1>11 DEF Sound
    <2>3. Len(slots) <= Len(slots') /\ slots' \in Seq(SlotOf)
      BY <1>1, <1>2, <1>3, <2>2, PutSlotIs
    <2>4. job.source \in DOMAIN slots'
      BY <1>2, <1>3, <2>3
    <2> QED
      BY <1>1, <1>13, <2>1, <2>4 DEF SourceApart
  <1> QED
    BY <1>1, <1>3, <1>11, <1>12, <1>13, <1>14, Installing

---------------------------------------------------------------------------
(* The dispatch: whichever arm ran, the caches hold the beginning of the   *)
(* prompt that the plan named.                                             *)

LEMMA Dispatching ==
    ASSUME CInv, pc' = "dispatched", slots' \in Seq(SlotOf), live' \in DOMAIN slots',
           Len(slots') <= maxSlots, UNCHANGED <<maxSlots, clock, stored>>,
           \A i \in DOMAIN slots' : Sound(slots'[i], clock),
           \A i \in DOMAIN slots' \ {live'} : Backed(slots'[i]),
           Matches(slots'[live'], rows'), rows' \in Seq(Token), Len(rows') <= MaxCtx,
           rings' = rows', drafter' \in Seq(Token), IsPrefix(drafter', rows'),
           job' = job, Request(job), clock < MaxClock, Len(rows') = job.pos,
           IsPrefix(rows', job.prompt), SourceApart'
    PROVE  CInv'
  <1>1. DOMAIN slots' = 1..Len(slots') /\ Len(slots') \in Nat /\ live' # 0
    OBVIOUS
  <1>2. SlotsTyped'
    BY <1>1 DEF CInv, SlotsTyped, Stages
  <1>3. ColdBacked'
    BY DEF ColdBacked, Cold
  <1>4. CachesTyped'
    <2>1. Len(drafter') <= Len(rows')
      BY PrefixPointwise
    <2>2. MaxCtx \in Nat /\ Len(drafter') \in Nat /\ Len(rows') \in Nat
      BY SlotConstantsOK
    <2> QED
      BY <2>1, <2>2 DEF CachesTyped
  <1>5. LiveMatched' /\ LiveIsNewest'
    BY <1>1 DEF LiveMatched, LiveIsNewest
  <1>6. JobPlaced'
    BY DEF JobPlaced
  <1> QED
    BY <1>2, <1>3, <1>4, <1>5, <1>6 DEF CInv

\* A slot cut to what a rewind leaves of it.
CutSlot(sl, i, c, a) == [sl EXCEPT ![i].cache = c, ![i].agrees = a]

LEMMA SlotCut ==
    ASSUME NEW sl \in Seq(SlotOf), NEW i \in DOMAIN sl, NEW c \in CacheOf(Token), NEW a \in Nat
    PROVE  LET t == CutSlot(sl, i, c, a)
           IN  /\ t \in Seq(SlotOf) /\ Len(t) = Len(sl) /\ DOMAIN t = DOMAIN sl
               /\ \A k \in DOMAIN sl \ {i} : t[k] = sl[k]
               /\ t[i] \in SlotOf /\ t[i].cache = c /\ t[i].agrees = a /\ t[i].image = sl[i].image
               /\ t[i].draft = sl[i].draft /\ t[i].used = sl[i].used
  <1> DEFINE t == CutSlot(sl, i, c, a)
  <1> DEFINE u == [sl EXCEPT ![i].cache = c]
  <1>1. sl[i] \in SlotOf /\ DOMAIN sl = 1..Len(sl) /\ Len(sl) \in Nat
    OBVIOUS
  <1>2. [sl[i] EXCEPT !.cache = c] \in SlotOf
    BY <1>1 DEF SlotOf
  <1>3. u \in [1..Len(sl) -> SlotOf]
    BY <1>1, <1>2
  <1>4. /\ u[i] \in SlotOf /\ u[i].cache = c /\ u[i].agrees = sl[i].agrees /\ u[i].image = sl[i].image
        /\ u[i].draft = sl[i].draft /\ u[i].used = sl[i].used
        /\ \A k \in DOMAIN sl \ {i} : u[k] = sl[k]
    BY <1>1 DEF SlotOf
  <1>5. t = [u EXCEPT ![i].agrees = a]
    BY DEF CutSlot
  <1> HIDE DEF u, t
  <1>6. [u[i] EXCEPT !.agrees = a] \in SlotOf
    BY <1>4 DEF SlotOf
  <1>7. t \in [1..Len(sl) -> SlotOf]
    BY <1>1, <1>3, <1>5, <1>6
  <1>8. t[i] = [u[i] EXCEPT !.agrees = a] /\ \A k \in DOMAIN sl \ {i} : t[k] = sl[k]
    BY <1>1, <1>3, <1>4, <1>5
  <1>9. /\ t[i] \in SlotOf /\ t[i].cache = c /\ t[i].agrees = a /\ t[i].image = sl[i].image
        /\ t[i].draft = sl[i].draft /\ t[i].used = sl[i].used
    <2>1. DOMAIN u[i] = {"cache", "image", "draft", "agrees", "used"}
      BY <1>4 DEF SlotOf
    <2>2. t[i] = [f \in DOMAIN u[i] |-> IF f = "agrees" THEN a ELSE u[i][f]]
      BY <1>8
    <2>3. t[i] = [cache |-> c, image |-> sl[i].image, draft |-> sl[i].draft, agrees |-> a,
                  used |-> sl[i].used]
      BY <1>4, <2>1, <2>2
    <2>4. /\ sl[i].image \in Seq(Token) /\ sl[i].draft \in Seq(Token) /\ sl[i].used \in Nat
      BY <1>1 DEF SlotOf
    <2> QED
      BY <2>3, <2>4 DEF SlotOf
  <1>10. DOMAIN t = DOMAIN sl
    BY <1>1, <1>7
  <1>11. \A f \in [1..Len(sl) -> SlotOf] : f \in Seq(SlotOf) /\ Len(f) = Len(sl)
    BY <1>1
  <1> QED
    BY <1>7, <1>8, <1>9, <1>10, <1>11 DEF t

\* Taking less of a history takes a prefix of it.
LEMMA UptoLess ==
    ASSUME NEW h \in Seq(Token), NEW m \in 0..Len(h), NEW n \in 0..m
    PROVE  IsPrefix(Upto(h, n), Upto(h, m))
  <1>1. n \in 0..Len(h) /\ n <= m
    OBVIOUS
  <1>2. /\ Upto(h, n) \in Seq(Token) /\ Len(Upto(h, n)) = n /\ IsPrefix(Upto(h, n), h)
        /\ Upto(h, m) \in Seq(Token) /\ Len(Upto(h, m)) = m /\ IsPrefix(Upto(h, m), h)
    BY <1>1, UptoIs, UptoPrefix
  <1> QED
    BY <1>1, <1>2, PrefixesNest

\* A slot rewound to pos still matches what the rewind leaves in the caches, and
\* the rings it restores were computed from just that.
LEMMA Rewound ==
    ASSUME NEW now, NEW s, Sound(s, now), NEW h \in Seq(Token), Along(s.cache, h),
           NEW pos \in Nat, HasSnapshotAt(s.cache, pos)
    PROVE  /\ pos \in 1..Len(h) /\ SnapshotAt(s.cache, pos) = Upto(h, pos)
           /\ Along(DropAfter(s.cache, pos), Upto(h, pos))
           /\ DropAfter(s.cache, pos) \in CacheOf(Token) /\ Fits(DropAfter(s.cache, pos))
           /\ DropAfter(s.cache, pos).tokens = s.cache.tokens
           /\ \A t \in AllSnapshots(DropAfter(s.cache, pos)) : t # <<>>
  <1> DEFINE c == s.cache
             snap == SnapshotAt(c, pos)
  <1>1. c \in CacheOf(Token) /\ Fits(c) /\ \A t \in AllSnapshots(c) : t \in Seq(Token) /\ t # <<>>
    BY SlotFields DEF Sound
  <1> HIDE DEF c
  <1>2. snap \in AllSnapshots(c) /\ Len(snap) = pos
    BY SnapshotAtIs DEF c
  <1>3. snap \in Seq(Token) /\ snap # <<>> /\ IsPrefix(snap, h)
    BY <1>1, <1>2 DEF Along, c
  <1> HIDE DEF snap
  <1>4. pos \in 1..Len(h) /\ snap = Upto(h, pos)
    <2>1. pos <= Len(h) /\ snap = Upto(h, pos)
      BY <1>2, <1>3, PrefixIsUpto
    <2> QED
      BY <1>2, <1>3, <2>1
  <1>5. /\ DropAfter(c, pos) \in CacheOf(Token) /\ DropAfter(c, pos).tokens = c.tokens
        /\ AllSnapshots(DropAfter(c, pos)) = {t \in AllSnapshots(c) : Len(t) <= pos}
        /\ Fits(DropAfter(c, pos))
    BY <1>1, DropAfterIs
  <1>6. ASSUME NEW t \in AllSnapshots(DropAfter(c, pos)) PROVE t # <<>> /\ IsPrefix(t, Upto(h, pos))
    <2>1. t \in Seq(Token) /\ t # <<>> /\ IsPrefix(t, h) /\ Len(t) <= Len(snap)
      BY <1>1, <1>2, <1>5 DEF Along, c
    <2> QED
      BY <1>3, <1>4, <2>1, PrefixesNest
  <1> QED
    BY <1>4, <1>5, <1>6 DEF Along, c, snap

LEMMA DrafterAtIs ==
    ASSUME CachesTyped, IsPrefix(drafter, rows), NEW pos \in 0..Len(rows)
    PROVE  DrafterAt(pos) \in Seq(Token) /\ IsPrefix(DrafterAt(pos), Upto(rows, pos))
  <1>1. /\ rows \in Seq(Token) /\ drafter \in Seq(Token) /\ Len(rows) \in Nat
        /\ Len(drafter) \in Nat /\ Len(drafter) <= Len(rows)
    BY PrefixPointwise DEF CachesTyped
  <1>2. /\ Upto(rows, pos) \in Seq(Token) /\ Len(Upto(rows, pos)) = pos
        /\ IsPrefix(Upto(rows, pos), rows)
    BY <1>1, UptoIs, UptoPrefix
  <1>3. CASE Len(drafter) <= pos
    BY <1>1, <1>2, <1>3, PrefixesNest DEF DrafterAt
  <1>4. CASE ~(Len(drafter) <= pos) /\ DraftKind = "dflash"
    <2>1. pos \in 0..Len(drafter)
      BY <1>1, <1>4
    <2>2. Upto(drafter, pos) = Upto(rows, pos)
      BY <1>1, <2>1, PrefixIsUpto
    <2> QED
      BY <1>2, <1>4, <2>2, PrefixReflexive DEF DrafterAt
  <1>5. CASE ~(Len(drafter) <= pos) /\ DraftKind # "dflash"
    BY <1>2, <1>5, EmptyIsPrefix DEF DrafterAt
  <1> QED
    BY <1>3, <1>4, <1>5

LEMMA PageInStep == CInv /\ PageIn => CInv'
  <1> SUFFICES ASSUME CInv, PageIn PROVE CInv'
    OBVIOUS
  <1> DEFINE s == slots[job.slot]
             pos == job.pos
             kept == Upto(s.cache.tokens, pos)
  <1>1. /\ pc \in {"paged_out", "installed"} /\ (pc = "paged_out" => job.kind = "swap")
        /\ CanPageIn(job.slot, pos) /\ pc' = "dispatched" /\ live' = job.slot
        /\ rows' = Upto(s.image, pos) /\ rings' = SnapshotAt(s.cache, pos)
        /\ drafter' = IF PlanesUsable(s.draft, pos) THEN Upto(s.draft, pos) ELSE <<>>
        /\ slots' = [slots EXCEPT ![job.slot].cache = DropAfter(s.cache, pos),
                                  ![job.slot].agrees = pos]
        /\ job' = job /\ UNCHANGED <<maxSlots, clock, stored>>
    BY DEF PageIn
  <1>2. Request(job) /\ clock < MaxClock /\ Resumable(job.slot, pos, job.prompt)
    BY <1>1 DEF CInv, JobPlaced, Planned
  <1>3. /\ slots \in Seq(SlotOf) /\ DOMAIN slots = 1..Len(slots) /\ Len(slots) <= maxSlots
        /\ \A i \in DOMAIN slots : Sound(slots[i], clock)
        /\ live = 0 /\ \A i \in DOMAIN slots : Backed(slots[i])
    BY <1>1 DEF CInv, SlotsTyped, LiveMatched, ColdBacked, Cold
  <1>4. /\ job.slot \in DOMAIN slots /\ HasSnapshotAt(s.cache, pos) /\ pos <= Len(s.image)
        /\ Shares(s.cache.tokens, pos, job.prompt) /\ Sound(s, clock) /\ Backed(s)
    BY <1>1, <1>2, <1>3 DEF Resumable, Cold, CanPageIn
  <1>5. /\ s.cache.tokens \in Seq(Token) /\ s.image \in Seq(Token) /\ s.draft \in Seq(Token)
        /\ Len(s.image) <= MaxCtx /\ IsPrefix(s.draft, s.image)
        /\ IsPrefix(s.cache.tokens, s.image) /\ Along(s.cache, s.cache.tokens)
    BY <1>4, SlotFields DEF Sound, Backed
  <1>6. pos \in Nat /\ pos < Len(job.prompt) /\ job.prompt \in Seq(Token)
    BY <1>2 DEF Request, JobOf
  <1> HIDE DEF s
  <1>7. /\ pos \in 1..Len(s.cache.tokens) /\ SnapshotAt(s.cache, pos) = kept
        /\ Along(DropAfter(s.cache, pos), kept)
        /\ DropAfter(s.cache, pos) \in CacheOf(Token) /\ Fits(DropAfter(s.cache, pos))
        /\ DropAfter(s.cache, pos).tokens = s.cache.tokens
        /\ \A t \in AllSnapshots(DropAfter(s.cache, pos)) : t # <<>>
    BY <1>4, <1>5, <1>6, Rewound
  <1>8. kept \in Seq(Token) /\ Len(kept) = pos /\ IsPrefix(kept, s.cache.tokens)
    <2>1. pos \in 0..Len(s.cache.tokens)
      BY <1>7
    <2> QED
      BY <1>5, <2>1, UptoIs, UptoPrefix
  <1>9. rows' = kept /\ rings' = kept
    <2>1. pos \in 0..Len(s.cache.tokens)
      BY <1>7
    <2>2. Upto(s.cache.tokens, pos) = Upto(s.image, pos)
      BY <1>5, <2>1, PrefixIsUpto
    <2> QED
      BY <1>1, <1>7, <2>2
  <1>10. IsPrefix(kept, job.prompt)
    <2>1. kept = Upto(job.prompt, pos) /\ pos \in 0..Len(job.prompt)
      BY <1>4, <1>6 DEF Shares
    <2> QED
      BY <1>6, <2>1, UptoPrefix
  <1>11. drafter' \in Seq(Token) /\ IsPrefix(drafter', kept)
    <2>1. CASE PlanesUsable(s.draft, pos)
      <3>1. pos \in 0..Len(s.draft)
        BY <1>6, <1>5, <2>1 DEF PlanesUsable
      <3>2. Upto(s.draft, pos) = Upto(s.image, pos)
        BY <1>5, <3>1, PrefixIsUpto
      <3>3. drafter' = kept
        BY <1>1, <1>9, <2>1, <3>2
      <3> QED
        BY <1>8, <3>3, PrefixReflexive
    <2>2. CASE ~PlanesUsable(s.draft, pos)
      BY <1>1, <1>8, <2>2, EmptyIsPrefix
    <2> QED
      BY <2>1, <2>2
  <1> HIDE DEF kept, pos
  <1>12. /\ slots' \in Seq(SlotOf) /\ Len(slots') = Len(slots) /\ DOMAIN slots' = DOMAIN slots
         /\ \A k \in DOMAIN slots \ {job.slot} : slots'[k] = slots[k]
         /\ slots'[job.slot] \in SlotOf /\ slots'[job.slot].cache = DropAfter(s.cache, pos)
         /\ slots'[job.slot].agrees = pos /\ slots'[job.slot].image = s.image
         /\ slots'[job.slot].draft = s.draft /\ slots'[job.slot].used = s.used
    <2>1. slots' = CutSlot(slots, job.slot, DropAfter(s.cache, pos), pos)
      BY <1>1 DEF CutSlot
    <2> QED
      BY <1>3, <1>4, <1>6, <1>7, <2>1, SlotCut DEF s
  <1>13. Sound(slots'[job.slot], clock)
    <2>1. s.used <= clock /\ Len(s.cache.tokens) <= MaxCtx
      BY <1>4 DEF Sound
    <2>2. pos <= MaxCtx
      BY <1>4, <1>5, <1>6, <1>1, SlotConstantsOK DEF pos
    <2> QED
      BY <2>1, <2>2, <1>5, <1>7, <1>12 DEF Sound
  <1>14. Matches(slots'[job.slot], kept)
    <2>1. Upto(s.image, pos) = kept
      BY <1>1, <1>9
    <2>2. IsPrefix(kept, kept)
      BY <1>8, PrefixReflexive
    <2> QED
      BY <1>4, <1>7, <1>8, <1>12, <2>1, <2>2 DEF Matches
  <1>15. SourceApart'
    <2>1. CASE pc = "paged_out"
      BY <1>1, <2>1 DEF SourceApart
    <2>2. CASE pc = "installed"
      <3>1. SourceApart
        BY <2>2 DEF CInv, JobPlaced
      <3> QED
        BY <1>1, <1>12, <2>2, <3>1 DEF SourceApart
    <2> QED
      BY <1>1, <2>1, <2>2
  <1>16. Len(kept) <= MaxCtx
    BY <1>1, <1>4, <1>5, <1>6, <1>8, SlotConstantsOK DEF pos
  <1>17. /\ \A i \in DOMAIN slots' : Sound(slots'[i], clock)
         /\ \A i \in DOMAIN slots' \ {live'} : Backed(slots'[i])
    BY <1>1, <1>3, <1>12, <1>13
  <1> QED
    BY <1>1, <1>2, <1>3, <1>4, <1>8, <1>9, <1>10, <1>11, <1>12, <1>14, <1>15, <1>16, <1>17,
       Dispatching DEF pos

LEMMA RestoreLiveStep == CInv /\ RestoreLive => CInv'
  <1> SUFFICES ASSUME CInv, RestoreLive PROVE CInv'
    OBVIOUS
  <1> DEFINE s == slots[live]
             pos == job.pos
             kept == Upto(rows, pos)
  <1>1. /\ pc = "dispatching" /\ job.kind = "restore" /\ pc' = "dispatched" /\ live' = live
        /\ rows' = kept /\ rings' = SnapshotAt(s.cache, pos) /\ drafter' = DrafterAt(pos)
        /\ slots' = [slots EXCEPT ![live].cache = DropAfter(@, pos),
                                  ![live].agrees = Shorter(@, pos)]
        /\ job' = job /\ UNCHANGED <<maxSlots, clock, stored>>
    BY DEF RestoreLive
  <1>2. Request(job) /\ Planned(job) /\ clock < MaxClock
    BY <1>1 DEF CInv, JobPlaced
  <1>3. /\ slots \in Seq(SlotOf) /\ DOMAIN slots = 1..Len(slots) /\ Len(slots) <= maxSlots
        /\ \A i \in DOMAIN slots : Sound(slots[i], clock)
        /\ \A i \in DOMAIN slots \ {live} : Backed(slots[i])
    BY DEF CInv, SlotsTyped, ColdBacked, Cold
  <1>4. /\ live \in DOMAIN slots /\ HasSnapshotAt(s.cache, pos) /\ Shares(rows, pos, job.prompt)
        /\ Sound(s, clock) /\ Matches(s, rows) /\ IsPrefix(drafter, rows)
    BY <1>1, <1>2, <1>3 DEF CInv, SlotsTyped, LiveMatched, Planned
  <1>5. /\ rows \in Seq(Token) /\ Len(rows) <= MaxCtx /\ Along(s.cache, rows)
        /\ s.image \in Seq(Token) /\ s.agrees \in Nat /\ s.agrees <= Len(s.image)
        /\ IsPrefix(Upto(s.image, s.agrees), rows)
        /\ IsPrefix(Upto(s.image, s.agrees), s.cache.tokens)
        /\ s.cache.tokens \in Seq(Token)
    BY <1>4, SlotFields DEF CInv, CachesTyped, Matches, Sound
  <1>6. pos \in Nat /\ pos < Len(job.prompt) /\ job.prompt \in Seq(Token)
    BY <1>2 DEF Request, JobOf
  <1>7. /\ pos \in 1..Len(rows) /\ SnapshotAt(s.cache, pos) = kept
        /\ Along(DropAfter(s.cache, pos), kept)
        /\ DropAfter(s.cache, pos) \in CacheOf(Token) /\ Fits(DropAfter(s.cache, pos))
        /\ DropAfter(s.cache, pos).tokens = s.cache.tokens
        /\ \A t \in AllSnapshots(DropAfter(s.cache, pos)) : t # <<>>
    <2> HIDE DEF s, pos
    <2> QED
      BY <1>4, <1>5, <1>6, Rewound
  <1>8. pos \in 0..Len(rows) /\ kept \in Seq(Token) /\ Len(kept) = pos /\ IsPrefix(kept, rows)
    <2>1. pos \in 0..Len(rows)
      BY <1>7
    <2> QED
      BY <1>5, <2>1, UptoIs, UptoPrefix
  <1>9. IsPrefix(kept, job.prompt)
    <2>1. kept = Upto(job.prompt, pos) /\ pos \in 0..Len(job.prompt)
      BY <1>4, <1>6 DEF Shares
    <2> QED
      BY <1>6, <2>1, UptoPrefix
  <1>10. drafter' \in Seq(Token) /\ IsPrefix(drafter', kept)
    BY <1>1, <1>4, <1>8, DrafterAtIs DEF CInv
  <1> DEFINE cut == DropAfter(s.cache, pos)
             bound == Shorter(s.agrees, pos)
  <1>11. slots' = [slots EXCEPT ![live].cache = cut, ![live].agrees = bound]
    <2>1. slots[live] \in SlotOf
      BY <1>4 DEF Sound
    <2> QED
      BY <1>1, <1>3, <1>4, <2>1 DEF SlotOf
  <1>12. bound \in Nat /\ bound <= s.agrees /\ bound <= pos /\ bound \in 0..s.agrees
    BY <1>5, <1>6 DEF Shorter
  <1> HIDE DEF s, kept, pos, cut, bound
  <1>13. /\ slots' \in Seq(SlotOf) /\ Len(slots') = Len(slots) /\ DOMAIN slots' = DOMAIN slots
         /\ \A k \in DOMAIN slots \ {live} : slots'[k] = slots[k]
         /\ slots'[live] \in SlotOf /\ slots'[live].cache = cut
         /\ slots'[live].agrees = bound /\ slots'[live].image = s.image
         /\ slots'[live].draft = s.draft /\ slots'[live].used = s.used
    <2>1. slots' = CutSlot(slots, live, cut, bound)
      BY <1>11 DEF CutSlot
    <2> QED
      BY <1>3, <1>4, <1>7, <1>12, <2>1, SlotCut DEF s, cut
  <1>14. Sound(slots'[live], clock)
    <2>1. /\ s.used <= clock /\ Len(s.cache.tokens) <= MaxCtx /\ Len(s.image) <= MaxCtx
          /\ IsPrefix(s.draft, s.image)
      BY <1>4 DEF Sound
    <2>2. bound <= MaxCtx
      BY <1>4, <1>5, <1>12, SlotConstantsOK DEF Sound
    <2> QED
      BY <2>1, <2>2, <1>7, <1>13 DEF Sound, cut
  <1>15. Matches(slots'[live], kept)
    <2> DEFINE trusted == Upto(s.image, s.agrees)
               less == Upto(s.image, bound)
    <2>1. s.agrees \in 0..Len(s.image) /\ bound \in 0..Len(s.image)
      BY <1>5, <1>12
    <2>2. /\ trusted \in Seq(Token) /\ less \in Seq(Token) /\ Len(less) = bound
          /\ IsPrefix(less, trusted)
      BY <1>5, <1>12, <2>1, UptoIs, UptoLess
    <2>3. IsPrefix(trusted, rows) /\ IsPrefix(trusted, s.cache.tokens)
      BY <1>5
    <2> HIDE DEF trusted, less
    <2>4. IsPrefix(less, rows) /\ IsPrefix(less, s.cache.tokens)
      BY <1>5, <2>2, <2>3, PrefixTransitive
    <2>5. IsPrefix(less, kept)
      BY <1>5, <1>8, <1>12, <2>2, <2>4, PrefixesNest
    <2>6. bound <= Len(s.image)
      BY <2>1
    <2> QED
      BY <1>7, <1>13, <2>4, <2>5, <2>6 DEF Matches, less, cut
  <1>16. SourceApart'
    BY <1>1 DEF SourceApart
  <1>17. Len(kept) <= MaxCtx
    BY <1>5, <1>7, <1>8, SlotConstantsOK
  <1>18. /\ \A i \in DOMAIN slots' : Sound(slots'[i], clock)
         /\ \A i \in DOMAIN slots' \ {live'} : Backed(slots'[i])
    BY <1>1, <1>3, <1>13, <1>14
  <1> QED
    BY <1>1, <1>2, <1>3, <1>4, <1>7, <1>8, <1>9, <1>10, <1>13, <1>15, <1>16, <1>17, <1>18,
       Dispatching DEF pos

LEMMA NothingHeld ==
    <<>> \in Seq(Token) /\ Len(<<>>) = 0 /\ 0 <= MaxCtx /\ IsPrefix(<<>>, <<>>)
  <1>1. <<>> \in Seq(Token) /\ Len(<<>>) = 0 /\ 0 <= MaxCtx
    BY SlotConstantsOK
  <1>2. IsPrefix(<<>>, <<>>)
    BY <1>1, PrefixReflexive
  <1> QED
    BY <1>1, <1>2

LEMMA StartFreshStep == CInv /\ StartFresh => CInv'
  <1> SUFFICES ASSUME CInv, StartFresh PROVE CInv'
    OBVIOUS
  <1>1. /\ pc = "paged_out" /\ job.kind = "fresh" /\ slots' = PutSlot(job.slot, Fresh)
        /\ live' = Landing(job.slot) /\ rows' = <<>> /\ rings' = <<>> /\ drafter' = <<>>
        /\ pc' = "dispatched" /\ UNCHANGED <<maxSlots, clock, stored, job>>
    BY DEF StartFresh, ResetCaches
  <1>2. Request(job) /\ Planned(job) /\ clock < MaxClock
    BY <1>1 DEF CInv, JobPlaced
  <1>3. Room(job.slot) /\ job.pos = 0 /\ job.prompt \in Seq(Token)
    BY <1>1, <1>2 DEF Planned, Request, JobOf
  <1>4. /\ slots \in Seq(SlotOf) /\ Len(slots) <= maxSlots /\ maxSlots \in Nat /\ clock \in Nat
        /\ \A i \in DOMAIN slots : Sound(slots[i], clock) /\ Backed(slots[i])
    BY <1>1, SlotsAre DEF CInv, SlotsTyped, LiveMatched, ColdBacked, Cold
  <1>5. Sound(Fresh, clock) /\ Matches(Fresh, <<>>) /\ Fresh \in SlotOf
    <2>1. clock \in 0..clock
      BY <1>4
    <2> QED
      BY <1>4, <2>1, EmptySlotIs DEF Fresh, Sound
  <1>6. /\ slots' \in Seq(SlotOf) /\ Len(slots') <= maxSlots
        /\ Landing(job.slot) \in DOMAIN slots'
        /\ \A i \in DOMAIN slots' :
              IF i = Landing(job.slot) THEN slots'[i] = Fresh
              ELSE i \in DOMAIN slots /\ slots'[i] = slots[i]
    <2>1. LET put == PutSlot(job.slot, Fresh)
          IN  /\ put \in Seq(SlotOf) /\ Len(put) <= maxSlots /\ Landing(job.slot) \in DOMAIN put
              /\ \A i \in DOMAIN put :
                    IF i = Landing(job.slot) THEN put[i] = Fresh
                    ELSE i \in DOMAIN slots /\ put[i] = slots[i]
      BY <1>3, <1>4, <1>5, PutSlotIs
    <2>2. slots' = PutSlot(job.slot, Fresh)
      BY <1>1
    <2> QED
      BY <2>1, <2>2
  <1>7. <<>> \in Seq(Token) /\ Len(<<>>) = 0 /\ 0 <= MaxCtx /\ IsPrefix(<<>>, <<>>)
    BY NothingHeld
  <1>8. IsPrefix(<<>>, job.prompt)
    BY <1>3, EmptyIsPrefix
  <1>9. SourceApart'
    BY <1>1 DEF SourceApart
  <1>10. /\ \A i \in DOMAIN slots' : Sound(slots'[i], clock)
         /\ \A i \in DOMAIN slots' \ {live'} : Backed(slots'[i])
    BY <1>1, <1>4, <1>5, <1>6
  <1>11. Matches(slots'[live'], rows') /\ live' \in DOMAIN slots'
    BY <1>1, <1>5, <1>6
  <1> QED
    BY <1>1, <1>2, <1>3, <1>6, <1>7, <1>8, <1>9, <1>10, <1>11, Dispatching

LEMMA RestartLiveStep == CInv /\ RestartLive => CInv'
  <1> SUFFICES ASSUME CInv, RestartLive PROVE CInv'
    OBVIOUS
  <1> DEFINE s == [EmptySlot EXCEPT !.used = slots[live].used]
  <1>1. /\ pc = "dispatching" /\ job.kind = "cold" /\ slots' = [slots EXCEPT ![live] = s]
        /\ live' = live /\ rows' = <<>> /\ rings' = <<>> /\ drafter' = <<>>
        /\ pc' = "dispatched" /\ UNCHANGED <<maxSlots, clock, stored, job>>
    BY DEF RestartLive, ResetCaches
  <1>2. Request(job) /\ Planned(job) /\ clock < MaxClock
    BY <1>1 DEF CInv, JobPlaced
  <1>3. job.pos = 0 /\ job.prompt \in Seq(Token) /\ live # 0
    BY <1>1, <1>2 DEF Planned, Request, JobOf
  <1>4. /\ slots \in Seq(SlotOf) /\ Len(slots) <= maxSlots /\ clock \in Nat
        /\ DOMAIN slots = 1..Len(slots) /\ Len(slots) \in Nat
        /\ \A i \in DOMAIN slots : Sound(slots[i], clock)
        /\ \A i \in DOMAIN slots \ {live} : Backed(slots[i])
        /\ live \in DOMAIN slots /\ slots[live].used \in 0..clock
    BY <1>3, SlotsAre DEF CInv, SlotsTyped, ColdBacked, Cold
  <1>5. Sound(s, clock) /\ Matches(s, <<>>) /\ s \in SlotOf
    BY <1>4, EmptySlotIs DEF Sound
  <1> HIDE DEF s
  <1>6. /\ slots' \in Seq(SlotOf) /\ Len(slots') = Len(slots) /\ DOMAIN slots' = DOMAIN slots
        /\ slots'[live] = s /\ \A i \in DOMAIN slots \ {live} : slots'[i] = slots[i]
    <2>1. slots' = [slots EXCEPT ![live] = s]
      BY <1>1
    <2> QED
      BY <1>4, <1>5, <2>1, ExceptSeq
  <1>7. <<>> \in Seq(Token) /\ Len(<<>>) = 0 /\ 0 <= MaxCtx /\ IsPrefix(<<>>, <<>>)
    BY NothingHeld
  <1>8. IsPrefix(<<>>, job.prompt)
    BY <1>3, EmptyIsPrefix
  <1>9. SourceApart'
    BY <1>1 DEF SourceApart
  <1>10. /\ \A i \in DOMAIN slots' : Sound(slots'[i], clock)
         /\ \A i \in DOMAIN slots' \ {live'} : Backed(slots'[i])
    BY <1>1, <1>4, <1>5, <1>6
  <1>11. Matches(slots'[live'], rows') /\ live' \in DOMAIN slots' /\ Len(slots') <= maxSlots
    BY <1>1, <1>4, <1>5, <1>6
  <1> QED
    BY <1>1, <1>2, <1>3, <1>6, <1>7, <1>8, <1>9, <1>10, <1>11, Dispatching

---------------------------------------------------------------------------
(* The job runs.                                                           *)

LEMMA SoundLater ==
    ASSUME NEW now \in Nat, NEW s, Sound(s, now)
    PROVE  Sound(s, now + 1)
  BY SlotFields DEF Sound

LEMMA StopsSet ==
    ASSUME NEW j, Request(j), NEW stops \in SUBSET StopOf, NEW k, k = [j EXCEPT !.stops = stops]
    PROVE  /\ Request(k) /\ k.prompt = j.prompt /\ k.pos = j.pos /\ k.kind = j.kind
           /\ k.stops = stops
  BY DEF Request, JobOf

LEMMA SettleStep == CInv /\ Settle => CInv'
  <1> SUFFICES ASSUME CInv, Settle PROVE CInv'
    OBVIOUS
  <1> DEFINE touched == [slots EXCEPT ![live].used = clock + 1]
  <1>1. pc = "dispatched" /\ pc' = "prefilling" /\ clock' = clock + 1 /\ UNCHANGED <<live, maxSlots, stored>>
    BY DEF Settle
  <1>2. /\ Request(job) /\ clock < MaxClock /\ Len(rows) = job.pos /\ IsPrefix(rows, job.prompt)
    BY <1>1 DEF CInv, JobPlaced
  <1>3. PICK trimmed \in Trimmed(touched, live, job.spare) :
           /\ slots' = trimmed /\ UNCHANGED caches
           /\ job' = [job EXCEPT !.stops =
                        SnapshotStops(trimmed[live].cache, job.prompt, job.pos,
                                      job.boundary, job.anchor, job.shared)]
    BY <1>2 DEF Settle
  <1>4. /\ slots \in Seq(SlotOf) /\ DOMAIN slots = 1..Len(slots) /\ Len(slots) \in Nat
        /\ Len(slots) <= maxSlots /\ clock \in Nat /\ MaxClock \in Nat /\ live \in DOMAIN slots
        /\ live # 0
        /\ \A i \in DOMAIN slots : Sound(slots[i], clock)
        /\ \A i \in DOMAIN slots \ {live} : Backed(slots[i])
    BY <1>1, SlotsAre, SlotConstantsOK DEF CInv, SlotsTyped, ColdBacked, Cold, LiveMatched
  <1>5. /\ touched \in Seq(SlotOf) /\ Len(touched) = Len(slots) /\ DOMAIN touched = DOMAIN slots
        /\ touched[live] \in SlotOf
        /\ touched[live].cache = slots[live].cache /\ touched[live].image = slots[live].image
        /\ touched[live].draft = slots[live].draft /\ touched[live].agrees = slots[live].agrees
        /\ touched[live].used = clock + 1
        /\ \A i \in DOMAIN slots \ {live} : touched[i] = slots[i]
    <2> DEFINE s == [slots[live] EXCEPT !.used = clock + 1]
    <2>1. slots[live] \in SlotOf /\ clock + 1 \in Nat
      BY <1>4
    <2>2. s \in SlotOf /\ s.cache = slots[live].cache /\ s.image = slots[live].image
          /\ s.draft = slots[live].draft /\ s.agrees = slots[live].agrees /\ s.used = clock + 1
      BY <2>1, SlotTouched
    <2>3. touched = [slots EXCEPT ![live] = s]
      BY <1>4
    <2> HIDE DEF s, touched
    <2> QED
      BY <1>4, <2>2, <2>3, ExceptSeq
  <1> HIDE DEF touched
  <1>6. /\ slots' \in Seq(SlotOf) /\ Len(slots') = Len(slots) /\ DOMAIN slots' = DOMAIN slots
        /\ slots'[live] = touched[live]
        /\ \A i \in DOMAIN slots \ {live} : slots'[i] = slots[i] \/ slots'[i] = EmptySlot
    <2>1. /\ trimmed \in Seq(SlotOf) /\ Len(trimmed) = Len(touched)
          /\ DOMAIN trimmed = DOMAIN touched
          /\ \A i \in DOMAIN touched :
                \/ trimmed[i] = touched[i]
                \/ /\ trimmed[i] = EmptySlot /\ i # live /\ i # job.spare
                   /\ ~Newest(touched, live, i)
      BY <1>5, TrimmedIs
    <2>2. slots' = trimmed
      BY <1>3
    <2> QED
      BY <1>4, <1>5, <2>1, <2>2
  <1>7. Sound(EmptySlot, clock) /\ Backed(EmptySlot) /\ EmptySlot.used = 0
    BY <1>4, EmptySlotIs
  <1>8. Sound(slots'[live], clock + 1)
    <2>1. /\ Fits(slots[live].cache) /\ Len(slots[live].cache.tokens) <= MaxCtx
          /\ Len(slots[live].image) <= MaxCtx /\ IsPrefix(slots[live].draft, slots[live].image)
          /\ \A t \in AllSnapshots(slots[live].cache) : t # <<>>
          /\ slots[live].agrees <= MaxCtx
      BY <1>4 DEF Sound
    <2>2. clock + 1 <= clock + 1
      BY <1>4
    <2> QED
      BY <1>5, <1>6, <2>1, <2>2 DEF Sound
  <1>9. \A i \in DOMAIN slots' : Sound(slots'[i], clock')
    <2>1. \A i \in DOMAIN slots' \ {live} : Sound(slots'[i], clock)
      BY <1>4, <1>6, <1>7
    <2>2. \A i \in DOMAIN slots' \ {live} : Sound(slots'[i], clock + 1)
      BY <1>4, <2>1, SoundLater
    <2> QED
      BY <1>1, <1>8, <2>2
  <1>10. SlotsTyped'
    <2>1. clock + 1 \in 0..MaxClock
      BY <1>2, <1>4
    <2> QED
      BY <1>1, <1>4, <1>6, <1>9, <2>1 DEF CInv, SlotsTyped, Stages
  <1>11. ColdBacked'
    BY <1>1, <1>4, <1>6, <1>7 DEF ColdBacked, Cold
  <1>12. CachesTyped'
    BY <1>3 DEF CInv, CachesTyped, caches
  <1>13. LiveMatched'
    BY <1>1, <1>3, <1>5, <1>6 DEF CInv, LiveMatched, Matches, caches
  <1>14. LiveIsNewest'
    <2>1. \A i \in DOMAIN slots \ {live} : slots'[i].used <= clock /\ slots'[i].used \in Nat
      BY <1>4, <1>6, <1>7, SlotFields DEF Sound
    <2>2. \A i \in DOMAIN slots \ {live} : slots'[i].used < slots'[live].used
      BY <1>4, <1>5, <1>6, <2>1
    <2> QED
      BY <1>1, <1>6, <2>2 DEF LiveIsNewest, Cold
  <1>15. JobPlaced'
    <2> DEFINE c == slots'[live].cache
               stops == SnapshotStops(c, job.prompt, job.pos, job.boundary, job.anchor, job.shared)
    <2>1. c.tokens \in Seq(Token)
      BY <1>5, <1>6, SlotFields
    <2>2. /\ job.prompt \in Seq(Token) /\ job.prompt # <<>> /\ job.pos \in Nat
          /\ job.boundary \in Nat /\ job.anchor \in Nat /\ job.shared \in Nat
          /\ job.boundary < Len(job.prompt)
      BY <1>2 DEF Request, JobOf
    <2> HIDE DEF c
    <2>3. \A s \in stops :
              /\ s \in StopOf /\ job.pos < s.at /\ s.at < Len(job.prompt)
              /\ \A t \in stops : t.at = s.at => t = s
      <3> DEFINE prompt == job.prompt
                 resume == job.pos
                 boundary == job.boundary
                 anchor == job.anchor
                 elsewhere == job.shared
      <3>1. /\ prompt \in Seq(Token) /\ prompt # <<>> /\ resume \in Nat /\ boundary \in Nat
            /\ anchor \in Nat /\ elsewhere \in Nat /\ boundary < Len(prompt)
        BY <2>2
      <3>2. stops = SnapshotStops(c, prompt, resume, boundary, anchor, elsewhere)
        OBVIOUS
      <3> HIDE DEF stops, prompt, resume, boundary, anchor, elsewhere
      <3>3. StopsBetween(stops, resume, prompt)
        BY <2>1, <3>1, <3>2, StopsAre
      <3> QED
        BY <3>3 DEF StopsBetween, StopOf, prompt, resume
    <2>4. job' = [job EXCEPT !.stops = stops]
      BY <1>3 DEF c
    <2> HIDE DEF stops
    <2>5. Request(job') /\ job'.prompt = job.prompt /\ job'.stops = stops
      <3>1. stops \in SUBSET StopOf
        BY <2>3
      <3> QED
        BY <1>2, <2>4, <3>1, StopsSet
    <2> QED
      BY <1>1, <1>2, <1>3, <2>3, <2>5 DEF JobPlaced, caches
  <1> QED
    BY <1>10, <1>11, <1>12, <1>13, <1>14, <1>15 DEF CInv

\* The live slot with another cache recorded for it.
RecacheSlot(sl, i, c) == [sl EXCEPT ![i].cache = c]

LEMMA SlotRecached ==
    ASSUME NEW sl \in Seq(SlotOf), NEW i \in DOMAIN sl, NEW c \in CacheOf(Token)
    PROVE  LET t == RecacheSlot(sl, i, c)
           IN  /\ t \in Seq(SlotOf) /\ Len(t) = Len(sl) /\ DOMAIN t = DOMAIN sl
               /\ \A k \in DOMAIN sl \ {i} : t[k] = sl[k]
               /\ t[i] \in SlotOf /\ t[i].cache = c /\ t[i].agrees = sl[i].agrees
               /\ t[i].image = sl[i].image /\ t[i].draft = sl[i].draft /\ t[i].used = sl[i].used
  <1> DEFINE t == RecacheSlot(sl, i, c)
             s == [sl[i] EXCEPT !.cache = c]
  <1>1. sl[i] \in SlotOf /\ DOMAIN sl = 1..Len(sl) /\ Len(sl) \in Nat
    OBVIOUS
  <1>2. /\ s \in SlotOf /\ s.cache = c /\ s.agrees = sl[i].agrees /\ s.image = sl[i].image
        /\ s.draft = sl[i].draft /\ s.used = sl[i].used
    BY <1>1 DEF SlotOf
  <1>3. t = [sl EXCEPT ![i] = s]
    BY <1>1 DEF RecacheSlot
  <1> HIDE DEF s, t
  <1> QED
    BY <1>1, <1>2, <1>3, ExceptSeq DEF t

\* While the job runs the live slot alone changes: its cache is recorded anew.
LEMMA Running ==
    ASSUME CInv, pc = "prefilling", pc' \in {"prefilling", "idle", "failed"},
           UNCHANGED <<live, maxSlots, clock, stored>>,
           NEW c \in CacheOf(Token), slots' = RecacheSlot(slots, live, c), Fits(c),
           Len(c.tokens) <= MaxCtx,
           \A t \in AllSnapshots(c) : t # <<>> /\ IsPrefix(t, rows'),
           rows' \in Seq(Token), Len(rows') <= MaxCtx, rings' = rows', IsPrefix(rows, rows'),
           drafter' \in Seq(Token), IsPrefix(drafter', rows'),
           pc' = "prefilling" => c.tokens = slots[live].cache.tokens,
           pc' # "prefilling" => c.tokens = rows',
           JobPlaced'
    PROVE  CInv'
  <1>1. /\ slots \in Seq(SlotOf) /\ DOMAIN slots = 1..Len(slots) /\ Len(slots) \in Nat
        /\ Len(slots) <= maxSlots /\ live \in DOMAIN slots /\ live # 0
        /\ \A i \in DOMAIN slots : Sound(slots[i], clock)
        /\ \A i \in DOMAIN slots \ {live} : Backed(slots[i])
        /\ Matches(slots[live], rows) /\ rows \in Seq(Token)
    BY SlotsAre DEF CInv, SlotsTyped, ColdBacked, Cold, LiveMatched, CachesTyped
  <1>2. /\ slots' \in Seq(SlotOf) /\ Len(slots') = Len(slots) /\ DOMAIN slots' = DOMAIN slots
        /\ \A k \in DOMAIN slots \ {live} : slots'[k] = slots[k]
        /\ slots'[live] \in SlotOf /\ slots'[live].cache = c
        /\ slots'[live].agrees = slots[live].agrees /\ slots'[live].image = slots[live].image
        /\ slots'[live].draft = slots[live].draft /\ slots'[live].used = slots[live].used
    BY <1>1, SlotRecached
  <1>3. Sound(slots'[live], clock)
    <2>1. /\ slots[live].used <= clock /\ Len(slots[live].image) <= MaxCtx
          /\ IsPrefix(slots[live].draft, slots[live].image) /\ slots[live].agrees <= MaxCtx
      BY <1>1 DEF Sound
    <2> QED
      BY <1>2, <2>1 DEF Sound
  <1>4. Matches(slots'[live], rows')
    <2> DEFINE trusted == Upto(slots[live].image, slots[live].agrees)
    <2>1. /\ slots[live].agrees <= Len(slots[live].image) /\ IsPrefix(trusted, rows)
          /\ IsPrefix(trusted, slots[live].cache.tokens)
      BY <1>1 DEF Matches
    <2>2. trusted \in Seq(Token)
      <3>1. slots[live].image \in Seq(Token) /\ slots[live].agrees \in 0..Len(slots[live].image)
        BY <1>1, <2>1, SlotFields
      <3> QED
        BY <3>1, UptoIs
    <2> HIDE DEF trusted
    <2>3. IsPrefix(trusted, rows')
      BY <1>1, <2>1, <2>2, PrefixTransitive
    <2>4. IsPrefix(trusted, c.tokens)
      BY <2>1, <2>3
    <2> QED
      BY <1>2, <2>1, <2>3, <2>4 DEF Matches, Along, trusted
  <1>5. SlotsTyped'
    BY <1>1, <1>2, <1>3 DEF CInv, SlotsTyped, Stages
  <1>6. ColdBacked'
    BY <1>1, <1>2 DEF ColdBacked, Cold
  <1>7. CachesTyped'
    <2>1. Len(drafter') <= Len(rows')
      BY PrefixPointwise
    <2>2. MaxCtx \in Nat /\ Len(drafter') \in Nat /\ Len(rows') \in Nat
      BY SlotConstantsOK
    <2> QED
      BY <2>1, <2>2 DEF CachesTyped
  <1>8. LiveMatched'
    BY <1>1, <1>2, <1>4 DEF LiveMatched
  <1>9. LiveIsNewest'
    BY <1>1, <1>2 DEF CInv, LiveIsNewest, Cold
  <1> QED
    BY <1>5, <1>6, <1>7, <1>8, <1>9 DEF CInv

LEMMA AbandonPrefillStep == CInv /\ AbandonPrefill => CInv'
  <1> SUFFICES ASSUME CInv, AbandonPrefill PROVE CInv'
    OBVIOUS
  <1> DEFINE c == [slots[live].cache EXCEPT !.tokens = rows]
  <1>1. /\ pc = "prefilling" /\ pc' = "idle" /\ rows' = rows /\ rings' = rings
        /\ drafter' = DrafterAt(Len(rows)) /\ UNCHANGED <<live, maxSlots, clock, stored>>
        /\ slots' = [slots EXCEPT ![live].cache.tokens = Upto(job.prompt, Len(rows))]
    BY DEF AbandonPrefill
  <1>2. Request(job) /\ IsPrefix(rows, job.prompt)
    BY <1>1 DEF CInv, JobPlaced
  <1>3. job.prompt \in Seq(Token) /\ rows \in Seq(Token) /\ Len(rows) <= MaxCtx /\ Len(rows) \in Nat
    BY <1>2 DEF Request, JobOf, CInv, CachesTyped
  <1>4. Upto(job.prompt, Len(rows)) = rows
    BY <1>2, <1>3, PrefixIsUpto
  <1>5. /\ slots \in Seq(SlotOf) /\ live \in DOMAIN slots /\ Sound(slots[live], clock)
        /\ Matches(slots[live], rows) /\ rings = rows /\ IsPrefix(drafter, rows)
    BY <1>1, SlotsAre DEF CInv, SlotsTyped, LiveMatched
  <1>6. /\ slots[live].cache \in CacheOf(Token) /\ Fits(slots[live].cache)
        /\ \A t \in AllSnapshots(slots[live].cache) : t # <<>> /\ IsPrefix(t, rows)
    BY <1>5, SlotFields DEF Sound, Matches, Along
  <1>7. slots' = RecacheSlot(slots, live, c)
    <2>1. slots[live] \in SlotOf
      BY <1>5
    <2> QED
      BY <1>1, <1>4, <1>5, <2>1 DEF RecacheSlot, SlotOf
  <1>8. /\ c \in CacheOf(Token) /\ c.tokens = rows /\ Fits(c)
        /\ AllSnapshots(c) = AllSnapshots(slots[live].cache)
    BY <1>3, <1>6 DEF CacheOf, Fits, AllSnapshots
  <1> HIDE DEF c
  <1>9. drafter' \in Seq(Token) /\ IsPrefix(drafter', rows)
    <2>1. Len(rows) \in 0..Len(rows) /\ Upto(rows, Len(rows)) = rows
      BY <1>3, UptoAll
    <2> QED
      BY <1>1, <1>5, <2>1, DrafterAtIs DEF CInv
  <1>10. IsPrefix(rows, rows)
    BY <1>3, PrefixReflexive
  <1>11. JobPlaced'
    BY <1>1 DEF JobPlaced
  <1> QED
    BY <1>1, <1>3, <1>5, <1>6, <1>7, <1>8, <1>9, <1>10, <1>11, Running

LEMMA DecodeStep == CInv /\ Decode => CInv'
  <1> SUFFICES ASSUME CInv, Decode PROVE CInv'
    OBVIOUS
  <1>1. /\ pc = "prefilling" /\ pc' \in {"idle", "failed"} /\ Len(rows) = Len(job.prompt)
        /\ UNCHANGED <<live, maxSlots, clock, stored>>
    BY DEF Decode
  <1>2. PICK ids, k :
           /\ ids \in Replies /\ k \in {Len(ids), IF ids = <<>> THEN 0 ELSE Len(ids) - 1}
           /\ Len(job.prompt) + Len(ids) <= MaxCtx
           /\ rows' = rows \o Upto(ids, k) /\ rings' = rings \o Upto(ids, k)
           /\ drafter' \in IF Len(drafter) = Len(rows)
                           THEN {drafter \o Upto(ids, n) :
                                   n \in {m \in 0..k : Len(rows) + m <= DraftCtx}}
                           ELSE {drafter}
           /\ slots' = [slots EXCEPT ![live].cache.tokens =
                          Upto(job.prompt \o ids, Shorter(Len(job.prompt \o ids), Len(rows')))]
    BY DEF Decode
  <1>3. Request(job) /\ IsPrefix(rows, job.prompt)
    BY <1>1 DEF CInv, JobPlaced
  <1>4. /\ job.prompt \in Seq(Token) /\ rows \in Seq(Token) /\ drafter \in Seq(Token)
        /\ ids \in Seq(Token) /\ MaxCtx \in Nat /\ Len(ids) \in Nat /\ Len(rows) \in Nat
    <2>1. job.prompt \in Seq(Token)
      BY <1>3 DEF Request, JobOf
    <2>2. rows \in Seq(Token) /\ drafter \in Seq(Token)
      BY DEF CInv, CachesTyped
    <2>3. ids \in Replies
      BY <1>2
    <2>4. ids \in Seq(Token) /\ MaxCtx \in Nat
      BY <2>3, SlotConstantsOK
    <2> QED
      BY <2>1, <2>2, <2>4
  <1>5. rows = job.prompt
    <2>1. IsPrefix(job.prompt, job.prompt)
      BY <1>4, PrefixReflexive
    <2> QED
      BY <1>1, <1>3, <1>4, <2>1, PrefixesOfOneLength
  <1>6. k \in 0..Len(ids)
    BY <1>2, <1>4
  <1> DEFINE said == rows \o ids
             c == [slots[live].cache EXCEPT !.tokens = rows']
  <1>7. /\ said \in Seq(Token) /\ Len(said) = Len(rows) + Len(ids)
        /\ \A n \in 0..Len(ids) : rows \o Upto(ids, n) = Upto(said, Len(rows) + n)
    BY <1>4, UptoConcat, PrefixOfConcat
  <1> HIDE DEF said
  <1>8. Len(rows) + k \in 0..Len(said) /\ Len(rows) \in 0..(Len(rows) + k) /\ Len(rows) + k <= MaxCtx
    <2>1. Len(rows) + Len(ids) <= MaxCtx
      BY <1>1, <1>2
    <2> QED
      BY <1>4, <1>6, <1>7, <2>1
  <1>9. /\ rows' = Upto(said, Len(rows) + k) /\ rows' \in Seq(Token)
        /\ Len(rows') = Len(rows) + k /\ Len(rows') <= MaxCtx
    <2>1. rows' = Upto(said, Len(rows) + k)
      BY <1>2, <1>6, <1>7
    <2> QED
      BY <1>7, <1>8, <2>1, UptoIs
  <1>10. IsPrefix(rows, rows')
    <2>1. Upto(ids, k) \in Seq(Token)
      BY <1>4, <1>6, UptoIs
    <2> QED
      BY <1>2, <1>4, <2>1, PrefixOfConcat
  <1>11. /\ slots \in Seq(SlotOf) /\ live \in DOMAIN slots /\ Sound(slots[live], clock)
         /\ Matches(slots[live], rows) /\ rings = rows /\ IsPrefix(drafter, rows)
    BY <1>1, SlotsAre DEF CInv, SlotsTyped, LiveMatched
  <1>12. /\ slots[live].cache \in CacheOf(Token) /\ Fits(slots[live].cache)
         /\ \A t \in AllSnapshots(slots[live].cache) : t \in Seq(Token) /\ t # <<>> /\ IsPrefix(t, rows)
    BY <1>11, SlotFields DEF Sound, Matches, Along
  <1>13. slots' = RecacheSlot(slots, live, c)
    <2>1. slots[live] \in SlotOf
      BY <1>11
    <2>2. Shorter(Len(job.prompt \o ids), Len(rows')) = Len(rows) + k
      BY <1>5, <1>7, <1>8, <1>9 DEF Shorter, said
    <2>3. Upto(job.prompt \o ids, Shorter(Len(job.prompt \o ids), Len(rows'))) = rows'
      BY <1>5, <1>9, <2>2 DEF said
    <2>4. slots' = [slots EXCEPT ![live].cache.tokens = rows']
      BY <1>2, <2>3
    <2> QED
      BY <1>11, <2>1, <2>4 DEF RecacheSlot, SlotOf
  <1>14. /\ c \in CacheOf(Token) /\ c.tokens = rows' /\ Fits(c)
         /\ AllSnapshots(c) = AllSnapshots(slots[live].cache)
    BY <1>9, <1>12 DEF CacheOf, Fits, AllSnapshots
  <1> HIDE DEF c
  <1>15. \A t \in AllSnapshots(c) : t # <<>> /\ IsPrefix(t, rows')
    BY <1>4, <1>9, <1>10, <1>12, <1>14, PrefixTransitive
  <1>16. drafter' \in Seq(Token) /\ IsPrefix(drafter', rows')
    <2>1. CASE Len(drafter) = Len(rows)
      <3>1. drafter = rows
        BY <1>4, <1>11, <2>1, PrefixReflexive, PrefixesOfOneLength
      <3>2. PICK n \in 0..k : drafter' = rows \o Upto(ids, n)
        BY <1>2, <2>1, <3>1
      <3>3. drafter' = Upto(said, Len(rows) + n)
        BY <1>6, <1>7, <3>2
      <3>4. Len(rows) + n \in 0..(Len(rows) + k) /\ Len(rows) + n \in 0..Len(said)
        BY <1>4, <1>6, <1>8
      <3> QED
        BY <1>7, <1>8, <1>9, <3>3, <3>4, UptoIs, UptoLess
    <2>2. CASE Len(drafter) # Len(rows)
      <3>1. drafter' = drafter
        BY <1>2, <2>2
      <3> QED
        BY <1>4, <1>9, <1>10, <1>11, <3>1, PrefixTransitive
    <2> QED
      BY <2>1, <2>2
  <1>17. rings' = rows' /\ JobPlaced'
    BY <1>1, <1>2, <1>11 DEF JobPlaced
  <1>18. Len(c.tokens) <= MaxCtx /\ pc' # "prefilling" /\ pc' \in {"prefilling", "idle", "failed"}
    BY <1>1, <1>9, <1>14
  <1> QED
    BY <1>1, <1>9, <1>10, <1>13, <1>14, <1>15, <1>16, <1>17, <1>18, Running

LEMMA PrefillStep == CInv /\ Prefill => CInv'
  <1> SUFFICES ASSUME CInv, Prefill PROVE CInv'
    OBVIOUS
  <1> DEFINE from == Len(rows)
             ahead == {Len(job.prompt)} \cup {s.at : s \in job.stops}
             held == slots[live].cache
  <1>1. /\ pc = "prefilling" /\ pc' = "prefilling" /\ Len(rows) < Len(job.prompt)
        /\ UNCHANGED <<live, maxSlots, clock, stored>>
    BY DEF Prefill
  <1>2. PICK to \in (from + 1)..Min(ahead) :
           /\ rows' = rows \o SubSeq(job.prompt, from + 1, to)
           /\ rings' = rings \o SubSeq(job.prompt, from + 1, to)
           /\ drafter' = IF Len(drafter) = from /\ from < DraftCtx
                         THEN drafter \o SubSeq(job.prompt, from + 1, Shorter(to, DraftCtx))
                         ELSE drafter
           /\ job' = [job EXCEPT !.stops = {s \in @ : s.at # to}]
           /\ slots' = [slots EXCEPT ![live].cache =
                 CASE \E s \in job.stops : s.at = to /\ s.why = "anchor" -> SetAnchor(@, rings')
                   [] \E s \in job.stops : s.at = to /\ s.why # "anchor" -> Push(@, rings')
                   [] OTHER -> @]
    BY DEF Prefill
  <1>3. /\ Request(job) /\ IsPrefix(rows, job.prompt)
        /\ \A s \in job.stops :
              /\ Len(rows) < s.at /\ s.at < Len(job.prompt)
              /\ \A t \in job.stops : t.at = s.at => t = s
    BY <1>1 DEF CInv, JobPlaced
  <1>4. /\ job.prompt \in Seq(Token) /\ rows \in Seq(Token) /\ drafter \in Seq(Token)
        /\ MaxCtx \in Nat /\ DraftCtx \in Nat /\ from \in Nat /\ Len(job.prompt) \in Nat
        /\ Len(job.prompt) < MaxCtx /\ job.stops \in SUBSET StopOf
    BY <1>3, SlotConstantsOK DEF Request, JobOf, CInv, CachesTyped
  <1>5. /\ to \in Nat /\ from < to /\ to <= Len(job.prompt) /\ \A s \in job.stops : to <= s.at
    <2>1. \A s \in job.stops : s.at \in Nat
      BY <1>4 DEF StopOf
    <2>2. ahead \subseteq Nat /\ ahead # {}
      BY <1>4, <2>1
    <2>3. Min(ahead) \in Nat /\ \A n \in ahead : Min(ahead) <= n
      <3> HIDE DEF ahead
      <3> QED
        BY <2>2, MinIs
    <2>4. Min(ahead) <= Len(job.prompt) /\ \A s \in job.stops : Min(ahead) <= s.at
      BY <2>3
    <2> HIDE DEF ahead
    <2> QED
      BY <1>4, <2>1, <2>3, <2>4
  <1> HIDE DEF ahead
  <1>6. /\ slots \in Seq(SlotOf) /\ live \in DOMAIN slots /\ Sound(slots[live], clock)
        /\ Matches(slots[live], rows) /\ rings = rows /\ IsPrefix(drafter, rows)
    BY <1>1, SlotsAre DEF CInv, SlotsTyped, LiveMatched
  <1>7. /\ held \in CacheOf(Token) /\ Fits(held) /\ Along(held, rows) /\ Len(held.tokens) <= MaxCtx
        /\ \A t \in AllSnapshots(held) : t \in Seq(Token) /\ t # <<>> /\ IsPrefix(t, rows)
    BY <1>6, SlotFields DEF Sound, Matches, Along
  <1>8. /\ rows' = Upto(job.prompt, to) /\ rows' \in Seq(Token) /\ Len(rows') = to
        /\ rings' = rows' /\ Len(rows') <= MaxCtx /\ rows' # <<>>
        /\ IsPrefix(rows', job.prompt)
    <2>1. to \in Len(rows)..Len(job.prompt) /\ to \in 0..Len(job.prompt)
      BY <1>4, <1>5
    <2>2. rows' = Upto(job.prompt, to)
      <3>1. rows' = rows \o SubSeq(job.prompt, Len(rows) + 1, to)
        BY <1>2
      <3>2. /\ job.prompt \in Seq(Token) /\ rows \in Seq(Token) /\ IsPrefix(rows, job.prompt)
            /\ to \in Len(rows)..Len(job.prompt)
        BY <1>3, <1>4, <2>1
      <3> QED
        BY <3>1, <3>2, PrefixGrows
    <2>3. rows' \in Seq(Token) /\ Len(rows') = to /\ IsPrefix(rows', job.prompt)
      BY <1>4, <2>1, <2>2, UptoIs, UptoPrefix
    <2>4. rings' = rows'
      BY <1>2, <1>6
    <2> QED
      BY <1>4, <1>5, <2>2, <2>3, <2>4
  <1>9. IsPrefix(rows, rows')
    BY <1>3, <1>4, <1>5, <1>8, PrefixesNest
  <1>10. drafter' \in Seq(Token) /\ IsPrefix(drafter', rows')
    <2>1. CASE Len(drafter) = from /\ from < DraftCtx
      <3> DEFINE m == Shorter(to, DraftCtx)
      <3>1. m \in Len(rows)..Len(job.prompt) /\ m \in 0..to /\ to \in 0..Len(job.prompt)
        BY <1>4, <1>5, <2>1 DEF Shorter
      <3>2. drafter = rows
        BY <1>4, <1>6, <2>1, PrefixReflexive, PrefixesOfOneLength
      <3>3. drafter' = rows \o SubSeq(job.prompt, Len(rows) + 1, m)
        BY <1>2, <2>1, <3>2
      <3> HIDE DEF m
      <3>4. drafter' = Upto(job.prompt, m)
        <4>1. /\ job.prompt \in Seq(Token) /\ rows \in Seq(Token) /\ IsPrefix(rows, job.prompt)
              /\ m \in Len(rows)..Len(job.prompt)
          BY <1>3, <1>4, <3>1
        <4> QED
          BY <3>3, <4>1, PrefixGrows
      <3>5. m \in 0..Len(job.prompt)
        BY <1>4, <3>1
      <3> QED
        BY <1>4, <1>8, <3>1, <3>4, <3>5, UptoIs, UptoLess
    <2>2. CASE ~(Len(drafter) = from /\ from < DraftCtx)
      <3>1. drafter' = drafter
        BY <1>2, <2>2
      <3> QED
        BY <1>4, <1>6, <1>8, <1>9, <3>1, PrefixTransitive
    <2> QED
      BY <2>1, <2>2
  <1>11. PICK c : /\ slots' = RecacheSlot(slots, live, c)
                  /\ c = held \/ c = SetAnchor(held, rows') \/ c = Push(held, rows')
    <2>0. /\ slots' = [slots EXCEPT ![live].cache =
                CASE \E s \in job.stops : s.at = to /\ s.why = "anchor" -> SetAnchor(held, rows')
                  [] \E s \in job.stops : s.at = to /\ s.why # "anchor" -> Push(held, rows')
                  [] OTHER -> held]
          /\ (\E s \in job.stops : s.at = to /\ s.why = "anchor")
                => ~(\E s \in job.stops : s.at = to /\ s.why # "anchor")
      BY <1>2, <1>3, <1>8
    <2>1. CASE \E s \in job.stops : s.at = to /\ s.why = "anchor"
      <3>1. slots' = RecacheSlot(slots, live, SetAnchor(held, rows'))
        BY <2>0, <2>1 DEF RecacheSlot
      <3> QED
        BY <3>1
    <2>2. CASE /\ ~(\E s \in job.stops : s.at = to /\ s.why = "anchor")
               /\ \E s \in job.stops : s.at = to /\ s.why # "anchor"
      <3>1. slots' = RecacheSlot(slots, live, Push(held, rows'))
        BY <2>0, <2>2 DEF RecacheSlot
      <3> QED
        BY <3>1
    <2>3. CASE /\ ~(\E s \in job.stops : s.at = to /\ s.why = "anchor")
               /\ ~(\E s \in job.stops : s.at = to /\ s.why # "anchor")
      <3>1. slots' = RecacheSlot(slots, live, held)
        BY <2>0, <2>3 DEF RecacheSlot
      <3> QED
        BY <3>1
    <2> QED
      BY <2>1, <2>2, <2>3
  <1> HIDE DEF held
  <1>12. /\ c \in CacheOf(Token) /\ c.tokens = held.tokens /\ Fits(c)
         /\ \A t \in AllSnapshots(c) : t = rows' \/ t \in AllSnapshots(held)
    <2>1. CASE c = held
      BY <1>7, <2>1
    <2>2. CASE c = SetAnchor(held, rows')
      BY <1>7, <1>8, <2>2, SetAnchorIs
    <2>3. CASE c = Push(held, rows')
      BY <1>4, <1>7, <1>8, <2>3, PushIs
    <2> QED
      BY <1>11, <2>1, <2>2, <2>3
  <1>13. \A t \in AllSnapshots(c) : t # <<>> /\ IsPrefix(t, rows')
    <2> TAKE t \in AllSnapshots(c)
    <2>1. CASE t = rows'
      BY <1>8, <2>1, PrefixReflexive
    <2>2. CASE t \in AllSnapshots(held)
      BY <1>4, <1>7, <1>8, <1>9, <2>2, PrefixTransitive
    <2> QED
      BY <1>12, <2>1, <2>2
  <1>14. JobPlaced'
    <2> DEFINE stops == {s \in job.stops : s.at # to}
    <2>1. job' = [job EXCEPT !.stops = stops] /\ stops \in SUBSET StopOf
      BY <1>2, <1>4
    <2>2. \A s \in stops : s.at \in Nat
      BY <2>1 DEF StopOf
    <2>3. \A s \in stops :
              /\ to < s.at /\ s.at < Len(job.prompt)
              /\ \A t \in stops : t.at = s.at => t = s
      BY <1>3, <1>4, <1>5, <2>2
    <2> HIDE DEF stops
    <2>4. Request(job') /\ job'.prompt = job.prompt /\ job'.stops = stops
      <3>1. Request(job) /\ stops \in SUBSET StopOf
        BY <1>3, <2>1
      <3>2. job' = [job EXCEPT !.stops = stops]
        BY <2>1
      <3> QED
        BY <3>1, <3>2 DEF Request, JobOf
    <2> QED
      BY <1>1, <1>8, <2>3, <2>4 DEF JobPlaced
  <1>15. Len(c.tokens) <= MaxCtx /\ c.tokens = slots[live].cache.tokens
    BY <1>7, <1>12 DEF held
  <1> QED
    BY <1>1, <1>8, <1>9, <1>10, <1>11, <1>12, <1>13, <1>14, <1>15, Running

---------------------------------------------------------------------------
(* Upkeep.                                                                 *)

LEMMA ResetStep == CInv /\ Reset => CInv'
  <1> SUFFICES ASSUME CInv, Reset PROVE CInv'
    OBVIOUS
  <1>1. /\ pc' = "idle" /\ live' = 0 /\ rows' = <<>> /\ rings' = <<>> /\ drafter' = <<>>
        /\ UNCHANGED <<maxSlots, clock, stored>>
        /\ slots' = IF live = 0 THEN slots ELSE [slots EXCEPT ![live] = Demoted(@)]
    BY DEF Reset, ResetCaches
  <1>2. /\ slots \in Seq(SlotOf) /\ DOMAIN slots = 1..Len(slots) /\ Len(slots) \in Nat
        /\ Len(slots) <= maxSlots /\ clock \in Nat /\ live \in 0..Len(slots)
        /\ \A i \in DOMAIN slots : Sound(slots[i], clock)
        /\ \A i \in DOMAIN slots \ {live} : Backed(slots[i])
        /\ rows \in Seq(Token)
    BY SlotsAre DEF CInv, SlotsTyped, ColdBacked, Cold, CachesTyped
  <1>3. /\ slots' \in Seq(SlotOf) /\ Len(slots') = Len(slots) /\ DOMAIN slots' = DOMAIN slots
        /\ \A i \in DOMAIN slots : Sound(slots'[i], clock) /\ Backed(slots'[i])
    <2>1. CASE live = 0
      <3>1. slots' = slots
        BY <1>1, <2>1
      <3> QED
        BY <1>2, <2>1, <3>1
    <2>2. CASE live # 0
      <3>1. slots' = [slots EXCEPT ![live] = Demoted(slots[live])]
        BY <1>1, <2>2
      <3>2. live \in DOMAIN slots /\ Matches(slots[live], rows)
        BY <1>2, <2>2 DEF CInv, LiveMatched
      <3>3. Sound(Demoted(slots[live]), clock) /\ Backed(Demoted(slots[live]))
        BY <1>2, <3>2, DemotedIs
      <3>4. Demoted(slots[live]) \in SlotOf
        BY <3>3 DEF Sound
      <3>5. /\ slots' \in Seq(SlotOf) /\ Len(slots') = Len(slots) /\ DOMAIN slots' = DOMAIN slots
            /\ slots'[live] = Demoted(slots[live])
            /\ \A i \in DOMAIN slots \ {live} : slots'[i] = slots[i]
        BY <1>2, <3>1, <3>2, <3>4, ExceptSeq
      <3> QED
        BY <1>2, <3>3, <3>5
    <2> QED
      BY <2>1, <2>2
  <1>4. SlotsTyped' /\ ColdBacked'
    BY <1>1, <1>2, <1>3 DEF CInv, SlotsTyped, ColdBacked, Cold, Stages
  <1>5. CachesTyped' /\ LiveMatched' /\ LiveIsNewest' /\ JobPlaced'
    BY <1>1, NothingHeld DEF CachesTyped, LiveMatched, LiveIsNewest, JobPlaced
  <1> QED
    BY <1>4, <1>5 DEF CInv

\* With the model gone nothing warm is left; what was stored stays as good.
LEMMA ModelDropped ==
    ASSUME CInv, DropModel, maxSlots' = maxSlots, \A im \in stored' : Storable(im)
    PROVE  CInv'
  <1>1. /\ slots' = <<>> /\ live' = 0 /\ clock' = 0 /\ pc' = "idle"
        /\ rows' = <<>> /\ rings' = <<>> /\ drafter' = <<>>
    BY DEF DropModel, ResetCaches
  <1>2. /\ slots' \in Seq(SlotOf) /\ Len(slots') = 0 /\ DOMAIN slots' = {}
    BY <1>1
  <1>3. maxSlots \in Nat /\ MaxClock \in Nat
    BY SlotsAre, SlotConstantsOK DEF CInv
  <1>4. SlotsTyped' /\ ColdBacked'
    BY <1>1, <1>2, <1>3 DEF CInv, SlotsTyped, ColdBacked, Cold, Stages
  <1>5. CachesTyped' /\ LiveMatched' /\ LiveIsNewest' /\ JobPlaced'
    BY <1>1, NothingHeld DEF CachesTyped, LiveMatched, LiveIsNewest, JobPlaced
  <1> QED
    BY <1>4, <1>5 DEF CInv

LEMMA PanicStep == CInv /\ Panic => CInv'
  BY ModelDropped DEF CInv, SlotsTyped, Panic

LEMMA UnloadStep == CInv /\ Unload => CInv'
  <1> SUFFICES ASSUME CInv, Unload PROVE CInv'
    OBVIOUS
  <1>1. /\ pc = "idle" /\ DropModel /\ maxSlots' = maxSlots
        /\ stored' \in IF live = 0 \/ rows = <<>> THEN {stored} ELSE Stored(Paged)
    BY DEF Unload
  <1>2. ASSUME NEW im \in stored' PROVE Storable(im)
    <2>1. \A m \in stored : Storable(m)
      BY DEF CInv, SlotsTyped
    <2>2. CASE live = 0 \/ rows = <<>>
      BY <1>1, <2>1, <2>2
    <2>3. CASE ~(live = 0 \/ rows = <<>>)
      <3>1. Sound(Paged, clock) /\ Backed(Paged)
        BY <1>1, <2>3, PagedIs DEF CInv
      <3>2. stored' \in Stored(Paged)
        BY <1>1, <2>3
      <3> QED
        BY <2>1, <3>1, <3>2, StoredIs
    <2> QED
      BY <2>2, <2>3
  <1> QED
    BY <1>1, <1>2, ModelDropped

\* The invariant, through every step of every job.
THEOREM Conserved == Spec => []CInv
  <1>1. ASSUME CInv, UNCHANGED vars PROVE CInv'
    BY <1>1 DEF vars, caches, CInv, SlotsTyped, ColdBacked, Cold, CachesTyped, LiveMatched,
                LiveIsNewest, JobPlaced, SourceApart, Planned, Resumable, Room
  <1>2. CInv /\ [Next]_vars => CInv'
    BY <1>1, PickJobStep, PickBatchStep, GiveUpEarlyStep, HydrateUnavailableStep, PageOutStep,
       ForkOffStep, InstallStoredStep, PageInStep, StartFreshStep, ExtendLiveStep,
       RestoreLiveStep, RestartLiveStep, SettleStep, PrefillStep, AbandonPrefillStep,
       DecodeStep, FailStep, ResetStep, PanicStep, UnloadStep DEF Next, Dispatch, Run, Upkeep
  <1> QED
    BY CInit, <1>2, PTL DEF Spec

---------------------------------------------------------------------------
(* What follows from it.                                                   *)

\* A slot's snapshots lie along a history within the context.
LEMMA SnapshotsFit ==
    ASSUME CInv, NEW i \in DOMAIN slots, NEW t \in AllSnapshots(slots[i].cache)
    PROVE  t \in Seq(Token) /\ t # <<>> /\ Len(t) <= MaxCtx
  <1>1. Sound(slots[i], clock) /\ slots[i] \in SlotOf /\ MaxCtx \in Nat
    BY SlotConstantsOK DEF CInv, SlotsTyped, Sound
  <1>2. t \in Seq(Token) /\ t # <<>> /\ slots[i].cache.tokens \in Seq(Token)
    BY <1>1, SlotFields DEF Sound
  <1>3. rows \in Seq(Token) /\ Len(rows) <= MaxCtx /\ Len(slots[i].cache.tokens) <= MaxCtx
    BY <1>1 DEF CInv, CachesTyped, Sound
  <1>4. CASE i = live
    <2>1. live # 0
      BY <1>4, SlotsAre DEF CInv
    <2>2. IsPrefix(t, rows)
      BY <1>4, <2>1 DEF CInv, LiveMatched, Matches, Along
    <2>3. Len(t) <= Len(rows)
      BY <1>2, <1>3, <2>2, PrefixPointwise
    <2> QED
      BY <1>1, <1>2, <1>3, <2>3
  <1>5. CASE i # live
    <2>1. IsPrefix(t, slots[i].cache.tokens)
      BY <1>5 DEF CInv, ColdBacked, Cold, Backed, Along
    <2>2. Len(t) <= Len(slots[i].cache.tokens)
      BY <1>2, <2>1, PrefixPointwise
    <2> QED
      BY <1>1, <1>2, <1>3, <2>2
  <1> QED
    BY <1>4, <1>5

\* Every slot, cache and bound is of its type: a ring never outgrows its
\* capacity, there is one anchor at most, and no history outgrows the context.
THEOREM WellTyped == Spec => []TypeOK
  <1>1. CInv => TypeOK
    <2> SUFFICES ASSUME CInv PROVE TypeOK
      OBVIOUS
    <2>1. /\ SlotsTyped /\ MaxCtx \in Nat /\ clock \in Nat /\ Len(slots) \in Nat
          /\ \A i \in DOMAIN slots : slots[i] \in SlotOf
      BY SlotsAre, SlotConstantsOK DEF CInv
    <2>2. ASSUME NEW i \in DOMAIN slots
          PROVE  /\ DOMAIN slots[i] = DOMAIN EmptySlot
                 /\ IsHistory(slots[i].cache.tokens)
                 /\ IsSnapshots(AllSnapshots(slots[i].cache))
                 /\ Cardinality(slots[i].cache.ring) <= Max({1, RingCapacity})
                 /\ Cardinality(slots[i].cache.anchor) <= 1
                 /\ IsHistory(slots[i].image) /\ IsHistory(slots[i].draft)
                 /\ slots[i].agrees \in 0..MaxCtx /\ slots[i].used \in 0..clock
      <3> DEFINE s == slots[i]
      <3>1. s \in SlotOf /\ Sound(s, clock)
        BY <2>1 DEF SlotsTyped
      <3>2. DOMAIN s = DOMAIN EmptySlot
        BY <3>1 DEF SlotOf, EmptySlot
      <3>3. IsSnapshots(AllSnapshots(s.cache))
        BY SnapshotsFit DEF IsSnapshots, IsHistory
      <3> HIDE DEF s
      <3>4. /\ s.cache.tokens \in Seq(Token) /\ s.image \in Seq(Token) /\ s.draft \in Seq(Token)
            /\ s.agrees \in Nat /\ s.used \in Nat
        BY <3>1, SlotFields
      <3>5. IsHistory(s.cache.tokens) /\ IsHistory(s.image)
        BY <3>1, <3>4 DEF Sound, IsHistory
      <3>6. IsHistory(s.draft)
        <4>1. Len(s.draft) <= Len(s.image) /\ Len(s.image) <= MaxCtx
          BY <3>1, <3>4, PrefixPointwise DEF Sound
        <4> QED
          BY <2>1, <3>4, <4>1 DEF IsHistory
      <3>7. Cardinality(s.cache.ring) <= Max({1, RingCapacity})
        BY <3>1, RingBoundIs DEF Sound, Fits
      <3>8. Cardinality(s.cache.anchor) <= 1
        <4>1. CASE s.cache.anchor = {}
          BY <4>1, FS_EmptySet
        <4>2. CASE s.cache.anchor # {}
          <5>1. PICK t \in s.cache.anchor : s.cache.anchor = {t}
            BY <3>1, <4>2 DEF Sound, Fits
          <5> QED
            BY <5>1, FS_Singleton, 1 <= 1
        <4> QED
          BY <4>1, <4>2
      <3>9. s.agrees \in 0..MaxCtx /\ s.used \in 0..clock
        BY <2>1, <3>1, <3>4 DEF Sound
      <3> QED
        BY <3>2, <3>3, <3>5, <3>6, <3>7, <3>8, <3>9 DEF s
    <2>3. /\ maxSlots \in SlotCounts /\ Len(slots) <= maxSlots
          /\ live \in 0..Len(slots) /\ clock \in 0..MaxClock
          /\ pc \in {"idle", "dispatching", "paged_out", "installed", "dispatched", "prefilling", "failed"}
      BY <2>1 DEF SlotsTyped, Stages
    <2>4. IsHistory(rows) /\ IsHistory(rings) /\ IsHistory(drafter)
      BY DEF CInv, CachesTyped, IsHistory
    <2>5. pc \in {"dispatched", "prefilling"} => live # 0
      BY DEF CInv, LiveMatched
    <2> QED
      BY <2>2, <2>3, <2>4, <2>5 DEF TypeOK
  <1> QED
    BY <1>1, Conserved, PTL

\* No reply is ever computed from rows of another prompt: what the caches hold
\* while a prompt prefills is the beginning of that prompt, the rings were
\* computed from just that, and so was what the drafter holds.
THEOREM ResumesItsOwn == Spec => []NeverWrongResume
  <1>1. CInv => NeverWrongResume
    BY DEF CInv, LiveMatched, JobPlaced, NeverWrongResume
  <1> QED
    BY <1>1, Conserved, PTL

\* Every cold conversation can be picked up from its image: the image holds its
\* history and all its snapshots.
THEOREM ColdStaysBacked == Spec => []ColdSlotsBacked
  <1>1. CInv => ColdSlotsBacked
    <2> SUFFICES ASSUME CInv, NEW i \in Cold
                 PROVE  /\ IsPrefix(slots[i].cache.tokens, slots[i].image)
                        /\ \A t \in AllSnapshots(slots[i].cache) : IsPrefix(t, slots[i].image)
      BY DEF ColdSlotsBacked
    <2>1. Backed(slots[i]) /\ slots[i] \in SlotOf
      BY SlotsAre DEF CInv, ColdBacked, Cold
    <2>2. /\ slots[i].cache.tokens \in Seq(Token) /\ slots[i].image \in Seq(Token)
          /\ \A t \in AllSnapshots(slots[i].cache) : t \in Seq(Token)
      BY <2>1, SlotFields
    <2> QED
      BY <2>1, <2>2, PrefixTransitive DEF Backed, Along
  <1> QED
    BY <1>1, Conserved, PTL

\* Between jobs the live conversation is exactly what the caches hold.
THEOREM LiveStaysMatched == Spec => []LiveMatchesCache
  <1>1. CInv => LiveMatchesCache
    BY DEF CInv, LiveMatched, Matches, Along, LiveMatchesCache
  <1> QED
    BY <1>1, Conserved, PTL

\* Neither the page-out a plan sets off nor the trim after it takes away what
\* the plan rests on.
THEOREM PlansSurvive == Spec => []PlanSurvivesPageOut
  <1>1. CInv => PlanSurvivesPageOut
    <2> SUFFICES ASSUME CInv PROVE PlanSurvivesPageOut
      OBVIOUS
    <2>1. ASSUME NEW i, NEW pos, NEW prompt, Resumable(i, pos, prompt) PROVE CanPageIn(i, pos)
      <3>1. /\ i \in Cold /\ i \in DOMAIN slots /\ HasSnapshotAt(slots[i].cache, pos)
            /\ pos \in 1..Len(slots[i].cache.tokens)
        BY <2>1 DEF Resumable, Shares, Cold
      <3>2. slots[i] \in SlotOf /\ IsPrefix(slots[i].cache.tokens, slots[i].image)
        BY <3>1, SlotsAre DEF CInv, ColdBacked, Backed
      <3>3. /\ slots[i].cache.tokens \in Seq(Token) /\ slots[i].image \in Seq(Token)
        BY <3>2, SlotFields
      <3>4. Len(slots[i].cache.tokens) <= Len(slots[i].image)
        BY <3>2, <3>3, PrefixPointwise
      <3>5. pos <= Len(slots[i].image)
        BY <3>1, <3>3, <3>4
      <3> QED
        BY <3>1, <3>5 DEF CanPageIn
    <2>2. pc = "installed" => CanPageIn(job.slot, job.pos)
      BY <2>1 DEF CInv, JobPlaced
    <2>3. pc = "paged_out" /\ job.kind \in {"swap", "fork"} => Planned(job) /\ live = 0
      BY DEF CInv, JobPlaced, LiveMatched
    <2>4. pc = "paged_out" /\ job.kind = "swap" => CanPageIn(job.slot, job.pos)
      BY <2>1, <2>3 DEF Planned
    <2>5. pc = "paged_out" /\ job.kind = "fork" =>
             /\ slots[job.source].image # <<>> /\ \E t \in job.inherited : Len(t) = job.pos
      <3> SUFFICES ASSUME pc = "paged_out", job.kind = "fork"
                   PROVE  /\ slots[job.source].image # <<>>
                          /\ \E t \in job.inherited : Len(t) = job.pos
        OBVIOUS
      <3>1. job.source \in DOMAIN slots /\ live = 0 /\ Planned(job)
        BY <2>3 DEF Planned
      <3>2. job.source # live
        BY <3>1, SlotsAre DEF CInv
      <3> QED
        BY <3>1, <3>2 DEF Planned
    <2> QED
      BY <2>2, <2>4, <2>5 DEF PlanSurvivesPageOut
  <1> QED
    BY <1>1, Conserved, PTL

\* Whichever arm dispatched, the cache is as long as the plan said.
THEOREM NeverDrifts == Spec => []NoDrift
  <1>1. CInv => NoDrift
    BY DEF CInv, JobPlaced, NoDrift
  <1> QED
    BY <1>1, Conserved, PTL

\* The stops still ahead of a prefill lie between its cache and its prompt's
\* end, each at a position of its own.
THEOREM StopsStayAhead == Spec => []StopsAhead
  <1>1. CInv => StopsAhead
    BY DEF CInv, JobPlaced, StopsAhead
  <1> QED
    BY <1>1, Conserved, PTL

\* A slot left behind by the cache resumes at the deepest snapshot along it.
LEMMA DepthAt ==
    ASSUME NEW c, NEW n \in Nat \ {0}, HasSnapshotAt(c, n)
    PROVE  RewindTo(c, n) = n
  <1>1. n \in 1..n /\ n \in Nat
    OBVIOUS
  <1>2. RewindTo(c, n) \in 0..n /\ n <= RewindTo(c, n)
    BY <1>1, RewindToIs
  <1> QED
    BY <1>1, <1>2

LEMMA LeavingKeepsDepth ==
    ASSUME CInv, PageOut, live # 0, rows # <<>>
    PROVE  LET s == slots'[live]
           IN  /\ live \in DOMAIN slots /\ live' = 0 /\ s.image # <<>>
               /\ RewindTo(s.cache, Len(s.cache.tokens)) = Len(slots[live].cache.tokens)
  <1>1. pc = "dispatching" /\ live' = 0
    BY DEF PageOut
  <1>2. live \in DOMAIN slots /\ slots'[live] = Paged
    BY PageOutIs
  <1>3. /\ Paged.image = rows /\ Paged.cache.tokens = rows /\ HasSnapshotAt(Paged.cache, Len(rows))
        /\ slots[live].cache.tokens = rows /\ rows \in Seq(Token)
    BY <1>1, PagedIs DEF CInv, LiveMatched, CachesTyped
  <1>4. Len(rows) \in Nat \ {0}
    BY <1>3
  <1> QED
    BY <1>1, <1>2, <1>3, <1>4, DepthAt

\* Who leaves the cache can be picked up again where it was.
THEOREM LeavingStaysWarm == Spec => WhoLeavesStaysWarm
  <1>1. ASSUME CInv, NEW i \in {live}, PageOut, i # 0, rows # <<>>
        PROVE  Depth(i)' = Depth(i)
    <2>1. /\ live' = 0 /\ slots'[i].image # <<>>
          /\ RewindTo(slots'[i].cache, Len(slots'[i].cache.tokens)) = Len(slots[i].cache.tokens)
      BY <1>1, LeavingKeepsDepth
    <2>2. Depth(i) = Len(slots[i].cache.tokens)
      BY DEF Depth
    <2>3. Depth(i)' = RewindTo(slots'[i].cache, Len(slots'[i].cache.tokens))
      BY <1>1, <2>1 DEF Depth
    <2> QED
      BY <2>1, <2>2, <2>3
  <1>2. CInv /\ [Next]_vars
          => [\A i \in {live} : PageOut /\ i # 0 /\ rows # <<>> => Depth(i)' = Depth(i)]_vars
    BY <1>1
  <1> QED
    BY <1>2, Conserved, PTL DEF Spec, WhoLeavesStaysWarm

\* From the choice of a fork until its prompt prefills, nothing lowers the
\* position at which the conversation forked off can be resumed.
THEOREM ForkKeepsBoth == Spec => ForkSparesItsSource
  <1>1. ASSUME CInv, job.kind = "fork", PageOut \/ ForkOff \/ PageIn \/ Settle,
               NEW i \in {job.source}
        PROVE  Depth(i)' >= Depth(i)
    <2>1. /\ pc \in {"dispatching", "paged_out", "installed", "dispatched"}
          /\ i \in DOMAIN slots /\ i = job.source /\ i # 0 /\ DOMAIN slots = 1..Len(slots)
          /\ slots \in Seq(SlotOf) /\ slots[i] \in SlotOf
      <3>1. pc \in {"dispatching", "paged_out", "installed", "dispatched"}
        BY <1>1 DEF PageOut, ForkOff, PageIn, Settle
      <3>2. i \in DOMAIN slots
        BY <1>1, <3>1 DEF CInv, JobPlaced, Planned, SourceApart
      <3> QED
        BY <1>1, <3>1, <3>2, SlotsAre DEF CInv
    <2>2. /\ Len(slots[i].cache.tokens) \in Nat
          /\ RewindTo(slots[i].cache, Len(slots[i].cache.tokens)) \in Nat
          /\ Depth(i) \in Nat
      <3>1. slots[i].cache.tokens \in Seq(Token)
        BY <2>1, SlotFields
      <3>2. Len(slots[i].cache.tokens) \in Nat
        BY <3>1
      <3>3. RewindTo(slots[i].cache, Len(slots[i].cache.tokens)) \in 0..Len(slots[i].cache.tokens)
        BY <3>2, RewindToIs
      <3> QED
        BY <3>2, <3>3 DEF Depth
    <2>3. ASSUME slots'[i] = slots[i], live # i, live' # i
          PROVE  Depth(i)' = Depth(i)
      BY <2>1, <2>3 DEF Depth
    <2>4. CASE PageOut
      <3>1. Planned(job) /\ pc = "dispatching" /\ live' = 0 /\ Spared = i
        BY <1>1, <2>1, <2>4 DEF PageOut, CInv, JobPlaced, Spared
      <3>2. Shares(slots[i].cache.tokens, job.pos, job.prompt)
        BY <1>1, <2>1, <3>1 DEF Planned
      <3>3. slots[i].cache.tokens # <<>>
        BY <3>2 DEF Shares
      <3>4. CASE i = live
        <4>1. live # 0 /\ rows # <<>>
          BY <1>1, <2>1, <3>1, <3>3, <3>4 DEF CInv, LiveMatched
        <4>2. /\ slots'[i].image # <<>>
              /\ RewindTo(slots'[i].cache, Len(slots'[i].cache.tokens)) = Len(slots[i].cache.tokens)
          BY <1>1, <2>4, <3>4, <4>1, LeavingKeepsDepth
        <4>3. Depth(i) = Len(slots[i].cache.tokens)
          BY <3>4 DEF Depth
        <4>4. Depth(i)' = Len(slots[i].cache.tokens)
          BY <2>1, <3>1, <4>2 DEF Depth
        <4> QED
          BY <2>2, <4>3, <4>4
      <3>5. CASE i # live
        <4>1. slots'[i] = slots[i]
          <5>1. CASE live = 0
            BY <2>4, <5>1 DEF PageOut
          <5>2. CASE live # 0 /\ rows = <<>>
            <6>1. slots' = [slots EXCEPT ![live] = Demoted(slots[live])]
              BY <2>4, <5>2 DEF PageOut
            <6> QED
              BY <2>1, <3>5, <6>1
          <5>3. CASE live # 0 /\ rows # <<>>
            BY <1>1, <2>1, <2>4, <3>1, <3>5, <5>3, PageOutIs
          <5> QED
            BY <5>1, <5>2, <5>3
        <4>2. live' # i
          BY <2>1, <3>1
        <4> QED
          BY <2>2, <2>3, <3>5, <4>1, <4>2
      <3> QED
        BY <3>4, <3>5
    <2>5. CASE ForkOff
      <3> DEFINE source == slots[job.source]
                 tokens == Upto(source.cache.tokens, Shorter(job.pos, Len(source.cache.tokens)))
                 s == Installed(tokens, source.image, job.inherited, source.draft)
      <3>1. /\ pc = "paged_out" /\ slots' = PutSlot(job.target, s) /\ live' = live
        BY <2>5 DEF ForkOff
      <3> HIDE DEF s
      <3>2. Planned(job) /\ live = 0 /\ Len(slots) \in Nat
        BY <1>1, <2>1, <3>1 DEF CInv, JobPlaced, LiveMatched
      <3>3. job.target # i
        BY <1>1, <2>1, <3>2 DEF Planned
      <3>4. slots'[i] = slots[i]
        <4>1. CASE job.target = 0
          <5>1. slots' = Append(slots, s)
            BY <3>1, <4>1 DEF PutSlot
          <5> QED
            BY <2>1, <3>2, <5>1
        <4>2. CASE job.target # 0
          <5>1. slots' = [slots EXCEPT ![job.target] = s]
            BY <3>1, <4>2 DEF PutSlot
          <5> QED
            BY <2>1, <3>3, <5>1
        <4> QED
          BY <4>1, <4>2
      <3> QED
        BY <2>1, <2>2, <2>3, <3>1, <3>2, <3>4
    <2>6. CASE PageIn
      <3>1. /\ pc = "installed" /\ live' = job.slot
            /\ slots' = [slots EXCEPT ![job.slot].cache = DropAfter(@, job.pos),
                                      ![job.slot].agrees = job.pos]
        BY <1>1, <2>6 DEF PageIn
      <3>2. job.slot # i /\ live = 0
        BY <1>1, <2>1, <3>1 DEF CInv, JobPlaced, SourceApart, LiveMatched
      <3>3. slots'[i] = slots[i]
        BY <2>1, <3>1, <3>2
      <3> QED
        BY <2>1, <2>2, <2>3, <3>1, <3>2, <3>3
    <2>7. CASE Settle
      <3> DEFINE touched == [slots EXCEPT ![live].used = clock + 1]
      <3>1. pc = "dispatched" /\ live' = live
        BY <2>7 DEF Settle
      <3>2. Len(rows) = job.pos /\ live # i /\ job.spare = i
        BY <1>1, <2>1, <3>1 DEF CInv, JobPlaced, SourceApart
      <3>3. slots' \in Trimmed(touched, live, job.spare)
        BY <2>7, <3>2 DEF Settle
      <3>4. DOMAIN touched = DOMAIN slots /\ touched[i] = slots[i]
        BY <2>1, <3>2
      <3> HIDE DEF touched
      <3>5. slots'[i] = slots[i]
        BY <2>1, <3>2, <3>3, <3>4 DEF Trimmed
      <3> QED
        BY <2>2, <2>3, <3>1, <3>2, <3>5
    <2> QED
      BY <1>1, <2>4, <2>5, <2>6, <2>7
  <1>2. CInv /\ [Next]_vars
          => [job.kind = "fork" /\ (PageOut \/ ForkOff \/ PageIn \/ Settle)
                => \A i \in {job.source} : Depth(i)' >= Depth(i)]_vars
    BY <1>1
  <1> QED
    BY <1>2, Conserved, PTL DEF Spec, ForkSparesItsSource
=============================================================================
