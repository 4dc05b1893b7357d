-------------------------- MODULE ConversationSlots --------------------------
(***************************************************************************)
(* The warm conversations of the language engine, and one job's passage    *)
(* through them (src/serve/engine.rs: SlotManager, run_job and the paging  *)
(* it calls).  The model has one KV cache; a slot is a conversation, live  *)
(* when the cache is its own, cold when it sits in a host image.           *)
(*                                                                         *)
(* What a cache or an image HOLDS is the sequence of tokens its rows were  *)
(* computed from, so that rows of the wrong conversation are visible: the  *)
(* code cannot see them, it only knows lengths.  An empty sequence stands  *)
(* for an absent image, since none is ever made of an empty cache.         *)
(*                                                                         *)
(* The engine is one thread, so a job is a chain of steps, cut where it    *)
(* can end early: at an abandonment check, at a failing model call, or in  *)
(* a panic, which costs the model.                                         *)
(***************************************************************************)
EXTENDS PrefixCache

CONSTANTS
    Jobs,        \* what may arrive: records [prompt, boundary, anchor]
    Replies,     \* the token sequences a decode may emit
    MaxCtx,      \* the model's context length
    DraftCtx,    \* the drafter's context length, 0 when none is attached
    DraftKind,   \* "dflash" or "mtp"
    SlotCounts,  \* what settings.cache_slots may be
    DiskTier,    \* whether a disk tier is configured
    MaxClock     \* bound: jobs dispatched since the model was loaded

\* What prompts and replies are made of.
Token == UNION {{t[n] : n \in DOMAIN t} : t \in Replies \cup {j.prompt : j \in Jobs}}

ASSUME SlotConstantsOK ==
    /\ MaxCtx \in Nat /\ DraftCtx \in Nat /\ MaxClock \in Nat
    /\ SlotCounts \subseteq Nat \ {0}
    /\ DraftKind \in {"dflash", "mtp"}
    /\ DiskTier \in BOOLEAN
    /\ \A t \in Replies : t \in Seq(Token)
    /\ \A j \in Jobs : /\ j.prompt \in Seq(Token) /\ j.prompt # <<>>
                       /\ j.boundary \in 0..(Len(j.prompt) - 1) /\ j.anchor \in Nat

VARIABLES
    slots,    \* SlotManager.slots
    live,     \* SlotManager.live, 0 for none
    maxSlots, \* SlotManager.max_slots
    clock,    \* SlotManager.clock
    rows,     \* what the full-attention layers of the KV cache hold
    rings,    \* what its sliding-window rings were computed from
    drafter,  \* what the drafter's cache holds
    stored,   \* the images the disk tier could load
    pc,       \* how far the job at hand is
    job       \* its request and the plan made for it

vars == <<slots, live, maxSlots, clock, rows, rings, drafter, stored, pc, job>>
caches == <<rows, rings, drafter>>

NoJob == [kind |-> "none"]

\* A request with nothing planned for it yet.
NoImage == [tokens |-> <<>>, rows |-> <<>>, snaps |-> {}, draft |-> <<>>]
NoPlan == [kind |-> "none", prompt |-> <<>>, boundary |-> 0, anchor |-> 0, shared |-> 0,
           slot |-> 0, pos |-> 0, spare |-> 0, stops |-> {}, image |-> NoImage,
           target |-> 0, source |-> 0, inherited |-> {}]

EmptySlot == [cache |-> EmptyCache, image |-> <<>>, draft |-> <<>>, agrees |-> 0, used |-> 0]
Fresh == [EmptySlot EXCEPT !.used = clock]

HoldsSomething(s) == AllSnapshots(s.cache) # {} \/ s.image # <<>> \/ s.draft # <<>>

\* Ties go to the highest index, and to the lowest.
MostRecent(S) ==
    CHOOSE i \in S : \A j \in S : \/ slots[j].used < slots[i].used
                                  \/ slots[j].used = slots[i].used /\ j <= i
LeastRecent(S) ==
    CHOOSE i \in S : \A j \in S : \/ slots[i].used < slots[j].used
                                  \/ slots[i].used = slots[j].used /\ i <= j

Cold == DOMAIN slots \ {live}
-----------------------------------------------------------------------------
\* Which slot serves a prompt.

ResumeIn(i, prompt) ==
    IF i = live THEN Plan(slots[i].cache, prompt).pos
    ELSE IF slots[i].image = <<>> THEN 0
    ELSE RewindTo(slots[i].cache, SharedWith(slots[i].cache, prompt))

BestSlot(prompt) ==
    LET deepest == {i \in DOMAIN slots : \A j \in DOMAIN slots :
                                            ResumeIn(j, prompt) <= ResumeIn(i, prompt)}
    IN  IF live \in deepest THEN live ELSE MostRecent(deepest)

\* A slot among the candidates, 0 for a new one; none leaves the set empty.
RoomAmong(candidates) ==
    IF Len(slots) < maxSlots THEN {0}
    ELSE IF candidates = {} THEN {} ELSE {LeastRecent(candidates)}

The(room) == CHOOSE t \in room : TRUE

FreshSlot == RoomAmong(Cold)
ForkTarget(source) == RoomAmong(Cold \ {source})

\* choose(): how, at which slot, and from where the prompt resumes.
Choose(prompt) ==
    LET best == BestSlot(prompt)
        resume == IF slots = <<>> THEN 0 ELSE ResumeIn(best, prompt)
    IN  IF resume > 0 /\ best = live
        THEN [how |-> Plan(slots[live].cache, prompt).how, slot |-> live, pos |-> resume]
        ELSE IF resume > 0 THEN [how |-> "swap", slot |-> best, pos |-> resume]
        ELSE IF FreshSlot # {} THEN [how |-> "fresh", slot |-> The(FreshSlot), pos |-> 0]
        ELSE [how |-> "cold", slot |-> live, pos |-> 0]

\* What the arriving prompt would destroy of slot i by taking it over at pos.
HistoryAtRisk(i, pos) ==
    LET imaged == IF i = live /\ slots[i].image # <<>> THEN slots[i].agrees ELSE 0
        from == Max({pos, imaged})
    IN  IF Len(slots[i].cache.tokens) > from THEN Len(slots[i].cache.tokens) - from ELSE 0

ForkWanted(choice) ==
    /\ choice.how \in {"restore", "swap"}
    /\ HistoryAtRisk(choice.slot, choice.pos) >= MinGain
    /\ ForkTarget(choice.slot) # {}

\* fork_rings: the snapshots a fork inherits, read before its page-out.
Inherited(source, pos) == {s \in AllSnapshots(slots[source].cache) : Len(s) <= pos}

DeepestShared(prompt) ==
    Max({0} \cup {SharedWith(slots[i].cache, prompt) : i \in DOMAIN slots}
            \cup {SharedWith(im, prompt) : im \in stored})

\* A slip: the deepest snapshot, shared with the prompt or not.
StoredResumeUnshared(im, prompt) ==
    Max({0} \cup {Len(s) : s \in {t \in im.snaps : Len(t) < Len(prompt)}})

\* Where a stored image resumes the prompt, and those that beat every warm slot.
StoredResume(im, prompt) ==
    LET shared == SharedWith(im, prompt)
    IN  Max({0} \cup {Len(s) : s \in {t \in im.snaps : Len(t) <= shared}})

Candidates(prompt, pos) == {im \in stored : StoredResume(im, prompt) > pos}
-----------------------------------------------------------------------------
\* What the slots become.

PutSlot(target, s) == IF target = 0 THEN Append(slots, s) ELSE [slots EXCEPT ![target] = s]
Landing(target) == IF target = 0 THEN Len(slots) + 1 ELSE target

\* install(): the shallowest snapshot is pinned, the deepest is the tail, and
\* those in between go through the ring, oldest first.
Install(snaps) ==
    LET lens == {Len(s) : s \in snaps}
        shallowest == {s \in snaps : Len(s) = Min(lens)}
        rest == snaps \ shallowest
    IN  [tokens |-> <<>>, anchor |-> shallowest,
         ring |-> {s \in rest : Cardinality({t \in rest : Len(t) > Len(s)})
                                   < (IF RingCapacity = 0 THEN 1 ELSE RingCapacity)}]

Installed(tokens, image, snaps, draft) ==
    [cache |-> [Install(snaps) EXCEPT !.tokens = tokens],
     image |-> image, draft |-> draft, agrees |-> 0, used |-> clock]

\* SlotManager::page_out of the live slot: the image supersedes what it held.
Paged ==
    [cache |-> PushTail(slots[live].cache, rings),
     image |-> rows, draft |-> drafter, agrees |-> 0, used |-> clock]

\* A slip: the history and the snapshots a failed job wrote over are kept.
DemotedWhole(s) ==
    IF s.image # <<>> /\ s.agrees > 0 /\ AllSnapshots(s.cache) # {}
    THEN [s EXCEPT !.agrees = 0] ELSE EmptySlot

\* abandon_live: the live slot falls back to what its image still backs.
Demoted(s) ==
    LET back == DropAfter([s.cache EXCEPT !.tokens = Upto(@, Shorter(Len(@), s.agrees))], s.agrees)
    IN  IF s.image # <<>> /\ s.agrees > 0 /\ AllSnapshots(back) # {}
        THEN [s EXCEPT !.cache = back, !.agrees = 0]
        ELSE EmptySlot

\* A slip: nothing protects the most recently used cold slot.
TrimmedWithoutNewest(sl, liveSlot, spare) ==
    LET Before(i, j) == sl[i].used < sl[j].used \/ (sl[i].used = sl[j].used /\ i <= j)
        exposed == {i \in DOMAIN sl \ {liveSlot, spare} : HoldsSomething(sl[i])}
    IN  {[i \in DOMAIN sl |-> IF i \in gone THEN EmptySlot ELSE sl[i]] :
            gone \in {g \in SUBSET exposed : \A i \in g, j \in exposed \ g : Before(i, j)}}

\* trim_to_budget: what the slots may be after it.  The budget is in bytes;
\* whatever the payloads weigh, what goes is a run of the least recently used
\* cold slots that hold something, without the newest one and the spared one.
Trimmed(sl, liveSlot, spare) ==
    LET cold == DOMAIN sl \ {liveSlot}
        Before(i, j) == sl[i].used < sl[j].used \/ (sl[i].used = sl[j].used /\ i <= j)
        newest == {i \in cold : \A j \in cold : Before(j, i)}
        exposed == {i \in cold \ (newest \cup {spare}) : HoldsSomething(sl[i])}
    IN  {[i \in DOMAIN sl |-> IF i \in gone THEN EmptySlot ELSE sl[i]] :
            gone \in {g \in SUBSET exposed : \A i \in g, j \in exposed \ g : Before(i, j)}}

\* What a page-out leaves in the disk tier: the writer may land the image, as a
\* chain that keeps the snapshots already stored along it, and its budget may
\* cost what was there before (the tier is bounded to one chain here).
Stored(s) ==
    LET along == {t \in UNION {im.snaps : im \in stored} : IsPrefix(t, s.cache.tokens)}
    IN  IF DiskTier
        THEN {stored, {[tokens |-> s.cache.tokens, rows |-> s.image,
                        snaps |-> along \cup AllSnapshots(s.cache), draft |-> s.draft]}}
        ELSE {stored}
-----------------------------------------------------------------------------
\* What the caches become.

\* A slip: the drafter is left as it was.
DrafterNotCut(pos) == drafter

\* sync_drafter_to: rows past pos go; an MTP head cannot be shortened and
\* starts over.
DrafterAt(pos) ==
    IF Len(drafter) <= pos THEN drafter
    ELSE IF DraftKind = "dflash" THEN Upto(drafter, pos) ELSE <<>>

\* Planes are imported when they reach the resume point; an MTP image only
\* when it ends there.
PlanesUsable(planes, pos) ==
    DraftCtx > 0 /\ (IF DraftKind = "dflash" THEN Len(planes) >= pos ELSE Len(planes) = pos)

ResetCaches == rows' = <<>> /\ rings' = <<>> /\ drafter' = <<>>

\* The checks that make page_in fail instead of uploading.
CanPageIn(i, pos) ==
    /\ i \in DOMAIN slots
    /\ HasSnapshotAt(slots[i].cache, pos)
    /\ pos <= Len(slots[i].image)
-----------------------------------------------------------------------------
\* The job is picked and its plan made.  A stored image competes only if there
\* is a slot to put it in that is not the live one.
Plans(j) ==
    LET choice == Choose(j.prompt)
        base == [NoPlan EXCEPT !.prompt = j.prompt, !.boundary = j.boundary, !.anchor = j.anchor,
                               !.shared = DeepestShared(j.prompt)]
        Hydrated(im) == [base EXCEPT !.kind = "hydrate", !.image = im,
                                     !.pos = StoredResume(im, j.prompt), !.target = The(FreshSlot)]
        Forked == [base EXCEPT !.kind = "fork", !.source = choice.slot, !.pos = choice.pos,
                               !.target = The(ForkTarget(choice.slot)),
                               !.inherited = Inherited(choice.slot, choice.pos)]
        Warm == [base EXCEPT !.kind = choice.how, !.slot = choice.slot, !.pos = choice.pos]
    IN  (IF FreshSlot = {} THEN {} ELSE {Hydrated(im) : im \in Candidates(j.prompt, choice.pos)})
          \cup {IF ForkWanted(choice) THEN Forked ELSE Warm}

\* A candidate wins whenever there is one, unless its read fails.
PickJob ==
    /\ pc = "idle"
    /\ clock < MaxClock
    /\ \E j \in Jobs :
          /\ Len(j.prompt) < MaxCtx
          /\ \E plan \in Plans(j) : job' = plan
    /\ pc' = "dispatching"
    /\ UNCHANGED <<slots, live, maxSlots, clock, caches, stored>>

\* A batch job wants the cache for itself, and no conversation of its own.
PickBatch ==
    /\ pc = "idle"
    /\ job' = [kind |-> "batch", slot |-> 0, pos |-> 0]
    /\ pc' = "dispatching"
    /\ UNCHANGED <<slots, live, maxSlots, clock, caches, stored>>

\* Abandoned before anything was written, or a batch whose page-out failed: the
\* cache still agrees with the live slot.
GiveUpEarly ==
    /\ pc = "dispatching"
    /\ job.kind \in {"hydrate", "fork", "swap", "fresh", "batch"}
    /\ pc' = "idle"
    /\ job' = NoJob
    /\ UNCHANGED <<slots, live, maxSlots, clock, caches, stored>>

\* A slip: the swap's own target is exposed to the trim.
SparesForksOnly == IF job.kind = "fork" THEN job.source ELSE 0

\* page_out_live, with the slot each arm spares from the trim.
Spared == CASE job.kind = "fork" -> job.source
            [] job.kind = "swap" -> job.slot
            [] OTHER -> 0

PageOut ==
    /\ pc = "dispatching"
    /\ job.kind \in {"hydrate", "fork", "swap", "fresh", "batch"}
    /\ IF live = 0 THEN UNCHANGED <<slots, stored>>
       ELSE IF rows = <<>>
       THEN slots' = [slots EXCEPT ![live] = Demoted(@)] /\ UNCHANGED stored
       ELSE /\ slots' \in Trimmed([slots EXCEPT ![live] = Paged], 0, Spared)
            /\ stored' \in Stored(Paged)
    /\ live' = 0
    /\ pc' = "paged_out"
    /\ UNCHANGED <<maxSlots, clock, caches, job>>

\* A slip: the source is not handed on as the slot to spare.
ForkOffSourceExposed ==
    /\ pc = "paged_out" /\ job.kind = "fork"
    /\ LET source == slots[job.source]
           tokens == Upto(source.cache.tokens, Shorter(job.pos, Len(source.cache.tokens)))
       IN  /\ source.image # <<>>
           /\ slots' = PutSlot(job.target, Installed(tokens, source.image, job.inherited, source.draft))
    /\ job' = [job EXCEPT !.slot = Landing(job.target)]
    /\ pc' = "installed"
    /\ UNCHANGED <<live, maxSlots, clock, caches, stored>>

\* fork_from: the prompt gets a slot of its own on the source's image, and the
\* source is spared from the trim that closes the dispatch.
ForkOff ==
    /\ pc = "paged_out" /\ job.kind = "fork"
    /\ LET source == slots[job.source]
           tokens == Upto(source.cache.tokens, Shorter(job.pos, Len(source.cache.tokens)))
       IN  /\ source.image # <<>>
           /\ slots' = PutSlot(job.target, Installed(tokens, source.image, job.inherited, source.draft))
    /\ job' = [job EXCEPT !.spare = job.source, !.slot = Landing(job.target)]
    /\ pc' = "installed"
    /\ UNCHANGED <<live, maxSlots, clock, caches, stored>>

\* A slip: the prompt is recorded as the history before it is prefilled.
InstallStoredAsPrompt ==
    /\ pc = "paged_out" /\ job.kind = "hydrate"
    /\ LET snaps == {s \in job.image.snaps : Len(s) <= job.pos}
       IN  slots' = PutSlot(job.target, Installed(job.prompt, job.image.rows, snaps, job.image.draft))
    /\ job' = [job EXCEPT !.slot = Landing(job.target)]
    /\ pc' = "installed"
    /\ UNCHANGED <<live, maxSlots, clock, caches, stored>>

\* install_stored_image, without the snapshots past the resume point.
InstallStored ==
    /\ pc = "paged_out" /\ job.kind = "hydrate"
    /\ LET snaps == {s \in job.image.snaps : Len(s) <= job.pos}
       IN  slots' = PutSlot(job.target,
                            Installed(job.image.tokens, job.image.rows, snaps, job.image.draft))
    /\ job' = [job EXCEPT !.slot = Landing(job.target)]
    /\ pc' = "installed"
    /\ UNCHANGED <<live, maxSlots, clock, caches, stored>>

\* page_in: the image's rows below the resume point, the rings of the snapshot
\* there, and the drafter's planes when they are of use.
PageIn ==
    /\ \/ pc = "paged_out" /\ job.kind = "swap"
       \/ pc = "installed"
    /\ CanPageIn(job.slot, job.pos)
    /\ LET held == slots[job.slot]
       IN  /\ rows' = Upto(held.image, job.pos)
           /\ rings' = SnapshotAt(held.cache, job.pos)
           /\ drafter' = IF PlanesUsable(held.draft, job.pos) THEN Upto(held.draft, job.pos) ELSE <<>>
           /\ slots' = [slots EXCEPT ![job.slot].cache = DropAfter(@, job.pos),
                                     ![job.slot].agrees = job.pos]
    /\ live' = job.slot
    /\ pc' = "dispatched"
    /\ UNCHANGED <<maxSlots, clock, stored, job>>

\* The stored image could not be read: the warm choice stands.
HydrateUnavailable ==
    /\ pc = "dispatching" /\ job.kind = "hydrate"
    /\ stored' = stored \ {job.image}
    /\ \E plan \in Plans(job) : plan.kind # "hydrate" /\ job' = [plan EXCEPT !.shared = job.shared]
    /\ UNCHANGED <<slots, live, maxSlots, clock, caches, pc>>

StartFresh ==
    /\ pc = "paged_out" /\ job.kind = "fresh"
    /\ slots' = PutSlot(job.slot, Fresh)
    /\ live' = Landing(job.slot)
    /\ ResetCaches
    /\ pc' = "dispatched"
    /\ UNCHANGED <<maxSlots, clock, stored, job>>

ExtendLive ==
    /\ pc = "dispatching" /\ job.kind = "extend"
    /\ pc' = "dispatched"
    /\ UNCHANGED <<slots, live, maxSlots, clock, caches, stored, job>>

\* A slip: the image is still trusted past the rewind.
RestoreLiveBoundKept ==
    /\ pc = "dispatching" /\ job.kind = "restore"
    /\ slots' = [slots EXCEPT ![live].cache = DropAfter(@, job.pos)]
    /\ rows' = Upto(rows, job.pos)
    /\ rings' = SnapshotAt(slots[live].cache, job.pos)
    /\ drafter' = DrafterAt(job.pos)
    /\ pc' = "dispatched"
    /\ UNCHANGED <<live, maxSlots, clock, stored, job>>

\* restore_live: the rows are shortened in place, the rings come from the
\* snapshot, the drafter is cut to match, and rewind_live lowers the bound.
RestoreLive ==
    /\ pc = "dispatching" /\ job.kind = "restore"
    /\ slots' = [slots EXCEPT ![live].cache = DropAfter(@, job.pos),
                              ![live].agrees = Shorter(@, job.pos)]
    /\ rows' = Upto(rows, job.pos)
    /\ rings' = SnapshotAt(slots[live].cache, job.pos)
    /\ drafter' = DrafterAt(job.pos)
    /\ pc' = "dispatched"
    /\ UNCHANGED <<live, maxSlots, clock, stored, job>>

\* restart_live: the slot stays live, and holds nothing any more.
RestartLive ==
    /\ pc = "dispatching" /\ job.kind = "cold"
    /\ slots' = [slots EXCEPT ![live] = [EmptySlot EXCEPT !.used = slots[live].used]]
    /\ ResetCaches
    /\ pc' = "dispatched"
    /\ UNCHANGED <<live, maxSlots, clock, stored, job>>
-----------------------------------------------------------------------------
\* The dispatch is over: the slot is touched, the budget enforced, the cache's
\* length checked against the plan, and the prefill's stops planned.
Settle ==
    /\ pc = "dispatched"
    /\ clock' = clock + 1
    /\ \E trimmed \in Trimmed([slots EXCEPT ![live].used = clock + 1], live, job.spare) :
          IF Len(rows) = job.pos
          THEN /\ slots' = trimmed
               /\ job' = [job EXCEPT !.stops =
                            SnapshotStops(trimmed[live].cache, job.prompt, job.pos,
                                          job.boundary, job.anchor, job.shared)]
               /\ UNCHANGED caches
          ELSE /\ slots' = [trimmed EXCEPT ![live] = [EmptySlot EXCEPT !.used = clock + 1]]
               /\ job' = [job EXCEPT !.pos = 0, !.stops =
                            SnapshotStops(EmptyCache, job.prompt, 0,
                                          job.boundary, job.anchor, job.shared)]
               /\ ResetCaches
    /\ pc' = "prefilling"
    /\ UNCHANGED <<live, maxSlots, stored>>

\* One chunk of the prefill, no further than the next stop; a stop reached is
\* a snapshot taken.  The drafter takes rows only while it is level.
Prefill ==
    /\ pc = "prefilling"
    /\ Len(rows) < Len(job.prompt)
    /\ LET from == Len(rows)
           next == Min({Len(job.prompt)} \cup {s.at : s \in job.stops})
           Chunk(n) == SubSeq(job.prompt, from + 1, n)
       IN \E to \in (from + 1)..next :
            /\ rows' = rows \o Chunk(to)
            /\ rings' = rings \o Chunk(to)
            /\ drafter' = IF Len(drafter) = from /\ from < DraftCtx
                          THEN drafter \o Chunk(Shorter(to, DraftCtx)) ELSE drafter
            /\ job' = [job EXCEPT !.stops = {s \in @ : s.at # to}]
            /\ slots' = [slots EXCEPT ![live].cache =
                  CASE \E s \in job.stops : s.at = to /\ s.why = "anchor" -> SetAnchor(@, rings')
                    [] \E s \in job.stops : s.at = to /\ s.why # "anchor" -> Push(@, rings')
                    [] OTHER -> @]
    /\ UNCHANGED <<live, maxSlots, clock, stored, pc>>

\* A slip: the history is set to the prompt, prefilled or not.
AbandonPrefillUnreconciled ==
    /\ pc = "prefilling"
    /\ Len(rows) < Len(job.prompt)
    /\ slots' = [slots EXCEPT ![live].cache.tokens = job.prompt]
    /\ drafter' = DrafterAt(Len(rows))
    /\ pc' = "idle"
    /\ job' = NoJob
    /\ UNCHANGED <<live, maxSlots, clock, rows, rings, stored>>

\* Abandoned between two chunks, or as the reply is opened: the slot is
\* reconciled to what the cache holds (reconcile_partial_prefill).
AbandonPrefill ==
    /\ pc = "prefilling"
    /\ Len(rows) < Len(job.prompt)
    /\ slots' = [slots EXCEPT ![live].cache.tokens = Upto(job.prompt, Len(rows))]
    /\ drafter' = DrafterAt(Len(rows))
    /\ pc' = "idle"
    /\ job' = NoJob
    /\ UNCHANGED <<live, maxSlots, clock, rows, rings, stored>>

\* The decode: every emitted token is cached but, perhaps, the last; the
\* history is what was asked and answered, cut to the cache's length.  A
\* drafter that is level may follow.
Decode ==
    /\ pc = "prefilling"
    /\ Len(rows) = Len(job.prompt)
    /\ \E ids \in Replies :
       \E k \in {Len(ids), IF ids = <<>> THEN 0 ELSE Len(ids) - 1} :
          /\ Len(job.prompt) + Len(ids) <= MaxCtx
          /\ rows' = rows \o Upto(ids, k)
          /\ rings' = rings \o Upto(ids, k)
          /\ drafter' \in IF Len(drafter) = Len(rows)
                          THEN {drafter \o Upto(ids, n) :
                                  n \in {m \in 0..k : Len(rows) + m <= DraftCtx}}
                          ELSE {drafter}
          /\ slots' = [slots EXCEPT ![live].cache.tokens =
                         Upto(job.prompt \o ids, Shorter(Len(job.prompt \o ids), Len(rows')))]
          \* A decode that failed reconciled too, but leaves the cache dirty.
          /\ pc' \in {"idle", "failed"}
    /\ job' = NoJob
    /\ UNCHANGED <<live, maxSlots, clock, stored>>

\* A model call or a check that protects one fails; the job is abandoned with
\* the cache belonging to nobody; a batch ends, well or badly.  All leave the
\* cache dirty.
Fail ==
    /\ \/ pc = "dispatching" /\ job.kind \notin {"batch", "extend"}
       \/ pc \in {"paged_out", "installed", "prefilling"}
    /\ pc' = "failed"
    /\ UNCHANGED <<slots, live, maxSlots, clock, caches, stored, job>>

\* EngineState::reset, after every job that left the cache dirty.
Reset ==
    /\ pc = "failed"
    /\ slots' = IF live = 0 THEN slots ELSE [slots EXCEPT ![live] = Demoted(@)]
    /\ live' = 0
    /\ ResetCaches
    /\ pc' = "idle"
    /\ job' = NoJob
    /\ UNCHANGED <<maxSlots, clock, stored>>

\* A panic in a job, or a reset that failed, drops the model with every warm
\* conversation.
DropModel ==
    /\ slots' = <<>> /\ live' = 0 /\ clock' = 0
    /\ ResetCaches
    /\ pc' = "idle"
    /\ job' = NoJob

Panic == pc # "idle" /\ DropModel /\ UNCHANGED <<maxSlots, stored>>

\* An idle unload, a checkpoint swap or a shutdown images the live
\* conversation for the disk tier first.
Unload ==
    /\ pc = "idle" /\ slots # <<>>
    /\ stored' \in IF live = 0 \/ rows = <<>> THEN {stored} ELSE Stored(Paged)
    /\ DropModel
    /\ UNCHANGED maxSlots
-----------------------------------------------------------------------------
Init ==
    /\ slots = <<>> /\ live = 0 /\ clock = 0
    /\ maxSlots \in SlotCounts
    /\ rows = <<>> /\ rings = <<>> /\ drafter = <<>>
    /\ stored = {}
    /\ pc = "idle"
    /\ job = NoJob

Dispatch == \/ PickJob \/ PickBatch \/ GiveUpEarly \/ HydrateUnavailable
            \/ PageOut \/ ForkOff \/ InstallStored \/ PageIn \/ StartFresh
            \/ ExtendLive \/ RestoreLive \/ RestartLive \/ Settle
Run == Prefill \/ AbandonPrefill \/ Decode
Upkeep == Fail \/ Reset \/ Panic \/ Unload
Next == Dispatch \/ Run \/ Upkeep

Spec == Init /\ [][Next]_vars
-----------------------------------------------------------------------------
\* Every variable is of the shape its comment gives it.
IsHistory(s) == s \in Seq(Token) /\ Len(s) <= MaxCtx
IsSnapshots(S) == \A s \in S : IsHistory(s) /\ s # <<>>

TypeOK ==
    /\ \A i \in DOMAIN slots :
          /\ DOMAIN slots[i] = DOMAIN EmptySlot
          /\ IsHistory(slots[i].cache.tokens)
          /\ IsSnapshots(AllSnapshots(slots[i].cache))
          /\ Cardinality(slots[i].cache.ring) <= Max({1, RingCapacity})
          /\ Cardinality(slots[i].cache.anchor) <= 1
          /\ IsHistory(slots[i].image) /\ IsHistory(slots[i].draft)
          /\ slots[i].agrees \in 0..MaxCtx /\ slots[i].used \in 0..clock
    /\ maxSlots \in SlotCounts /\ Len(slots) <= maxSlots
    /\ live \in 0..Len(slots) /\ clock \in 0..MaxClock
    /\ IsHistory(rows) /\ IsHistory(rings) /\ IsHistory(drafter)
    /\ pc \in {"idle", "dispatching", "paged_out", "installed", "dispatched", "prefilling", "failed"}
    /\ pc \in {"dispatched", "prefilling"} => live # 0

\* What a reply is computed from is the request's own tokens: whatever chain of
\* rewinds, swaps, forks and hydrations led to it, the rows, the rings and the
\* drafter's rows the prefill appends to are those of the prompt being served.
NeverWrongResume ==
    pc = "prefilling" =>
        /\ IsPrefix(rows, job.prompt)
        /\ rings = rows
        /\ IsPrefix(drafter, rows)

\* "For a cold slot the image is what makes every position the snapshots name
\* resumable" (engine.rs, Slot::full_kv): its history is a prefix of what the
\* image holds, and so is every snapshot, through every demotion and trim.
ColdSlotsBacked ==
    \A i \in Cold :
        /\ IsPrefix(slots[i].cache.tokens, slots[i].image)
        /\ \A s \in AllSnapshots(slots[i].cache) : IsPrefix(s, slots[i].image)

\* Between jobs the live slot's history is exactly what the caches hold, and its
\* retained image agrees with it as far as the bound a demotion would keep.
LiveMatchesCache ==
    pc = "idle" =>
        IF live = 0 THEN rows = <<>> /\ rings = <<>> /\ drafter = <<>>
        ELSE LET held == slots[live]
             IN  /\ held.cache.tokens = rows /\ rings = rows /\ IsPrefix(drafter, rows)
                 /\ \A s \in AllSnapshots(held.cache) : IsPrefix(s, rows)
                 /\ held.agrees > 0 => IsPrefix(Upto(held.image, held.agrees), rows)

\* The plan made before the page-out still stands after it: neither the tail
\* snapshot it pushes nor the budget it enforces has taken away the image or the
\* snapshot the job is about to resume from.
PlanSurvivesPageOut ==
    /\ pc = "paged_out" /\ job.kind = "swap" => CanPageIn(job.slot, job.pos)
    /\ pc = "paged_out" /\ job.kind = "fork" =>
          /\ slots[job.source].image # <<>>
          /\ \E s \in job.inherited : Len(s) = job.pos
    /\ pc = "installed" => CanPageIn(job.slot, job.pos)

\* The cache is as long as the plan said, whichever arm dispatched: the repair
\* that replays a whole prompt (ServeLog::CacheLengthMismatch) never runs.
NoDrift == pc = "dispatched" => Len(rows) = job.pos

\* The stops still ahead are ahead of the cache and short of the prompt's end,
\* no two at one position, so that none deletes what another paid for.
StopsAhead ==
    pc = "prefilling" =>
        \A s \in job.stops :
            /\ Len(rows) < s.at /\ s.at < Len(job.prompt)
            /\ \A t \in job.stops \ {s} : t.at # s.at

\* How deep a conversation could be picked up again in slot i.
Depth(i) ==
    IF i = live THEN Len(slots[i].cache.tokens)
    ELSE IF slots[i].image = <<>> THEN 0
    ELSE RewindTo(slots[i].cache, Len(slots[i].cache.tokens))

\* "Nothing is lost" when a conversation leaves the cache (engine.rs,
\* page_out_live): it can be picked up again where it was.  The trim that its own
\* image sets off must take another, although slots that a failed job installed
\* and never served are as recent as the clock.
WhoLeavesStaysWarm ==
    [][\A i \in {live} : PageOut /\ i # 0 /\ rows # <<>> => Depth(i)' = Depth(i)]_vars

\* "Forking keeps both warm" (engine.rs, fork_plan) for the conversation forked
\* off: from the moment the fork is chosen until its prompt prefills, nothing
\* lowers the position its source can be resumed at.
ForkSparesItsSource ==
    [][job.kind = "fork" /\ (PageOut \/ ForkOff \/ PageIn \/ Settle)
       => \A i \in {job.source} : Depth(i)' >= Depth(i)]_vars

\* "It is taken whenever the history at stake is worth a page-out ... and there
\* is a slot to fork into" (engine.rs, fork_plan): where there is such a slot, a
\* rewind in place loses less than that floor of the conversation it rewinds,
\* counting what any cold slot could still resume of it.
StillWarm(history) ==
    Max({0} \cup {RewindTo(slots[j].cache, CommonLen(slots[j].cache.tokens, history)) :
                      j \in {k \in Cold : slots[k].image # <<>>}})

RewindCostsLittle ==
    [][RestoreLive /\ ForkTarget(live) # {}
       => Depth(live) < Max({job.pos, StillWarm(slots[live].cache.tokens)}) + MinGain]_vars
=============================================================================
