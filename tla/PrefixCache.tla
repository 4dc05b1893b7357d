----------------------------- MODULE PrefixCache -----------------------------
(***************************************************************************)
(* What the engine remembers of one conversation (src/serve/engine.rs,     *)
(* PrefixCache) and the decisions taken from it: where a prompt may        *)
(* resume, and where its prefill stops to take a snapshot.                 *)
(*                                                                         *)
(* A token history is a sequence.  A snapshot is a copy of the             *)
(* sliding-window rings at a position; what it holds is determined by the  *)
(* tokens the rings were computed from, so a snapshot IS that sequence,    *)
(* and its position is the sequence's length.  A snapshot that belongs to  *)
(* another history than the one it is filed under is then simply a         *)
(* sequence that is no prefix of it.                                       *)
(*                                                                         *)
(* No snapshot is ever taken at position zero, so zero stands for the      *)
(* code's None wherever a resume position is optional.                     *)
(***************************************************************************)
EXTENDS Naturals, SequencesExt

CONSTANTS
    RingCapacity,   \* PrefixCache.capacity: settings.cache_snapshots
    MinGain         \* SNAPSHOT_MIN_GAIN

ASSUME PrefixConstantsOK == RingCapacity \in Nat /\ MinGain \in Nat \ {0}

EmptyCache == [tokens |-> <<>>, ring |-> {}, anchor |-> {}]

Upto(s, n) == SubSeq(s, 1, n)
Shorter(m, n) == IF m <= n THEN m ELSE n

\* The code's common_prefix_len.
CommonLen(s, t) == Max({n \in 0..Shorter(Len(s), Len(t)) : Upto(s, n) = Upto(t, n)})

AllSnapshots(c) == c.ring \cup c.anchor
HasSnapshotAt(c, pos) == \E s \in AllSnapshots(c) : Len(s) = pos
SnapshotAt(c, pos) == CHOOSE s \in AllSnapshots(c) : Len(s) = pos

\* Forget every snapshot past pos.
DropAfter(c, pos) ==
    [c EXCEPT !.ring = {s \in @ : Len(s) <= pos}, !.anchor = {s \in @ : Len(s) <= pos}]

\* A slip for the mutants: the ring is never cut to its capacity.
RecordUnbounded(c, s, capacity) ==
    [c EXCEPT !.ring = {t \in @ : Len(t) < Len(s)} \cup {s},
              !.anchor = {t \in @ : Len(t) < Len(s)}]

\* Store s as the newest snapshot: whatever stands at or past its position
\* goes, the anchor included, and then the oldest of the ring past capacity.
Record(c, s, capacity) ==
    LET kept == {t \in c.ring : Len(t) < Len(s)} \cup {s}
    IN  [c EXCEPT !.ring = {t \in kept : Cardinality({u \in kept : Len(u) > Len(t)}) < capacity},
                  !.anchor = {t \in @ : Len(t) < Len(s)}]

Push(c, s) == IF RingCapacity = 0 THEN c ELSE Record(c, s, RingCapacity)

\* A page-out's snapshot ignores a zero cap.
PushTail(c, s) == Record(c, s, IF RingCapacity = 0 THEN 1 ELSE RingCapacity)

SetAnchor(c, s) == [c EXCEPT !.anchor = {s}]

\* The deepest position at or below pos that has a snapshot.
RewindTo(c, pos) == Max({0} \cup {n \in 1..pos : HasSnapshotAt(c, n)})

\* How much of the prompt the history shares; the last token is always left
\* to run, for its logits.
SharedWith(c, prompt) == Shorter(CommonLen(c.tokens, prompt), Len(prompt) - 1)

\* How the live conversation serves the prompt.
Plan(c, prompt) ==
    LET shared == SharedWith(c, prompt)
        back == RewindTo(c, shared)
    IN  IF shared = Len(c.tokens) THEN [how |-> "extend", pos |-> shared]
        ELSE IF back > 0 THEN [how |-> "restore", pos |-> back]
        ELSE [how |-> "cold", pos |-> 0]
-----------------------------------------------------------------------------
\* Whether a snapshot at pos pays for itself.
WorthTaking(pos, resume, ceiling, already) ==
    /\ resume < pos /\ pos < ceiling
    /\ pos >= already + MinGain

\* A slip: the turn boundary is a stop even when it is already cached.
SnapshotStopsTurnAlways(c, prompt, resume, boundary, anchor, sharedElsewhere) ==
    {[at |-> p, why |-> "anchor"] : p \in {q \in {anchor} : WorthTaking(q, resume, boundary, 0)}}
      \cup {[at |-> boundary, why |-> "turn"]}

\* Where the prefill pauses: the end of the system block, the turn boundary,
\* and the deepest position this prompt shares with anything the server holds.
SnapshotStops(c, prompt, resume, boundary, anchor, sharedElsewhere) ==
    LET pinned == {p \in {anchor} : WorthTaking(p, resume, boundary, 0)}
        turn == {p \in {boundary} : resume < p /\ p < Len(prompt)}
        branch == Shorter(Max({SharedWith(c, prompt), sharedElsewhere}), Len(prompt) - 1)
        already == Max({RewindTo(c, branch), resume}
                         \cup {p \in pinned \cup turn : p <= branch})
        fork == {p \in {branch} : WorthTaking(p, resume, Len(prompt), already)}
    IN  IF RingCapacity = 0 THEN {}
        ELSE {[at |-> p, why |-> "anchor"] : p \in pinned}
               \cup {[at |-> p, why |-> "turn"] : p \in turn}
               \cup {[at |-> p, why |-> "branch"] : p \in fork \ (pinned \cup turn)}
=============================================================================
