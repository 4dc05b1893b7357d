--------------------------- MODULE DiskTierProofs ---------------------------
(***************************************************************************)
(* What the disk tier keeps for every tree, budget and number of faults:   *)
(* the index counts and describes the files there are, a slot is linked to *)
(* nothing but its own conversation, no file is left without the one it    *)
(* chains onto, and nothing that could be resumed is lost by a write.      *)
(* Where the code leaves a window open, the histories "misread" and        *)
(* "taken" say when it was hit, and the theorems hold outside it.          *)
(*                                                                         *)
(* The writer plans under the lock and acts outside it, so the invariant   *)
(* says, for every stage of a write, what is still true of the plan made   *)
(* at an earlier one: the engine deletes behind its back, but only files   *)
(* that went bad.                                                          *)
(***************************************************************************)
EXTENDS DiskTier, FiniteSetTheorems, SequenceTheorems, WellFoundedInduction, TLAPS

Standings == {"ready", "demoted", "held"}
Stages == {"idle", "locate", "split", "put", "record", "backfill", "link", "supersede",
           "condemn", "evict", "erase"}
Roles == {"none", "base", "rest", "backfill", "tail"}

Request ==
    {req \in [slot : Slots, tokens : Conversations, snaps : SUBSET Nat, current : BOOLEAN] :
        req.snaps \subseteq 1..Len(req.tokens)}
Put == [name : Names \cup {Root}, start : Nat, snaps : SUBSET Nat, role : Roles]

\* A segment under a name: a span of it that is not empty.
Spans(name, start, snaps) == start < Len(name) /\ snaps \subseteq (start + 1)..Len(name)

\* Nothing that chains onto it is in the air; or it is where an entry that a
\* refresh set from an old reading may hide what chains onto it.
Placed(f) == f \in DOMAIN disk \cup {Root} \cup Rotted \/ Doubtful(f)

---------------------------------------------------------------------------
(* The invariant.                                                          *)

FilesTyped ==
    /\ DOMAIN disk \subseteq Names /\ IsFiniteSet(DOMAIN disk)
    /\ disk \in [DOMAIN disk -> [start : Nat, snaps : SUBSET Nat, ok : BOOLEAN]]
    /\ \A f \in DOMAIN disk : Spans(f, disk[f].start, disk[f].snaps)
    /\ \A f \in DOMAIN disk : ~disk[f].ok => f \in Rotted

IndexTyped ==
    /\ DOMAIN index \subseteq Names /\ IsFiniteSet(DOMAIN index)
    /\ index \in [DOMAIN index -> [start : Nat, snaps : SUBSET Nat, standing : Standings]]
    /\ \A f \in DOMAIN index : Spans(f, index[f].start, index[f].snaps)

EngineTyped ==
    /\ links \in [Slots -> Names \cup {Root}]
    /\ holds \in [Slots -> Conversations \cup {Root}]
    /\ pending \in Seq(Request)
    /\ up \in {"down", "opening", "up"}
    /\ up = "down" => DOMAIN index = {} /\ At("idle") /\ reader.pc = "idle"

ReaderTyped ==
    /\ DOMAIN reader = {"pc", "slot", "prompt", "leaf", "resume", "next", "read"}
    /\ reader.pc \in {"idle", "reading", "stale", "composed"}
    /\ DOMAIN reader.read \subseteq Names
    /\ reader.read \in [DOMAIN reader.read -> [start : Nat, snaps : SUBSET Nat]]
    /\ \A f \in DOMAIN reader.read : Spans(f, reader.read[f].start, reader.read[f].snaps)
    /\ reader.pc # "idle" =>
        /\ reader.slot \in Slots /\ reader.prompt \in Prompts
        /\ reader.leaf \in Names /\ SameStart(reader.leaf, reader.prompt)

Writers ==
    {w \in [pc : Stages, req : Request \cup {NoRequest}, path : Names \cup {Root}, at : Nat,
            boundary : Nat, put : Put, rest : Put, fresh : SUBSET Names, doomed : SUBSET Names] :
        w.pc \in {"locate", "split", "put", "record", "backfill", "link"} => w.req \in Request}
WriterTyped == writer \in Writers

\* What a plan says, at each stage of it, about the conversation it is for.
PutFits(w) ==
    LET h    == w.req.tokens
        put  == w.put
        rest == w.rest
    IN  /\ put.role # "none" /\ put.name # Root /\ Spans(put.name, put.start, put.snaps)
        /\ put.role # "tail" => w.at < Len(h)
        /\ put.role = "base" =>
            /\ put.name = Upto(h, w.at) /\ w.boundary < Len(h)
            /\ rest.role = "rest" /\ rest.name # Root
            /\ Spans(rest.name, rest.start, rest.snaps) /\ Upto(rest.name, rest.start) = put.name
        /\ put.role = "tail" => put.name = h
Fits(w) ==
    LET h == w.req.tokens
    IN  /\ w.pc = "split" =>
            /\ w.path \in Names /\ 0 < w.at /\ w.at < Len(w.path) /\ w.at <= Len(h)
            /\ Upto(w.path, w.at) = Upto(h, w.at) /\ w.boundary < Len(h)
        /\ w.pc = "backfill" => w.at < Len(h)
        /\ w.pc \in {"put", "record"} => PutFits(w)
PlansFit ==
    /\ Fits(writer)
    /\ At("split") /\ writer.path \in DOMAIN disk => writer.path \in DOMAIN index
    /\ At("record") =>
        /\ writer.put.name \in DOMAIN disk
        /\ disk[writer.put.name] =
              [start |-> writer.put.start, snaps |-> writer.put.snaps, ok |-> TRUE]

\* The segments the plan chains onto have stayed where they were.
Stands(w) ==
    LET h   == w.req.tokens
        put == w.put
    IN  /\ w.pc = "split" => Placed(Upto(h, w.boundary))
        /\ w.pc = "backfill" => Placed(Upto(h, w.at))
        /\ w.pc \in {"put", "record"} =>
            /\ Placed(Upto(put.name, put.start))
            /\ put.role = "base" => Placed(Upto(h, w.boundary))
            /\ put.role \in {"rest", "backfill"} => Placed(Upto(h, w.at))
PlansPlaced == Stands(writer)

\* What is about to be deleted has nothing behind it that the index describes.
Bare(f) == Children(index, f) \subseteq misread
DoomedAreBare ==
    /\ At("condemn") => \A f \in writer.doomed : Bare(f)
    /\ At("erase") => Bare(writer.path)

\* Whose a write is, of a slot that was not taken over since it was queued.
Ours(req) == req.current /\ req.slot \notin taken => SameStart(req.tokens, holds[req.slot])
RequestsAreOurs == (\A i \in DOMAIN pending : Ours(pending[i])) /\ Ours(writer.req)

\* What the index knows is chained onto something.
KnownAreChained ==
    \A f \in (DOMAIN disk \ Unread) \cup (DOMAIN disk \cap DOMAIN index) : Placed(ParentOf(disk, f))

DInv ==
    /\ FilesTyped /\ IndexTyped /\ EngineTyped /\ ReaderTyped /\ WriterTyped
    /\ PlansFit /\ IndexCountsDisk /\ RequestsAreOurs /\ LinkIsOurs
    /\ IndexIsAccurate /\ PlansPlaced /\ DoomedAreBare /\ KnownAreChained

---------------------------------------------------------------------------
(* Histories.                                                              *)

LEMMA LowestOf ==
    ASSUME NEW S, S \subseteq Nat, S # {}
    PROVE  \E x \in S : \A y \in S : x <= y
  <1>1. PICK x \in S : \A y \in S : ~(<<y, x>> \in OpToRel(<, Nat))
    BY WFMin, NatLessThanWellFounded
  <1>2. \A y \in S : ~(y < x)
    BY <1>1 DEF OpToRel
  <1> QED
    BY <1>2

LEMMA HighestOf ==
    ASSUME NEW k \in Nat, NEW S, S \subseteq 0..k, S # {}
    PROVE  \E x \in S : \A y \in S : y <= x
  <1> DEFINE Gaps == {n \in 0..k : k - n \in S}
  <1>1. Gaps \subseteq Nat /\ Gaps # {}
    <2>1. PICK x \in S : x \in 0..k
      OBVIOUS
    <2>2. k - x \in 0..k /\ k - (k - x) = x
      BY <2>1
    <2>3. k - x \in Gaps
      BY <2>2
    <2>4. Gaps \subseteq Nat
      OBVIOUS
    <2> HIDE DEF Gaps
    <2> QED
      BY <2>3, <2>4
  <1>2. PICK g \in Gaps : \A n \in Gaps : g <= n
    <2> HIDE DEF Gaps
    <2> QED
      BY <1>1, LowestOf
  <1>3. \A y \in S : y <= k - g
    <2> TAKE y \in S
    <2>1. y \in 0..k /\ k - (k - y) = y
      OBVIOUS
    <2>2. k - y \in Gaps
      BY <2>1
    <2> QED
      BY <1>2, <2>1, <2>2
  <1> QED
    BY <1>2, <1>3

LEMMA MaxIs ==
    ASSUME NEW k \in Nat, NEW S, S \subseteq 0..k, S # {}
    PROVE  Max(S) \in S /\ \A y \in S : y <= Max(S)
  <1>1. PICK x \in S : \A y \in S : y <= x
    BY HighestOf
  <1>2. \E z \in S : \A y \in S : z >= y
    BY <1>1
  <1>3. Max(S) \in S /\ \A y \in S : Max(S) >= y
    BY <1>2 DEF Max
  <1> QED
    BY <1>3

LEMMA UptoIs ==
    ASSUME NEW T, NEW s \in Seq(T), NEW n \in 0..Len(s)
    PROVE  /\ Upto(s, n) \in Seq(T) /\ Len(Upto(s, n)) = n
           /\ \A i \in 1..n : Upto(s, n)[i] = s[i]
           /\ n > 0 => Upto(s, n) # Root /\ Upto(s, n)[1] = s[1]
  <1>1. /\ Upto(s, n) \in Seq(T) /\ Len(Upto(s, n)) = n
        /\ \A i \in 1..n : Upto(s, n)[i] = s[i]
    BY DEF Upto
  <1> QED
    BY <1>1 DEF Root

LEMMA UptoNothing ==
    ASSUME NEW T, NEW s \in Seq(T)
    PROVE  Upto(s, 0) = Root
  BY SubSeqEmpty DEF Upto, Root

LEMMA UptoAll ==
    ASSUME NEW T, NEW s \in Seq(T)
    PROVE  Upto(s, Len(s)) = s
  BY SubSeqFull DEF Upto

LEMMA UptoUpto ==
    ASSUME NEW T, NEW s \in Seq(T), NEW n \in 0..Len(s), NEW m \in 0..n
    PROVE  Upto(Upto(s, n), m) = Upto(s, m)
  <1>1. /\ Upto(s, n) \in Seq(T) /\ Len(Upto(s, n)) = n
        /\ \A i \in 1..n : Upto(s, n)[i] = s[i]
    BY UptoIs
  <1>2. m \in 0..Len(s) /\ m \in 0..Len(Upto(s, n)) /\ 1..m \subseteq 1..n
    BY <1>1
  <1>3. /\ Upto(s, m) \in Seq(T) /\ Len(Upto(s, m)) = m
        /\ \A i \in 1..m : Upto(s, m)[i] = s[i]
    BY <1>2, UptoIs
  <1>4. /\ Upto(Upto(s, n), m) \in Seq(T) /\ Len(Upto(Upto(s, n), m)) = m
        /\ \A i \in 1..m : Upto(Upto(s, n), m)[i] = Upto(s, n)[i]
    BY <1>1, <1>2, UptoIs
  <1>5. \A i \in 1..m : Upto(Upto(s, n), m)[i] = Upto(s, m)[i]
    BY <1>1, <1>2, <1>3, <1>4
  <1> QED
    BY <1>3, <1>4, <1>5, SeqEqual

\* What two histories share is a beginning of both, as long as is said.
LEMMA CommonLenIs ==
    ASSUME NEW T, NEW a \in Seq(T), NEW b \in Seq(T)
    PROVE  /\ CommonLen(a, b) \in Nat
           /\ CommonLen(a, b) <= Len(a) /\ CommonLen(a, b) <= Len(b)
           /\ Upto(a, CommonLen(a, b)) = Upto(b, CommonLen(a, b))
           /\ CommonLen(a, b) > 0 => SameStart(a, b)
  <1> DEFINE D == {n \in DOMAIN a \cap DOMAIN b : Upto(a, n) = Upto(b, n)}
  <1>0. /\ Len(a) \in Nat /\ Len(b) \in Nat /\ DOMAIN a = 1..Len(a) /\ DOMAIN b = 1..Len(b)
        /\ CommonLen(a, b) = Cardinality(D)
    BY DEF CommonLen
  <1>1. CASE D = {}
    <2>1. CommonLen(a, b) = 0
      BY <1>0, <1>1, FS_EmptySet
    <2> QED
      BY <1>0, <2>1, UptoNothing
  <1>2. CASE D # {}
    <2>1. D \subseteq 0..Len(a)
      BY <1>0
    <2>2. PICK m \in D : \A y \in D : y <= m
      <3> HIDE DEF D
      <3> QED
        BY <1>0, <1>2, <2>1, HighestOf
    <2>3. m \in 1..Len(a) /\ m \in 1..Len(b) /\ Upto(a, m) = Upto(b, m) /\ m \in Nat
      BY <1>0, <2>2
    <2>4. ASSUME NEW n \in 1..m
          PROVE  n \in D
      <3>1. n \in 0..m /\ m \in 0..Len(a) /\ m \in 0..Len(b)
        BY <2>3
      <3>2. Upto(Upto(a, m), n) = Upto(a, n) /\ Upto(Upto(b, m), n) = Upto(b, n)
        BY <3>1, UptoUpto
      <3>3. n \in DOMAIN a \cap DOMAIN b
        BY <1>0, <2>3
      <3> QED
        BY <2>3, <3>2, <3>3
    <2>5. D = 1..m
      <3>1. \A y \in D : y \in 1..m
        BY <1>0, <2>2, <2>3
      <3> QED
        BY <2>4, <3>1
    <2>6. Cardinality(1..m) = m
      BY <2>3, FS_Interval
    <2>7. CommonLen(a, b) = m
      <3> HIDE DEF D
      <3> QED
        BY <1>0, <2>5, <2>6
    <2>8. SameStart(a, b)
      <3>1. /\ Upto(a, m) # Root /\ Upto(a, m)[1] = a[1]
            /\ Upto(b, m) # Root /\ Upto(b, m)[1] = b[1]
        BY <2>3, UptoIs
      <3>2. a # <<>> /\ b # <<>>
        BY <1>0, <2>3
      <3> QED
        BY <2>3, <3>1, <3>2 DEF SameStart, Root
    <2> QED
      BY <2>3, <2>7, <2>8
  <1> QED
    BY <1>1, <1>2

LEMMA SameStartIs ==
    /\ \A a, b, c : SameStart(a, b) /\ SameStart(b, c) => SameStart(a, c)
    /\ \A a, b : SameStart(a, b) => SameStart(b, a) /\ a # Root /\ b # Root
  BY DEF SameStart

---------------------------------------------------------------------------
(* Walks.                                                                  *)

\* A walk of so many steps, each a function of the one before, exists.
Iterate(h, M, a, g) == \A n \in 0..M : h[n] = IF n = 0 THEN a ELSE g[h[n - 1]]
LEMMA Iterates ==
    ASSUME NEW M \in Nat, NEW X, NEW a \in X, NEW g \in [X -> X]
    PROVE  \E h \in [0..M -> X] : Iterate(h, M, a, g)
  <1> DEFINE Walk(m, h) == \A n \in 0..m : h[n] = IF n = 0 THEN a ELSE g[h[n - 1]]
             Bad == {m \in Nat : ~ \E h \in [0..m -> X] : Walk(m, h)}
  <1>1. SUFFICES ASSUME Bad # {} PROVE FALSE
    <2>1. M \notin Bad
      BY <1>1
    <2> QED
      BY <2>1 DEF Iterate
  <1>2. PICK m \in Bad : \A n \in Bad : m <= n
    <2>1. Bad \subseteq Nat
      OBVIOUS
    <2> HIDE DEF Bad
    <2> QED
      BY <1>1, <2>1, LowestOf
  <1>3. m \in Nat /\ ~ \E h \in [0..m -> X] : Walk(m, h)
    BY <1>2
  <1>4. m # 0
    <2> DEFINE h == [n \in 0..0 |-> a]
    <2>1. h \in [0..0 -> X] /\ Walk(0, h)
      OBVIOUS
    <2> QED
      BY <1>3, <2>1
  <1>5. m - 1 \in Nat /\ m - 1 \notin Bad
    BY <1>2, <1>3, <1>4
  <1>6. PICK h \in [0..(m - 1) -> X] : Walk(m - 1, h)
    BY <1>5
  <1> DEFINE next == [n \in 0..m |-> IF n = m THEN g[h[m - 1]] ELSE h[n]]
  <1>7. h[m - 1] \in X /\ g[h[m - 1]] \in X
    BY <1>5, <1>6
  <1>8. next \in [0..m -> X]
    BY <1>3, <1>5, <1>6, <1>7
  <1>9. ASSUME NEW n \in 0..m
        PROVE  next[n] = IF n = 0 THEN a ELSE g[next[n - 1]]
    <2>1. CASE n = m
      BY <1>3, <1>4, <1>5, <2>1
    <2>2. CASE n # m
      <3>1. n \in 0..(m - 1) /\ (n # 0 => n - 1 \in 0..(m - 1) /\ n - 1 # m)
        BY <1>3, <2>2
      <3>2. next[n] = h[n] /\ (n # 0 => next[n - 1] = h[n - 1])
        BY <1>3, <2>2, <3>1
      <3>3. h[n] = IF n = 0 THEN a ELSE g[h[n - 1]]
        BY <1>6, <3>1
      <3> QED
        BY <3>2, <3>3
    <2> QED
      BY <2>1, <2>2
  <1>10. Walk(m, next)
    BY <1>9
  <1> QED
    BY <1>3, <1>8, <1>10

---------------------------------------------------------------------------
(* Trees of segments.                                                      *)

\* A tree as the index and the disk are: names with something in them, each
\* a segment that starts before it ends.
Tree(tree) ==
    /\ DOMAIN tree \subseteq Seq(Nat) \ {Root}
    /\ \A f \in DOMAIN tree : tree[f].start \in Nat /\ tree[f].start < Len(f)

\* The way up from a segment, step by step.
LEMMA UpIs ==
    ASSUME NEW tree, Tree(tree), NEW f \in Seq(Nat)
    PROVE  /\ Up(tree, f) \in [0..MaxDepth -> Seq(Nat)]
           /\ \A n \in 0..MaxDepth :
                 Up(tree, f)[n] =
                    IF n = 0 THEN f
                    ELSE IF Up(tree, f)[n - 1] \in DOMAIN tree
                         THEN ParentOf(tree, Up(tree, f)[n - 1]) ELSE Root
  <1> DEFINE X == Seq(Nat)
             g == [x \in X |-> IF x \in DOMAIN tree THEN ParentOf(tree, x) ELSE Root]
             Def(h) == [n \in 0..MaxDepth |->
                           IF n = 0 THEN f
                           ELSE LET below == h[n - 1]
                                IN  IF below \in DOMAIN tree THEN ParentOf(tree, below) ELSE Root]
  <1>1. \A x \in DOMAIN tree : ParentOf(tree, x) \in X
    BY UptoIs DEF ParentOf, Tree
  <1>2. Root \in X
    BY EmptySeq DEF Root
  <1>3. g \in [X -> X]
    BY <1>1, <1>2
  <1>4. MaxDepth \in Nat
    BY TreeConstantsOK DEF TreeConstantsOK
  <1>5. PICK h \in [0..MaxDepth -> X] : Iterate(h, MaxDepth, f, g)
    <2> HIDE DEF g, X
    <2>1. f \in X
      BY DEF X
    <2> QED
      BY <1>3, <1>4, <2>1, Iterates
  <1>6. h = Def(h)
    <2>1. ASSUME NEW n \in 0..MaxDepth
          PROVE  h[n] = IF n = 0 THEN f
                        ELSE LET below == h[n - 1]
                             IN  IF below \in DOMAIN tree THEN ParentOf(tree, below) ELSE Root
      <3>1. CASE n = 0
        BY <1>5, <3>1 DEF Iterate
      <3>2. CASE n # 0
        <4>1. n - 1 \in 0..MaxDepth
          BY <1>4, <3>2
        <4>2. h[n - 1] \in X
          BY <1>5, <4>1
        <4> QED
          BY <1>5, <3>2, <4>2 DEF Iterate
      <3> QED
        BY <3>1, <3>2
    <2> QED
      BY <1>5, <2>1
  <1>7. Up(tree, f) = CHOOSE u : u = Def(u)
    BY DEF Up
  <1>8. Up(tree, f) = Def(Up(tree, f))
    <2> HIDE DEF Def
    <2> QED
      BY <1>6, <1>7
  <1> DEFINE u == Up(tree, f)
  <1>9. /\ DOMAIN u = 0..MaxDepth
        /\ \A n \in 0..MaxDepth : u[n] = IF n = 0 THEN f
                ELSE IF u[n - 1] \in DOMAIN tree THEN ParentOf(tree, u[n - 1]) ELSE Root
    <2> HIDE DEF u
    <2>1. u = Def(u)
      BY <1>8 DEF u
    <2> QED
      BY <2>1
  <1>10. \A n \in 0..MaxDepth : u[n] \in X
    <2> TAKE n \in 0..MaxDepth
    <2> HIDE DEF u, X
    <2>1. CASE n = 0
      BY <1>9, <2>1 DEF X
    <2>2. CASE n # 0
      BY <1>1, <1>2, <1>9, <2>2
    <2> QED
      BY <2>1, <2>2
  <1>11. u = [n \in 0..MaxDepth |-> u[n]]
    <2>1. u = Def(u)
      BY <1>8
    <2>2. DOMAIN Def(u) = 0..MaxDepth /\ Def(u) = [n \in 0..MaxDepth |-> Def(u)[n]]
      OBVIOUS
    <2> HIDE DEF u, Def
    <2> QED
      BY <2>1, <2>2
  <1>12. u \in [0..MaxDepth -> X]
    <2> HIDE DEF u
    <2> QED
      BY <1>10, <1>11
  <1> QED
    BY <1>9, <1>12

LEMMA UpStarts ==
    ASSUME NEW tree, Tree(tree), NEW f \in Seq(Nat)
    PROVE  /\ Up(tree, f)[0] = f
           /\ f \in DOMAIN tree => Up(tree, f)[1] = ParentOf(tree, f)
           /\ f \notin DOMAIN tree => Up(tree, f)[1] = Root
  <1>1. 0 \in 0..MaxDepth /\ 1 \in 0..MaxDepth /\ 1 - 1 = 0 /\ 1 # 0
    BY TreeConstantsOK DEF TreeConstantsOK
  <1>2. Up(tree, f)[0] = f
    BY <1>1, UpIs
  <1>3. Up(tree, f)[1] = IF Up(tree, f)[1 - 1] \in DOMAIN tree
                         THEN ParentOf(tree, Up(tree, f)[1 - 1]) ELSE Root
    BY <1>1, UpIs
  <1>4. Up(tree, f)[1 - 1] = f
    BY <1>1, <1>2
  <1> QED
    BY <1>2, <1>3, <1>4

\* A way that has ended stays ended.
LEMMA EndedStays ==
    ASSUME NEW tree, Tree(tree), NEW f \in Seq(Nat), NEW n \in 0..MaxDepth, n > 0,
           Up(tree, f)[n - 1] \notin DOMAIN tree
    PROVE  Up(tree, f)[n] = Root
  BY UpIs

\* The way from a parent is the rest of the way from its child.
LEMMA UpFromParent ==
    ASSUME NEW tree, Tree(tree), NEW f \in DOMAIN tree
    PROVE  \A n \in 0..MaxDepth - 1 : Up(tree, ParentOf(tree, f))[n] = Up(tree, f)[n + 1]
  <1> DEFINE p == ParentOf(tree, f)
             Bad == {n \in 0..MaxDepth - 1 : Up(tree, p)[n] # Up(tree, f)[n + 1]}
  <1>1. f \in Seq(Nat) /\ p \in Seq(Nat) /\ MaxDepth \in Nat \ {0}
    BY UptoIs, TreeConstantsOK DEF ParentOf, Tree, TreeConstantsOK
  <1>2. SUFFICES ASSUME Bad # {} PROVE FALSE
    OBVIOUS
  <1>3. PICK n \in Bad : \A m \in Bad : n <= m
    <2>1. Bad \subseteq Nat
      BY <1>1
    <2> HIDE DEF Bad
    <2> QED
      BY <1>2, <2>1, LowestOf
  <1>4. n \in 0..MaxDepth - 1 /\ n \in 0..MaxDepth /\ n + 1 \in 0..MaxDepth /\ (n + 1) - 1 = n
        /\ n + 1 # 0 /\ Up(tree, p)[n] # Up(tree, f)[n + 1]
    BY <1>1, <1>3
  <1>5. CASE n = 0
    <2>1. Up(tree, f)[0] = f /\ Up(tree, f)[1] = p /\ Up(tree, p)[0] = p
      BY <1>1, UpStarts
    <2> HIDE DEF p, Bad
    <2> QED
      BY <1>4, <1>5, <2>1
  <1>6. CASE n # 0
    <2>1. n - 1 \in 0..MaxDepth - 1 /\ n - 1 \notin Bad /\ (n - 1) + 1 = n
      <3>1. n - 1 \in 0..MaxDepth - 1 /\ ~(n <= n - 1)
        BY <1>1, <1>4, <1>6
      <3> QED
        BY <1>3, <1>4, <3>1
    <2>2. Up(tree, p)[n - 1] = Up(tree, f)[n]
      BY <2>1
    <2>3. Up(tree, p)[n] = IF Up(tree, p)[n - 1] \in DOMAIN tree
                           THEN ParentOf(tree, Up(tree, p)[n - 1]) ELSE Root
      <3> HIDE DEF p, Bad
      <3> QED
        BY <1>1, <1>4, <1>6, UpIs
    <2>4. Up(tree, f)[n + 1] = IF Up(tree, f)[n] \in DOMAIN tree
                               THEN ParentOf(tree, Up(tree, f)[n]) ELSE Root
      BY <1>1, <1>4, UpIs
    <2> HIDE DEF p, Bad
    <2> QED
      BY <1>4, <2>2, <2>3, <2>4
  <1> QED
    BY <1>5, <1>6

\* What a scan links up is linked up to something it links up.
LEMMA ParentIsComplete ==
    ASSUME NEW tree, Tree(tree), NEW f \in DOMAIN tree, Complete(tree, f)
    PROVE  \/ ParentOf(tree, f) = Root
           \/ ParentOf(tree, f) \in DOMAIN tree /\ Complete(tree, ParentOf(tree, f))
  <1> DEFINE p == ParentOf(tree, f)
  <1>1. f \in Seq(Nat) /\ p \in Seq(Nat) /\ MaxDepth \in Nat \ {0}
    BY UptoIs, TreeConstantsOK DEF ParentOf, Tree, TreeConstantsOK
  <1>2. \A n \in 0..MaxDepth - 1 : Up(tree, p)[n] = Up(tree, f)[n + 1]
    BY UpFromParent
  <1> HIDE DEF p
  <1>3. SUFFICES ASSUME p # Root PROVE p \in DOMAIN tree /\ Complete(tree, p)
    BY DEF p
  <1>4. Up(tree, f)[MaxDepth] = Root /\ \A n \in 0..MaxDepth :
            Up(tree, f)[n] \in DOMAIN tree \cup {Root}
    BY DEF Complete, Chain
  <1>5. Up(tree, p)[MaxDepth - 1] = Root
    <2>1. MaxDepth - 1 \in 0..MaxDepth - 1 /\ (MaxDepth - 1) + 1 = MaxDepth
      BY <1>1
    <2> QED
      BY <1>2, <1>4, <2>1
  <1>6. Root \notin DOMAIN tree
    BY DEF Tree
  <1>7. Up(tree, p)[MaxDepth] = Root
    BY <1>1, <1>5, <1>6, EndedStays
  <1>8. \A n \in 0..MaxDepth : Up(tree, p)[n] \in DOMAIN tree \cup {Root}
    <2> TAKE n \in 0..MaxDepth
    <2>1. CASE n = MaxDepth
      BY <1>7, <2>1
    <2>2. CASE n # MaxDepth
      <3>1. n \in 0..MaxDepth - 1 /\ n + 1 \in 0..MaxDepth
        BY <1>1, <2>2
      <3> QED
        BY <1>2, <1>4, <3>1
    <2> QED
      BY <2>1, <2>2
  <1>9. p \in DOMAIN tree
    <2>1. Up(tree, p)[0] = p /\ 0 \in 0..MaxDepth
      BY <1>1, UpStarts
    <2> QED
      BY <1>3, <1>8, <2>1
  <1> QED
    BY <1>7, <1>8, <1>9 DEF Complete, Chain

\* What waits behind a file waits behind it through everything in between.
LEMMA ParentWaitsToo ==
    ASSUME NEW tree, Tree(tree), NEW f \in DOMAIN tree, NEW faulty,
           faulty \cap DOMAIN tree = {}, Chain(tree, f) \cap faulty # {}
    PROVE  \/ ParentOf(tree, f) \in faulty \cup {Root}
           \/ ParentOf(tree, f) \in DOMAIN tree /\ Chain(tree, ParentOf(tree, f)) \cap faulty # {}
  <1> DEFINE p == ParentOf(tree, f)
  <1>1. f \in Seq(Nat) /\ p \in Seq(Nat) /\ MaxDepth \in Nat \ {0}
    BY UptoIs, TreeConstantsOK DEF ParentOf, Tree, TreeConstantsOK
  <1>2. \A n \in 0..MaxDepth - 1 : Up(tree, p)[n] = Up(tree, f)[n + 1]
    BY UpFromParent
  <1> HIDE DEF p
  <1>3. PICK n \in 0..MaxDepth : Up(tree, f)[n] \in faulty /\ Up(tree, f)[n] # Root
    BY DEF Chain
  <1>4. n # 0
    BY <1>1, <1>3, UpStarts
  <1>5. n - 1 \in 0..MaxDepth - 1 /\ n - 1 \in 0..MaxDepth /\ (n - 1) + 1 = n
    BY <1>1, <1>4
  <1>6. Up(tree, p)[n - 1] = Up(tree, f)[n]
    BY <1>2, <1>5
  <1>7. Up(tree, f)[n] \in Chain(tree, p)
    BY <1>3, <1>5, <1>6 DEF Chain
  <1>8. CASE p \in DOMAIN tree
    BY <1>3, <1>7, <1>8 DEF p
  <1>9. CASE p \notin DOMAIN tree
    <2>1. CASE n = 1
      <3>1. Up(tree, p)[0] = p
        BY <1>1, UpStarts
      <3> QED
        BY <1>3, <1>6, <2>1, <3>1 DEF p
    <2>2. CASE n # 1
      <3> DEFINE Off == {m \in 0..MaxDepth : m > 0 /\ Up(tree, p)[m] # Root}
      <3>1. Off = {}
        <4>1. SUFFICES ASSUME Off # {} PROVE FALSE
          OBVIOUS
        <4>2. PICK m \in Off : \A k \in Off : m <= k
          <5>1. Off \subseteq Nat
            OBVIOUS
          <5> HIDE DEF Off
          <5> QED
            BY <4>1, <5>1, LowestOf
        <4>3. m \in 0..MaxDepth /\ m > 0 /\ Up(tree, p)[m] # Root /\ m - 1 \in 0..MaxDepth
          BY <1>1, <4>2
        <4>4. Up(tree, p)[m - 1] \in {p, Root}
          <5>1. CASE m = 1
            BY <1>1, <5>1, UpStarts
          <5>2. CASE m # 1
            <6>1. m - 1 > 0 /\ ~(m <= m - 1) /\ m - 1 \notin Off
              BY <4>2, <4>3, <5>2
            <6> QED
              BY <4>3, <6>1
          <5> QED
            BY <5>1, <5>2
        <4>5. Up(tree, p)[m - 1] \notin DOMAIN tree
          BY <1>9, <4>4 DEF Tree
        <4> QED
          BY <1>1, <4>3, <4>5, EndedStays
      <3>2. n - 1 > 0 /\ n - 1 \notin Off
        BY <1>4, <1>5, <2>2, <3>1
      <3> QED
        BY <1>3, <1>5, <1>6, <3>2
    <2> QED
      BY <2>1, <2>2
  <1> QED
    BY <1>8, <1>9

---------------------------------------------------------------------------
(* How deep a tree is.                                                     *)

LEMMA ParentIsShorter ==
    ASSUME NEW tree, Tree(tree), NEW f \in DOMAIN tree
    PROVE  /\ ParentOf(tree, f) \in Seq(Nat) /\ Len(ParentOf(tree, f)) = tree[f].start
           /\ Len(ParentOf(tree, f)) < Len(f)
           /\ f \in Seq(Nat) /\ Len(f) \in Nat /\ tree[f].start \in Nat
  <1>1. f \in Seq(Nat) /\ tree[f].start \in 0..Len(f) /\ tree[f].start < Len(f) /\ tree[f].start \in Nat
    BY DEF Tree
  <1> QED
    BY <1>1, UptoIs DEF ParentOf

\* A way that has ended stays ended.
LEMMA EndedForGood ==
    ASSUME NEW tree, Tree(tree), NEW f \in Seq(Nat), NEW n \in 0..MaxDepth, NEW m \in n..MaxDepth,
           Up(tree, f)[n] = Root
    PROVE  Up(tree, f)[m] = Root
  <1> DEFINE Bad == {k \in n..MaxDepth : Up(tree, f)[k] # Root}
  <1>1. SUFFICES ASSUME Bad # {} PROVE FALSE
    OBVIOUS
  <1>2. MaxDepth \in Nat /\ Root \notin DOMAIN tree
    BY TreeConstantsOK DEF TreeConstantsOK, Tree
  <1>3. PICK k \in Bad : \A j \in Bad : k <= j
    <2>1. Bad \subseteq Nat
      BY <1>2
    <2> HIDE DEF Bad
    <2> QED
      BY <1>1, <2>1, LowestOf
  <1>4. k \in n..MaxDepth /\ k # n /\ Up(tree, f)[k] # Root
    BY <1>3
  <1>5. k \in 0..MaxDepth /\ k > 0 /\ k - 1 \in n..MaxDepth /\ ~(k <= k - 1)
    BY <1>2, <1>4
  <1>6. Up(tree, f)[k - 1] = Root
    BY <1>3, <1>5
  <1> QED
    BY <1>2, <1>4, <1>5, <1>6, EndedStays

\* Two trees that have the same at every name of a way have the same way.
SameThere(a, b, x) ==
    /\ x \in DOMAIN a <=> x \in DOMAIN b
    /\ x \in DOMAIN a => a[x].start = b[x].start
SameBefore(a, b, f, k) == \A n \in 0..MaxDepth : n < k => SameThere(a, b, Up(a, f)[n])
SameUpTo(a, b, f, k) == \A n \in 0..k : Up(b, f)[n] = Up(a, f)[n]
LEMMA UpSame ==
    ASSUME NEW a, Tree(a), NEW b, Tree(b), NEW f \in Seq(Nat), NEW k \in 0..MaxDepth,
           SameBefore(a, b, f, k)
    PROVE  SameUpTo(a, b, f, k)
  <1> DEFINE Bad == {n \in 0..k : Up(b, f)[n] # Up(a, f)[n]}
  <1>1. SUFFICES ASSUME Bad # {} PROVE FALSE
    BY DEF SameUpTo
  <1>2. MaxDepth \in Nat
    BY TreeConstantsOK DEF TreeConstantsOK
  <1>3. PICK n \in Bad : \A j \in Bad : n <= j
    <2>1. Bad \subseteq Nat
      BY <1>2
    <2> HIDE DEF Bad
    <2> QED
      BY <1>1, <2>1, LowestOf
  <1>4. n \in 0..k /\ n \in 0..MaxDepth /\ Up(b, f)[n] # Up(a, f)[n]
    BY <1>2, <1>3
  <1>5. n # 0
    BY <1>4, UpStarts
  <1>6. n - 1 \in 0..k /\ n - 1 \in 0..MaxDepth /\ n - 1 < k /\ ~(n <= n - 1)
    BY <1>2, <1>4, <1>5
  <1>7. Up(b, f)[n - 1] = Up(a, f)[n - 1]
    BY <1>3, <1>6
  <1> DEFINE x == Up(a, f)[n - 1]
  <1>8. SameThere(a, b, x)
    BY <1>6 DEF SameBefore
  <1>9. /\ Up(a, f)[n] = IF x \in DOMAIN a THEN ParentOf(a, x) ELSE Root
        /\ Up(b, f)[n] = IF Up(b, f)[n - 1] \in DOMAIN b
                         THEN ParentOf(b, Up(b, f)[n - 1]) ELSE Root
    BY <1>4, <1>5, UpIs
  <1> HIDE DEF x
  <1>10. Up(b, f)[n - 1] = x
    BY <1>7 DEF x
  <1> QED
    BY <1>4, <1>8, <1>9, <1>10 DEF SameThere, ParentOf

\* Names get shorter on the way.
LEMMA UpShrinks ==
    ASSUME NEW tree, Tree(tree), NEW f \in Seq(Nat), NEW n \in 0..MaxDepth
    PROVE  \A m \in n..MaxDepth : Len(Up(tree, f)[m]) <= Len(Up(tree, f)[n])
  <1> DEFINE u == Up(tree, f)
             Bad == {m \in n..MaxDepth : ~(Len(u[m]) <= Len(u[n]))}
  <1>1. SUFFICES ASSUME Bad # {} PROVE FALSE
    OBVIOUS
  <1>2. MaxDepth \in Nat /\ \A m \in 0..MaxDepth : u[m] \in Seq(Nat) /\ Len(u[m]) \in Nat
    <2>1. u \in [0..MaxDepth -> Seq(Nat)]
      BY UpIs
    <2> HIDE DEF u
    <2> QED
      BY <2>1, TreeConstantsOK DEF TreeConstantsOK
  <1>3. PICK m \in Bad : \A j \in Bad : m <= j
    <2>1. Bad \subseteq Nat
      BY <1>2
    <2> HIDE DEF Bad
    <2> QED
      BY <1>1, <2>1, LowestOf
  <1>4. m \in n..MaxDepth /\ m \in 0..MaxDepth /\ ~(Len(u[m]) <= Len(u[n]))
    BY <1>2, <1>3
  <1>5. m # n
    BY <1>2, <1>4
  <1>6. m - 1 \in n..MaxDepth /\ m - 1 \in 0..MaxDepth /\ m # 0 /\ ~(m <= m - 1)
    BY <1>2, <1>4, <1>5
  <1>7. Len(u[m - 1]) <= Len(u[n])
    BY <1>3, <1>6
  <1>8. u[m] = IF u[m - 1] \in DOMAIN tree THEN ParentOf(tree, u[m - 1]) ELSE Root
    BY <1>4, <1>6, UpIs
  <1> HIDE DEF u
  <1>9. Len(u[m]) <= Len(u[m - 1])
    <2>1. CASE u[m - 1] \in DOMAIN tree
      BY <1>8, <2>1, ParentIsShorter
    <2>2. CASE u[m - 1] \notin DOMAIN tree
      <3>1. Len(u[m]) = 0
        BY <1>8, <2>2 DEF Root
      <3> QED
        BY <1>2, <1>6, <3>1
    <2> QED
      BY <2>1, <2>2
  <1> QED
    BY <1>2, <1>4, <1>6, <1>7, <1>9

\* How much may be chained behind a segment, or a history: everything on the
\* way up from it is there, and the way leaves room for k segments more.
RoomBehind(tree, f, k) ==
    /\ k <= MaxDepth /\ Up(tree, f)[MaxDepth - k] = Root
    /\ Chain(tree, f) \subseteq DOMAIN tree

LEMMA RoomIs ==
    ASSUME NEW tree, Tree(tree), NEW f \in Seq(Nat), NEW k \in 0..MaxDepth
    PROVE  RoomBehind(tree, f, k) <=>
              /\ \A n \in (MaxDepth - k)..MaxDepth : Up(tree, f)[n] = Root
              /\ \A n \in 0..MaxDepth : Up(tree, f)[n] \in DOMAIN tree \cup {Root}
  <1>1. MaxDepth - k \in 0..MaxDepth /\ MaxDepth - k \in (MaxDepth - k)..MaxDepth
    BY TreeConstantsOK DEF TreeConstantsOK
  <1>2. RoomBehind(tree, f, k) => \A n \in (MaxDepth - k)..MaxDepth : Up(tree, f)[n] = Root
    BY <1>1, EndedForGood DEF RoomBehind
  <1>3. Chain(tree, f) \subseteq DOMAIN tree <=>
            \A n \in 0..MaxDepth : Up(tree, f)[n] \in DOMAIN tree \cup {Root}
    BY DEF Chain
  <1> QED
    BY <1>1, <1>2, <1>3 DEF RoomBehind

LEMMA CompleteIs ==
    ASSUME NEW tree, NEW f
    PROVE  Complete(tree, f) <=> RoomBehind(tree, f, 0)
  BY TreeConstantsOK DEF TreeConstantsOK, Complete, RoomBehind

LEMMA RoomForLess ==
    ASSUME NEW tree, Tree(tree), NEW f \in Seq(Nat), NEW k \in 0..MaxDepth, NEW j \in 0..k,
           RoomBehind(tree, f, k)
    PROVE  RoomBehind(tree, f, j)
  <1>1. j \in 0..MaxDepth /\ (MaxDepth - j)..MaxDepth \subseteq (MaxDepth - k)..MaxDepth
    BY TreeConstantsOK DEF TreeConstantsOK
  <1> QED
    BY <1>1, RoomIs

LEMMA RoomAtRoot ==
    ASSUME NEW tree, Tree(tree), NEW k \in 0..MaxDepth
    PROVE  RoomBehind(tree, Root, k)
  <1>1. Root \in Seq(Nat) /\ Root \notin DOMAIN tree
    BY EmptySeq DEF Root, Tree
  <1>2. 0 \in 0..MaxDepth /\ MaxDepth \in Nat /\ (MaxDepth - k)..MaxDepth \subseteq 0..MaxDepth
    BY TreeConstantsOK DEF TreeConstantsOK
  <1>3. \A n \in 0..MaxDepth : Up(tree, Root)[n] = Root
    BY <1>1, <1>2, UpStarts, EndedForGood
  <1> QED
    BY <1>1, <1>2, <1>3, RoomIs

LEMMA RoomForChild ==
    ASSUME NEW tree, Tree(tree), NEW f \in DOMAIN tree, NEW k \in 0..MaxDepth - 1
    PROVE  RoomBehind(tree, f, k) <=> RoomBehind(tree, ParentOf(tree, f), k + 1)
  <1> DEFINE p == ParentOf(tree, f)
  <1>1. f \in Seq(Nat) /\ p \in Seq(Nat) /\ MaxDepth \in Nat \ {0}
    BY UptoIs, TreeConstantsOK DEF ParentOf, Tree, TreeConstantsOK
  <1>2. \A n \in 0..MaxDepth - 1 : Up(tree, p)[n] = Up(tree, f)[n + 1]
    BY UpFromParent
  <1>3. k \in 0..MaxDepth /\ k + 1 \in 0..MaxDepth /\ k + 1 > 0
    BY <1>1
  <1> HIDE DEF p
  <1>4. ASSUME RoomBehind(tree, f, k)
        PROVE  RoomBehind(tree, p, k + 1)
    <2>1. Up(tree, p)[MaxDepth - (k + 1)] = Root
      <3>1. /\ MaxDepth - (k + 1) \in 0..MaxDepth - 1 /\ (MaxDepth - (k + 1)) + 1 = MaxDepth - k
            /\ MaxDepth - k \in (MaxDepth - k)..MaxDepth
        BY <1>1
      <3>2. Up(tree, f)[MaxDepth - k] = Root
        BY <1>4 DEF RoomBehind
      <3> QED
        BY <1>2, <3>1, <3>2
    <2>2. \A n \in 0..MaxDepth : Up(tree, p)[n] \in DOMAIN tree \cup {Root}
      <3> TAKE n \in 0..MaxDepth
      <3>1. CASE n = MaxDepth
        <4>1. MaxDepth - (k + 1) \in 0..MaxDepth /\ MaxDepth \in (MaxDepth - (k + 1))..MaxDepth
          BY <1>1
        <4> QED
          BY <1>1, <2>1, <3>1, <4>1, EndedForGood
      <3>2. CASE n # MaxDepth
        <4>1. n \in 0..MaxDepth - 1 /\ n + 1 \in 0..MaxDepth
          BY <1>1, <3>2
        <4>2. Up(tree, f)[n + 1] \in DOMAIN tree \cup {Root}
          BY <1>1, <1>3, <1>4, <4>1, RoomIs
        <4> QED
          BY <1>2, <4>1, <4>2
      <3> QED
        BY <3>1, <3>2
    <2> QED
      BY <1>3, <2>1, <2>2 DEF RoomBehind, Chain
  <1>5. ASSUME RoomBehind(tree, p, k + 1)
        PROVE  RoomBehind(tree, f, k)
    <2>1. Up(tree, f)[MaxDepth - k] = Root
      <3>1. MaxDepth - (k + 1) \in 0..MaxDepth - 1 /\ (MaxDepth - (k + 1)) + 1 = MaxDepth - k
        BY <1>1
      <3>2. Up(tree, p)[MaxDepth - (k + 1)] = Root
        BY <1>5 DEF RoomBehind
      <3> QED
        BY <1>2, <3>1, <3>2
    <2>2. \A n \in 0..MaxDepth : Up(tree, f)[n] \in DOMAIN tree \cup {Root}
      <3> TAKE n \in 0..MaxDepth
      <3>1. CASE n = 0
        BY <1>1, <3>1, UpStarts
      <3>2. CASE n # 0
        <4>1. n - 1 \in 0..MaxDepth - 1 /\ n - 1 \in 0..MaxDepth /\ (n - 1) + 1 = n
          BY <1>1, <3>2
        <4>2. Up(tree, p)[n - 1] \in DOMAIN tree \cup {Root}
          BY <1>1, <1>3, <1>5, <4>1, RoomIs
        <4> QED
          BY <1>2, <4>1, <4>2
      <3> QED
        BY <3>1, <3>2
    <2> QED
      BY <1>3, <2>1, <2>2 DEF RoomBehind, Chain
  <1> QED
    BY <1>4, <1>5 DEF p

\* What is added or changed behind a history takes no room in front of it.
LEMMA RoomStays ==
    ASSUME NEW a, Tree(a), NEW b, Tree(b), NEW f \in Seq(Nat), NEW k \in 0..MaxDepth,
           RoomBehind(a, f, k),
           \A x \in DOMAIN a : Len(x) <= Len(f) => x \in DOMAIN b /\ b[x].start = a[x].start
    PROVE  RoomBehind(b, f, k) /\ \A n \in 0..MaxDepth : Up(b, f)[n] = Up(a, f)[n]
  <1>1. MaxDepth \in Nat /\ MaxDepth \in 0..MaxDepth /\ 0 \in 0..MaxDepth
    BY TreeConstantsOK DEF TreeConstantsOK
  <1>2. Root \notin DOMAIN a /\ Root \notin DOMAIN b
    BY DEF Tree
  <1>3. \A n \in 0..MaxDepth : Up(a, f)[n] \in DOMAIN a \cup {Root}
    BY RoomIs
  <1>4. \A n \in 0..MaxDepth : Len(Up(a, f)[n]) <= Len(f)
    <2>1. Up(a, f)[0] = f
      BY UpStarts
    <2>2. \A m \in 0..MaxDepth : Len(Up(a, f)[m]) <= Len(Up(a, f)[0])
      BY <1>1, UpShrinks
    <2> QED
      BY <2>1, <2>2
  <1>5. \A n \in 0..MaxDepth : Up(a, f)[n] \in DOMAIN a =>
            Up(a, f)[n] \in DOMAIN b /\ b[Up(a, f)[n]].start = a[Up(a, f)[n]].start
    BY <1>4
  <1>6. \A n \in 0..MaxDepth : SameThere(a, b, Up(a, f)[n])
    BY <1>2, <1>3, <1>5 DEF SameThere
  <1>7. \A n \in 0..MaxDepth : Up(b, f)[n] = Up(a, f)[n]
    <2>1. SameBefore(a, b, f, MaxDepth)
      BY <1>6 DEF SameBefore
    <2>2. MaxDepth \in 0..MaxDepth
      BY <1>1
    <2>3. SameUpTo(a, b, f, MaxDepth)
      BY <2>1, <2>2, UpSame
    <2> QED
      BY <2>3 DEF SameUpTo
  <1>8. \A n \in 0..MaxDepth : Up(b, f)[n] \in DOMAIN b \cup {Root}
    BY <1>3, <1>5, <1>7
  <1>9. \A n \in (MaxDepth - k)..MaxDepth : n \in 0..MaxDepth
    BY <1>1
  <1> QED
    BY <1>7, <1>8, <1>9, RoomIs

---------------------------------------------------------------------------
(* Where a history lies in a tree.                                         *)

LEMMA DeeperIs ==
    ASSUME NEW snaps, NEW pos \in Nat, NEW sofar \in Nat, snaps \subseteq Nat
    PROVE  Deeper(snaps, pos, sofar) \in {s \in snaps : s <= pos} \cup {sofar}
  <1> DEFINE S == {s \in snaps : s <= pos} \cup {sofar}
  <1>1. S \subseteq 0..(pos + sofar) /\ S # {} /\ pos + sofar \in Nat
    <2>1. \A s \in S : s \in 0..(pos + sofar)
      OBVIOUS
    <2>2. sofar \in S /\ pos + sofar \in Nat
      OBVIOUS
    <2> HIDE DEF S
    <2> QED
      BY <2>1, <2>2
  <1>2. Max(S) \in S
    <2> HIDE DEF S
    <2> QED
      BY <1>1, MaxIs
  <1> QED
    BY <1>2 DEF Deeper

\* Whatever a hash prefers, it is one of the names there are.
LEMMA PreferredIsOne ==
    ASSUME NEW names, names \subseteq Seq(Nat), IsFiniteSet(names), names # {},
           NEW longer \in BOOLEAN
    PROVE  Preferred(names, longer) \in names
  <1> DEFINE Bad == {k \in Nat : \E S \in SUBSET names : S # {} /\ Cardinality(S) = k /\ IsFiniteSet(S)
                        /\ ~ \E f \in S : \A g \in S : Len(g) <= Len(f)}
  <1>1. Bad = {}
    <2>1. SUFFICES ASSUME Bad # {} PROVE FALSE
      OBVIOUS
    <2>2. PICK k \in Bad : \A n \in Bad : k <= n
      <3>1. Bad \subseteq Nat
        OBVIOUS
      <3> HIDE DEF Bad
      <3> QED
        BY <2>1, <3>1, LowestOf
    <2>3. PICK S \in SUBSET names : /\ S # {} /\ Cardinality(S) = k /\ IsFiniteSet(S)
                                    /\ ~ \E f \in S : \A g \in S : Len(g) <= Len(f)
      BY <2>2
    <2>4. PICK x : x \in S
      BY <2>3
    <2> DEFINE R == S \ {x}
    <2>5. IsFiniteSet(R) /\ Cardinality(R) = k - 1 /\ k \in Nat /\ R \in SUBSET names
      BY <2>2, <2>3, <2>4, FS_RemoveElement
    <2>6. Cardinality(R) \in Nat
      BY <2>5, FS_CardinalityType
    <2>7. \A f \in S : Len(f) \in Nat
      BY <2>3
    <2>8. CASE R = {}
      <3>1. S = {x}
        BY <2>4, <2>8
      <3> QED
        BY <2>3, <2>7, <3>1
    <2>9. CASE R # {}
      <3>1. k - 1 \notin Bad /\ k - 1 \in Nat
        <4>1. k - 1 \in Nat /\ ~(k <= k - 1)
          BY <2>5, <2>6
        <4> HIDE DEF Bad, R
        <4> QED
          BY <2>2, <4>1
      <3>2. PICK f \in R : \A g \in R : Len(g) <= Len(f)
        <4> HIDE DEF R
        <4> QED
          BY <2>5, <2>9, <3>1
      <3>3. f \in S /\ x \in S /\ \A g \in S : g \in R \/ g = x
        BY <2>4, <3>2
      <3>4. CASE Len(x) <= Len(f)
        BY <2>3, <3>2, <3>3, <3>4
      <3>5. CASE ~(Len(x) <= Len(f))
        <4>1. \A g \in S : Len(g) <= Len(x)
          <5> TAKE g \in S
          <5>1. Len(g) \in Nat /\ Len(x) \in Nat /\ Len(f) \in Nat
            BY <2>7, <3>3
          <5>2. g = x \/ Len(g) <= Len(f)
            BY <3>2, <3>3
          <5>3. CASE g = x
            BY <5>1, <5>3
          <5>4. CASE Len(g) <= Len(f)
            BY <3>5, <5>1, <5>4
          <5> QED
            BY <5>2, <5>3, <5>4
        <4> QED
          BY <2>3, <2>4, <4>1
      <3> QED
        BY <3>4, <3>5
    <2> QED
      BY <2>8, <2>9
  <1>2. \E f \in names : \A g \in names : Len(g) <= Len(f)
    <2>1. Cardinality(names) \in Nat /\ Cardinality(names) \notin Bad
      BY <1>1, FS_CardinalityType
    <2> QED
      BY <2>1
  <1>3. \E f \in names : \A g \in names : Len(f) <= Len(g)
    <2> DEFINE Lens == {Len(f) : f \in names}
    <2>1. Lens \subseteq Nat /\ Lens # {}
      <3>1. \A f \in names : Len(f) \in Nat
        OBVIOUS
      <3> QED
        BY <3>1
    <2>2. PICK x \in Lens : \A y \in Lens : x <= y
      <3> HIDE DEF Lens
      <3> QED
        BY <2>1, LowestOf
    <2> QED
      BY <2>2
  <1>4. CASE longer
    BY <1>2, <1>4 DEF Preferred
  <1>5. CASE ~longer
    BY <1>3, <1>5 DEF Preferred
  <1> QED
    BY <1>4, <1>5

\* The child that is followed is one, and shares more than is covered.
LEMMA BestChildIs ==
    ASSUME NEW tree, Tree(tree), IsFiniteSet(DOMAIN tree), NEW h \in Seq(Nat),
           NEW boundary \in Nat, NEW longer \in BOOLEAN,
           BestChild(tree, h, boundary, longer) # Root
    PROVE  /\ BestChild(tree, h, boundary, longer) \in DOMAIN tree
           /\ ParentOf(tree, BestChild(tree, h, boundary, longer)) = Upto(h, boundary)
           /\ CommonLen(BestChild(tree, h, boundary, longer), h) > boundary
  <1> DEFINE ready  == {f \in Children(tree, Upto(h, boundary)) \cap Ready(tree) :
                            CommonLen(f, h) > boundary}
             shared == {CommonLen(f, h) : f \in ready}
             best == {f \in ready : CommonLen(f, h) = Max(shared)}
  <1>1. ready # {} /\ BestChild(tree, h, boundary, longer) = Preferred(best, longer)
    BY DEF BestChild
  <1>2. ready \subseteq DOMAIN tree /\ DOMAIN tree \subseteq Seq(Nat)
    BY DEF Children, Tree
  <1>3. shared \subseteq 0..Len(h) /\ Len(h) \in Nat /\ shared # {}
    <2>1. \A f \in ready : CommonLen(f, h) \in 0..Len(h)
      BY <1>2, CommonLenIs
    <2> QED
      BY <1>1, <2>1
  <1>4. Max(shared) \in shared
    <2> HIDE DEF shared
    <2> QED
      BY <1>3, MaxIs
  <1>5. best # {} /\ best \subseteq ready
    BY <1>4
  <1>6. best \subseteq Seq(Nat) /\ IsFiniteSet(best)
    BY <1>2, <1>5, FS_Subset
  <1>7. Preferred(best, longer) \in best
    <2> HIDE DEF best
    <2> QED
      BY <1>5, <1>6, PreferredIsOne
  <1>8. BestChild(tree, h, boundary, longer) \in ready
    BY <1>1, <1>5, <1>7
  <1> QED
    BY <1>8 DEF Children

\* How far a walk down the tree has come, whatever has become of it: the
\* segments that cover the history end where it is covered up to, and leave the
\* room their number says; the one it leaves in the middle is chained onto the
\* last of them, and left after something they share.
Standpoint(tree, h) ==
    {at \in [boundary : Nat, depth : Nat, resumable : Nat, tail : DOMAIN tree \cup {Root},
             diverged : DOMAIN tree \cup {Root}, at : Nat, ended : BOOLEAN] :
        /\ at.boundary <= Len(h) /\ at.tail = Upto(h, at.boundary)
        /\ at.depth > 0 => at.boundary > 0
        /\ at.depth <= MaxDepth => RoomBehind(tree, at.tail, MaxDepth - at.depth)
        /\ at.diverged # Root =>
            /\ at.ended /\ ParentOf(tree, at.diverged) = at.tail
            /\ 0 < at.at /\ at.at < Len(at.diverged) /\ at.at <= Len(h)
            /\ Upto(at.diverged, at.at) = Upto(h, at.at)}

LEMMA DescendIs ==
    ASSUME NEW tree, Tree(tree), IsFiniteSet(DOMAIN tree),
           \A f \in DOMAIN tree : tree[f].snaps \subseteq Nat,
           NEW h \in Seq(Nat), NEW longer \in BOOLEAN, NEW at \in Standpoint(tree, h), ~at.ended
    PROVE  /\ Descend(tree, h, at, longer) \in Standpoint(tree, h)
           /\ Descend(tree, h, at, longer).depth \in {at.depth, at.depth + 1}
  <1> DEFINE f == BestChild(tree, h, at.boundary, longer)
             reached == CommonLen(f, h)
             there == Deeper(tree[f].snaps, reached, at.resumable)
             Records == [boundary : Nat, depth : Nat, resumable : Nat,
                         tail : DOMAIN tree \cup {Root}, diverged : DOMAIN tree \cup {Root},
                         at : Nat, ended : BOOLEAN]
  <1>0. at.resumable \in Nat /\ at.depth \in Nat
    BY DEF Standpoint
  <1>1. /\ at \in Records /\ at.boundary \in Nat /\ at.resumable \in Nat /\ at.depth \in Nat
        /\ at.diverged = Root /\ at.tail = Upto(h, at.boundary) /\ at.boundary <= Len(h)
        /\ at.depth > 0 => at.boundary > 0
        /\ at.depth <= MaxDepth => RoomBehind(tree, at.tail, MaxDepth - at.depth)
    BY DEF Standpoint
  <1>2. CASE f = Root \/ at.boundary = Len(h)
    <2>1. Descend(tree, h, at, longer) = [at EXCEPT !.ended = TRUE]
      BY <1>2 DEF Descend
    <2> DEFINE d == [at EXCEPT !.ended = TRUE]
    <2>2. /\ d \in Records /\ d.boundary = at.boundary /\ d.depth = at.depth
          /\ d.tail = at.tail /\ d.diverged = Root
      BY <1>1
    <2> HIDE DEF d
    <2>3. d \in Standpoint(tree, h)
      BY <1>1, <2>2 DEF Standpoint
    <2> QED
      BY <2>1, <2>2, <2>3 DEF d
  <1>3. CASE ~(f = Root \/ at.boundary = Len(h))
    <2>1. f \in DOMAIN tree /\ reached > at.boundary /\ ParentOf(tree, f) = at.tail
      BY <1>1, <1>3, BestChildIs
    <2>2. /\ f \in Seq(Nat) /\ f # Root /\ Len(f) \in Nat /\ Len(h) \in Nat
          /\ reached \in Nat /\ reached <= Len(f) /\ reached <= Len(h)
          /\ Upto(f, reached) = Upto(h, reached)
      <3>1. f \in Seq(Nat) /\ f # Root
        BY <2>1 DEF Tree
      <3> HIDE DEF f
      <3> QED
        BY <3>1, CommonLenIs
    <2>3. there \in Nat
      <3>1. tree[f].snaps \subseteq Nat
        BY <2>1
      <3> HIDE DEF f, reached
      <3> QED
        BY <1>0, <2>2, <3>1, DeeperIs
    <2>4. CASE reached < Len(f)
      <3>1. Descend(tree, h, at, longer) =
                [at EXCEPT !.ended = TRUE, !.diverged = f, !.at = reached,
                           !.resumable = Deeper(tree[f].snaps, reached, @)]
        BY <1>3, <2>4 DEF Descend
      <3> DEFINE d == [at EXCEPT !.ended = TRUE, !.diverged = f, !.at = reached,
                                 !.resumable = there]
      <3>2. Descend(tree, h, at, longer) = d
        BY <3>1
      <3> HIDE DEF f, reached, there
      <3>3. /\ d \in Records /\ d.boundary = at.boundary /\ d.depth = at.depth
            /\ d.tail = at.tail /\ d.diverged = f /\ d.at = reached /\ d.ended
        BY <1>1, <2>1, <2>2, <2>3
      <3> HIDE DEF d
      <3>4. d \in Standpoint(tree, h)
        BY <1>1, <2>1, <2>2, <2>4, <3>3 DEF Standpoint
      <3> QED
        BY <3>2, <3>3, <3>4
    <2>5. CASE ~(reached < Len(f))
      <3>1. Descend(tree, h, at, longer) =
                [at EXCEPT !.boundary = Len(f), !.depth = @ + 1, !.tail = f,
                           !.resumable = Deeper(tree[f].snaps, reached, @)]
        BY <1>3, <2>5 DEF Descend
      <3> DEFINE len == Len(f)
                 depth == at.depth + 1
                 d == [at EXCEPT !.boundary = len, !.depth = depth, !.tail = f,
                                 !.resumable = there]
      <3>2. Descend(tree, h, at, longer) = d
        BY <3>1
      <3>3. reached = Len(f) /\ Upto(f, Len(f)) = f
        <4> HIDE DEF f, reached
        <4> QED
          BY <2>2, <2>5, UptoAll
      <3>4. len \in Nat /\ len > 0 /\ len = Len(f) /\ depth \in Nat
            /\ f \in DOMAIN tree \cup {Root}
        <4> HIDE DEF f, reached
        <4> QED
          BY <1>1, <2>1, <2>2, <3>3
      <3> HIDE DEF f, reached, there, len, depth
      <3>6. /\ d \in Records /\ d.boundary = len /\ d.depth = depth
            /\ d.tail = f /\ d.diverged = Root
        BY <1>1, <2>3, <3>4
      <3> HIDE DEF d
      <3>7. depth <= MaxDepth => RoomBehind(tree, f, MaxDepth - depth)
        <4>1. SUFFICES ASSUME depth <= MaxDepth
                       PROVE  RoomBehind(tree, f, MaxDepth - depth)
          OBVIOUS
        <4>2. /\ MaxDepth - depth \in 0..MaxDepth - 1 /\ at.depth <= MaxDepth
              /\ (MaxDepth - depth) + 1 = MaxDepth - at.depth
          <5>1. MaxDepth \in Nat /\ depth = at.depth + 1
            BY TreeConstantsOK DEF depth, TreeConstantsOK
          <5> HIDE DEF Records
          <5> QED
            BY <1>0, <4>1, <5>1
        <4> HIDE DEF f
        <4>3. RoomBehind(tree, ParentOf(tree, f), (MaxDepth - depth) + 1)
          BY <1>1, <2>1, <4>2
        <4> QED
          BY <2>1, <4>2, <4>3, RoomForChild
      <3>8. d \in Standpoint(tree, h)
        BY <2>2, <3>3, <3>4, <3>6, <3>7 DEF Standpoint
      <3> QED
        BY <3>2, <3>6, <3>8 DEF depth
    <2> QED
      BY <2>4, <2>5
  <1> QED
    BY <1>2, <1>3

LEMMA LocateIs ==
    ASSUME NEW tree, Tree(tree), IsFiniteSet(DOMAIN tree),
           \A f \in DOMAIN tree : tree[f].snaps \subseteq Nat,
           NEW h \in Seq(Nat), NEW longer \in BOOLEAN
    PROVE  /\ Locate(tree, h, longer) \in Standpoint(tree, h)
           /\ Locate(tree, h, longer).depth <= MaxDepth
  <1> DEFINE X == Standpoint(tree, h)
             nowhere == [boundary |-> 0, depth |-> 0, resumable |-> 0, tail |-> Root,
                         diverged |-> Root, at |-> 0, ended |-> FALSE]
             g == [at \in X |-> IF at.ended THEN at ELSE Descend(tree, h, at, longer)]
             Def(u) == [n \in 0..MaxDepth |->
                           IF n = 0 THEN nowhere
                           ELSE LET before == u[n - 1]
                                IN  IF before.ended THEN before
                                    ELSE Descend(tree, h, before, longer)]
  <1>1. nowhere \in X /\ nowhere.depth = 0
    <2>1. RoomBehind(tree, Root, MaxDepth)
      BY RoomAtRoot, TreeConstantsOK DEF TreeConstantsOK
    <2>2. MaxDepth - 0 = MaxDepth
      BY TreeConstantsOK DEF TreeConstantsOK
    <2> QED
      BY <2>1, <2>2, UptoNothing DEF Standpoint
  <1>2. g \in [X -> X]
    <2>1. \A at \in X : ~at.ended => Descend(tree, h, at, longer) \in X
      BY DescendIs
    <2> HIDE DEF X
    <2> QED
      BY <2>1
  <1>3. MaxDepth \in Nat
    BY TreeConstantsOK DEF TreeConstantsOK
  <1>4. PICK u \in [0..MaxDepth -> X] : Iterate(u, MaxDepth, nowhere, g)
    <2> HIDE DEF g, X, nowhere
    <2> QED
      BY <1>1, <1>2, <1>3, Iterates
  <1>5. u = Def(u)
    <2> HIDE DEF X, nowhere
    <2>1. ASSUME NEW n \in 0..MaxDepth
          PROVE  u[n] = IF n = 0 THEN nowhere
                        ELSE LET before == u[n - 1]
                             IN  IF before.ended THEN before
                                 ELSE Descend(tree, h, before, longer)
      <3>1. CASE n = 0
        BY <1>4, <3>1 DEF Iterate
      <3>2. CASE n # 0
        <4>1. n - 1 \in 0..MaxDepth
          BY <1>3, <3>2
        <4>2. u[n - 1] \in X
          BY <1>4, <4>1
        <4> QED
          BY <1>4, <3>2, <4>2 DEF Iterate
      <3> QED
        BY <3>1, <3>2
    <2> QED
      BY <1>4, <2>1
  <1> DEFINE level == CHOOSE v : v = Def(v)
  <1>6. Locate(tree, h, longer) = level[MaxDepth]
    BY DEF Locate
  <1>7. level = Def(level)
    <2> HIDE DEF Def
    <2> QED
      BY <1>5
  <1>8. \A n \in 0..MaxDepth : level[n] = IF n = 0 THEN nowhere
                                          ELSE IF level[n - 1].ended THEN level[n - 1]
                                               ELSE Descend(tree, h, level[n - 1], longer)
    <2> HIDE DEF level, nowhere
    <2> QED
      BY <1>7
  <1> DEFINE Bad == {n \in 0..MaxDepth : ~(level[n] \in X /\ level[n].depth <= n)}
  <1>9. Bad = {}
    <2> HIDE DEF level, nowhere, X
    <2>1. SUFFICES ASSUME Bad # {} PROVE FALSE
      OBVIOUS
    <2>2. PICK n \in Bad : \A m \in Bad : n <= m
      <3>1. Bad \subseteq Nat
        OBVIOUS
      <3> HIDE DEF Bad
      <3> QED
        BY <2>1, <3>1, LowestOf
    <2>3. n # 0
      BY <1>1, <1>8, <2>2
    <2>4. n - 1 \in 0..MaxDepth /\ ~(n <= n - 1)
      BY <1>3, <2>2, <2>3
    <2>5. level[n - 1] \in X /\ level[n - 1].depth <= n - 1 /\ level[n - 1].depth \in Nat
      <3>1. level[n - 1] \in X /\ level[n - 1].depth <= n - 1
        BY <2>2, <2>4
      <3> QED
        BY <3>1 DEF X, Standpoint
    <2>6. ~level[n - 1].ended =>
            /\ Descend(tree, h, level[n - 1], longer) \in X
            /\ Descend(tree, h, level[n - 1], longer).depth
                  \in {level[n - 1].depth, level[n - 1].depth + 1}
      BY <2>5, DescendIs DEF X
    <2>7. n \in 0..MaxDepth /\ n \in Nat /\ n > 0
      BY <1>3, <2>2, <2>3
    <2>8. level[n] \in X /\ level[n].depth <= n
      <3>1. CASE level[n - 1].ended
        <4>1. level[n] = level[n - 1]
          BY <1>8, <2>3, <2>7, <3>1
        <4> QED
          BY <2>5, <2>7, <4>1
      <3>2. CASE ~level[n - 1].ended
        <4>1. level[n] = Descend(tree, h, level[n - 1], longer)
          BY <1>8, <2>3, <2>7, <3>2
        <4> QED
          BY <2>5, <2>6, <2>7, <3>2, <4>1
      <3> QED
        BY <3>1, <3>2
    <2> QED
      BY <2>2, <2>8
  <1>10. level[MaxDepth] \in X /\ level[MaxDepth].depth <= MaxDepth
    <2>1. MaxDepth \in 0..MaxDepth /\ MaxDepth \notin Bad
      BY <1>3, <1>9
    <2> HIDE DEF level, X
    <2> QED
      BY <2>1
  <1> QED
    BY <1>6, <1>10

---------------------------------------------------------------------------
(* Names, and the faults there have been.                                  *)

LEMMA NamesAre ==
    /\ Names \subseteq Seq(Nat) \ {Root}
    /\ Conversations \subseteq Names /\ Prompts \subseteq Conversations
    /\ \A f \in Names : Len(f) \in Nat /\ Len(f) > 0
    /\ \A f \in Names : \A n \in 1..Len(f) : Upto(f, n) \in Names
  <1>1. \A h \in Conversations : h \in Seq(Nat) /\ h # Root
    BY TierConstantsOK DEF TierConstantsOK
  <1>2. ASSUME NEW f \in Names
        PROVE  \E h \in Conversations : \E n \in 1..Len(h) : f = Upto(h, n)
    BY DEF Names
  <1>3. ASSUME NEW f \in Names
        PROVE  /\ f \in Seq(Nat) /\ f # Root /\ Len(f) \in Nat /\ Len(f) > 0
               /\ \A n \in 1..Len(f) : Upto(f, n) \in Names
    <2>1. PICK h, m : h \in Conversations /\ m \in 1..Len(h) /\ f = Upto(h, m)
      BY <1>2
    <2>2. h \in Seq(Nat) /\ m \in 0..Len(h) /\ m > 0 /\ m \in Nat /\ Len(h) \in Nat
      BY <1>1, <2>1
    <2>3. f \in Seq(Nat) /\ f # Root /\ Len(f) = m
      BY <2>1, <2>2, UptoIs
    <2>4. ASSUME NEW n \in 1..Len(f)
          PROVE  Upto(f, n) \in Names
      <3>1. n \in 0..m /\ n \in 1..Len(h)
        BY <2>2, <2>3
      <3>2. Upto(f, n) = Upto(h, n)
        BY <2>1, <2>2, <3>1, UptoUpto
      <3> QED
        BY <2>1, <3>1, <3>2 DEF Names
    <2> QED
      BY <2>2, <2>3, <2>4
  <1>4. ASSUME NEW h \in Conversations
        PROVE  h \in Names
    <2>1. h \in Seq(Nat) /\ h # Root
      BY <1>1
    <2>2. Len(h) \in 1..Len(h)
      BY <2>1, EmptySeq DEF Root
    <2>3. Upto(h, Len(h)) = h
      BY <2>1, UptoAll
    <2> QED
      BY <2>2, <2>3 DEF Names
  <1> QED
    BY <1>3, <1>4, TierConstantsOK DEF TierConstantsOK

Growing == Rotted \subseteq Rotted' /\ Unread \subseteq Unread'

LEMMA FaultIs ==
    ASSUME NEW kind, NEW f, Fault(kind, f)
    PROVE  /\ Growing
           /\ kind = "rot" => f \in Rotted'
           /\ kind = "header" => f \in Unread'
  <1>1. faults' = faults \cup {<<kind, f>>}
    BY DEF Fault
  <1>2. \A k : FaultsOf(k) \subseteq FaultsOf(k)'
    BY <1>1 DEF FaultsOf
  <1>3. f \in FaultsOf(kind)'
    <2>1. <<kind, f>> \in {x \in faults' : x[1] = kind} /\ <<kind, f>>[2] = f
      BY <1>1
    <2> QED
      BY <2>1 DEF FaultsOf
  <1> QED
    BY <1>2, <1>3 DEF Growing, Rotted, Unread

LEMMA FaultsStay ==
    ASSUME UNCHANGED faults
    PROVE  Growing /\ Rotted' = Rotted /\ Unread' = Unread
  BY DEF Growing, Rotted, Unread, FaultsOf

LEMMA FaultsGrow ==
    ASSUME [Next]_vars
    PROVE  Growing
  <1>1. CASE UNCHANGED faults
    BY <1>1, FaultsStay
  <1>2. CASE TurnDown
    BY <1>2, FaultIs, FaultsStay DEF TurnDown
  <1>3. CASE PutFails
    BY <1>3, FaultIs, FaultsStay DEF PutFails
  <1>4. ASSUME NEW faulty, Scan(faulty)
        PROVE  Growing
    BY <1>4, FaultIs, FaultsStay DEF Scan
  <1>5. ASSUME NEW f, Rot(f)
        PROVE  Growing
    BY <1>5, FaultIs DEF Rot
  <1> QED
    BY <1>1, <1>2, <1>3, <1>4, <1>5
       DEF Next, Engine, Writer, Environment, vars, Serve, Unlink, QueueWrite, ChooseStored,
           OpenFails, ReadNext, ReadsRot, Refresh, NoteHydrated, Claim, PlanWrite,
           ReadForSplit, PutFile, RecordPut, Backfill, LinkWritten, NameSuperseded,
           CondemnSuperseded, PickVictim, Erase, WithinBudget, Crash

---------------------------------------------------------------------------
(* What a step does to the files and to the index.                         *)

Entries == [start : Nat, snaps : SUBSET Nat, standing : Standings]

Listing(tree) == tree \in [DOMAIN tree -> Entries]

\* Some entries are gone, some are built on no longer.
Fewer(old, new) ==
    /\ DOMAIN new \subseteq DOMAIN old /\ new \in [DOMAIN new -> Entries]
    /\ \A f \in DOMAIN new : new[f].start = old[f].start /\ new[f].snaps = old[f].snaps

LEMMA FewerTwice ==
    ASSUME NEW tree, Listing(tree), NEW f, NEW new, Fewer(tree, new)
    PROVE  Fewer(tree, Without(f, new)) /\ Fewer(tree, Demoted(new, f))
  <1>1. \A g \in DOMAIN new : /\ new[g] \in Entries
                              /\ new[g].start = tree[g].start /\ new[g].snaps = tree[g].snaps
    BY DEF Fewer
  <1>2. DOMAIN new \subseteq DOMAIN tree
    BY DEF Fewer
  <1>3. Fewer(tree, Without(f, new))
    BY <1>1, <1>2 DEF Fewer, Without
  <1> DEFINE down(g) == [new[g] EXCEPT !.standing = "demoted"]
  <1>4. \A g \in DOMAIN new : /\ down(g) \in Entries /\ down(g).start = tree[g].start
                              /\ down(g).snaps = tree[g].snaps
    BY <1>1 DEF Entries, Standings
  <1>5. /\ DOMAIN Demoted(new, f) = DOMAIN new
        /\ Demoted(new, f) = [g \in DOMAIN new |-> Demoted(new, f)[g]]
        /\ \A g \in DOMAIN new : Demoted(new, f)[g] \in {new[g], down(g)}
    BY DEF Demoted
  <1>6. Fewer(tree, Demoted(new, f))
    <2> HIDE DEF down
    <2>1. \A g \in DOMAIN new : /\ Demoted(new, f)[g] \in Entries
                                /\ Demoted(new, f)[g].start = tree[g].start
                                /\ Demoted(new, f)[g].snaps = tree[g].snaps
      BY <1>1, <1>4, <1>5
    <2> QED
      BY <1>2, <1>5, <2>1 DEF Fewer
  <1> QED
    BY <1>3, <1>6

LEMMA FewerIs ==
    ASSUME NEW tree, Listing(tree)
    PROVE  Fewer(tree, tree) /\ \A f : Fewer(tree, Demoted(tree, f)) /\ Fewer(tree, Without(f, tree))
  <1>1. Fewer(tree, tree)
    BY DEF Fewer, Listing
  <1> QED
    BY <1>1, FewerTwice, Zenon

\* What most steps do: demote and delete.
Keeps == disk' = disk /\ Fewer(index, index') /\ DOMAIN index' = DOMAIN index
Drops(f) ==
    /\ disk' = Without(f, disk)
    /\ Fewer(index, index') /\ DOMAIN index' = DOMAIN index \ {f}
Steady ==
    /\ At("record") => writer'.pc = "record" /\ writer'.put = writer.put
    /\ up' # "down" => up # "down"
DropsRot == \E f \in DOMAIN disk : Drops(f) /\ ~disk[f].ok

LEMMA ListingIs == IndexTyped => Listing(index)
  BY DEF IndexTyped, Listing, Entries

LEMMA CondemnDrops ==
    ASSUME IndexTyped, NEW f, Condemn(f)
    PROVE  Drops(f)
  <1>1. Fewer(index, Demoted(index, f))
    BY ListingIs, FewerIs, Zenon
  <1>2. Fewer(index, Without(f, Demoted(index, f)))
    BY <1>1, ListingIs, FewerTwice, Zenon
  <1>3. DOMAIN Without(f, Demoted(index, f)) = DOMAIN index \ {f}
    BY DEF Without, Demoted
  <1> QED
    BY <1>2, <1>3 DEF Condemn, Drops

LEMMA EraseDrops ==
    ASSUME IndexTyped, Erase
    PROVE  Drops(writer.path)
  <1>1. Fewer(index, Without(writer.path, index))
    BY ListingIs, FewerIs, Zenon
  <1>2. DOMAIN Without(writer.path, index) = DOMAIN index \ {writer.path}
    BY DEF Without
  <1> QED
    BY <1>1, <1>2 DEF Erase, Drops

LEMMA ForgetKeeps ==
    ASSUME IndexTyped, NEW linked, ForgetStale(index, linked)
    PROVE  Fewer(index, index') /\ DOMAIN index' = DOMAIN index
  <1>1. Fewer(index, Demoted(index, reader.leaf))
    BY ListingIs, FewerIs, Zenon
  <1>2. DOMAIN Demoted(index, reader.leaf) = DOMAIN index
    BY DEF Demoted
  <1> QED
    BY <1>1, <1>2 DEF ForgetStale

LEMMA ReadsRotDrops ==
    ASSUME IndexTyped, ReadsRot
    PROVE  Drops(reader.next)
  <1> DEFINE f == reader.next
             down == Demoted(index, f)
             gone == Without(f, down)
             less == Demoted(gone, reader.leaf)
  <1>1. DOMAIN gone = DOMAIN index \ {f} /\ DOMAIN less = DOMAIN gone
    BY DEF Without, Demoted
  <1>2. disk' = Without(f, disk) /\ (index' = gone \/ index' = less)
    BY DEF ReadsRot, ForgetStale
  <1>3. Fewer(index, down)
    BY ListingIs, FewerIs, Zenon
  <1>4. Fewer(index, gone)
    <2> HIDE DEF down
    <2> QED
      BY <1>3, ListingIs, FewerTwice, Zenon
  <1>5. Fewer(index, less)
    <2> HIDE DEF gone
    <2> QED
      BY <1>4, ListingIs, FewerTwice, Zenon
  <1> HIDE DEF gone, less
  <1> QED
    BY <1>1, <1>2, <1>4, <1>5 DEF Drops

LEMMA StepIs ==
    ASSUME IndexTyped, WriterTyped, EngineTyped, [Next]_vars
    PROVE  \/ Keeps /\ Steady
           \/ DropsRot /\ Steady /\ UNCHANGED faults
           \/ \E f \in writer.doomed : CondemnSuperseded(f)
           \/ Erase \/ PutFile \/ RecordPut \/ Refresh \/ Crash
           \/ \E faulty \in {{}} \cup {{f} : f \in DOMAIN disk} : Scan(faulty)
           \/ \E f \in DOMAIN disk : Rot(f)
  <1>1. Listing(index) /\ Fewer(index, index)
    BY FewerIs DEF IndexTyped, Entries, Listing
  <1>2. CASE UNCHANGED vars
    BY <1>1, <1>2 DEF vars, Keeps, Steady, At
  <1>3. ASSUME NEW s, Unlink(s)
        PROVE  Keeps /\ Steady
    BY <1>1, <1>3 DEF Unlink, Keeps, Steady, At, WriterTyped, Writers
  <1>4. CASE \E s \in Slots :
                \/ \E h \in Conversations : Serve(s, h)
                \/ \E prompt \in Prompts : ChooseStored(s, prompt)
                \/ \E snaps \in Snapshots[holds[s]] : QueueWrite(s, snaps)
    BY <1>1, <1>4 DEF Serve, ChooseStored, QueueWrite, Keeps, Steady, At
  <1>5. CASE OpenFails
    BY <1>1, <1>5, ForgetKeeps DEF OpenFails, Keeps, Steady, At
  <1>6. CASE ReadNext \/ NoteHydrated
    BY <1>1, <1>6 DEF ReadNext, NoteHydrated, Keeps, Steady, At
  <1>7. CASE TurnDown
    BY <1>1, <1>7, ForgetKeeps DEF TurnDown, Keeps, Steady, At
  <1>8. CASE ReadsRot
    BY <1>8, ReadsRotDrops DEF ReadsRot, DropsRot, Steady, At
  <1>9. CASE Claim
    BY <1>1, <1>9 DEF Claim, Keeps, Steady, At
  <1>10. ASSUME NEW longer \in BOOLEAN, PlanWrite(longer)
         PROVE  Keeps /\ Steady
    BY <1>1, <1>10 DEF PlanWrite, Keeps, Steady, At
  <1>11. CASE ReadForSplit
    <2>1. CASE writer.path \in DOMAIN disk /\ ~disk[writer.path].ok
      BY <1>11, <2>1, CondemnDrops DEF ReadForSplit, DropsRot, Steady, At
    <2>2. CASE ~(writer.path \in DOMAIN disk /\ ~disk[writer.path].ok)
      BY <1>1, <1>11, <2>2 DEF ReadForSplit, Keeps, Steady, At
    <2> QED
      BY <2>1, <2>2
  <1>12. CASE PutFails
    BY <1>1, <1>12 DEF PutFails, Keeps, Steady, At
  <1>13. CASE Backfill
    <2> DEFINE parent == Upto(History, writer.at)
    <2>0. At("backfill") /\ UNCHANGED <<up, faults>>
      BY <1>13 DEF Backfill
    <2>1. CASE UNCHANGED <<disk, index>>
      BY <1>1, <2>0, <2>1 DEF Keeps, Steady, At
    <2>2. CASE ~UNCHANGED <<disk, index>>
      <3>1. parent \in DOMAIN disk /\ ~disk[parent].ok /\ Condemn(parent)
        BY <1>13, <2>2 DEF Backfill
      <3> QED
        BY <2>0, <3>1, CondemnDrops DEF DropsRot, Steady, At
    <2> QED
      BY <2>1, <2>2
  <1>14. CASE LinkWritten \/ NameSuperseded
    BY <1>1, <1>14 DEF LinkWritten, NameSuperseded, Keeps, Steady, At
  <1>15. CASE (\E f \in DOMAIN index : PickVictim(f)) \/ WithinBudget
    BY <1>1, <1>15 DEF PickVictim, WithinBudget, Keeps, Steady, At, EngineTyped
  <1> QED
    BY <1>2, <1>3, <1>4, <1>5, <1>6, <1>7, <1>8, <1>9, <1>10, <1>11, <1>12, <1>13, <1>14, <1>15
       DEF Next, Engine, Writer, Environment

---------------------------------------------------------------------------
(* The files and the index, conjunct by conjunct.                          *)

Files == [start : Nat, snaps : SUBSET Nat, ok : BOOLEAN]

\* A file is put under a name, or taken away.
LEMMA WithIs ==
    ASSUME NEW f, NEW x, NEW g, IsFiniteSet(DOMAIN g)
    PROVE  IsFiniteSet(DOMAIN With(f, x, g))
  <1>1. DOMAIN With(f, x, g) = DOMAIN g \cup {f}
    BY DEF With
  <1> QED
    BY <1>1, FS_AddElement

\* Less of what there was.
LEMMA FewerFiles ==
    ASSUME FilesTyped, Growing, DOMAIN disk' \subseteq DOMAIN disk,
           disk' = [f \in DOMAIN disk' |-> disk[f]]
    PROVE  FilesTyped'
  <1>1. IsFiniteSet(DOMAIN disk')
    BY FS_Subset DEF FilesTyped
  <1> QED
    BY <1>1 DEF FilesTyped, Growing, Spans

LEMMA FilesStayTyped ==
    ASSUME DInv, [Next]_vars
    PROVE  FilesTyped'
  <1>0. Growing
    BY FaultsGrow
  <1>1. FilesTyped /\ IndexTyped /\ WriterTyped /\ EngineTyped
    BY DEF DInv
  <1>2. ASSUME NEW f, disk' = Without(f, disk)
        PROVE  FilesTyped'
    BY <1>0, <1>1, <1>2, FewerFiles DEF Without
  <1>3. CASE disk' = disk
    <2>1. disk = [f \in DOMAIN disk |-> disk[f]]
      BY <1>1 DEF FilesTyped
    <2> QED
      BY <1>0, <1>1, <1>3, <2>1, FewerFiles
  <1>4. CASE PutFile
    <2> DEFINE put == writer.put
               x == [start |-> put.start, snaps |-> put.snaps, ok |-> TRUE]
    <2>1. disk' = With(put.name, x, disk) /\ At("put")
      BY <1>4 DEF PutFile
    <2>2. put \in Put /\ put.name # Root /\ Spans(put.name, put.start, put.snaps)
      BY <2>1 DEF DInv, WriterTyped, Writers, PlansFit, Fits, PutFits, At
    <2>3. put.name \in Names /\ x \in Files
      BY <2>2 DEF Put, Files
    <2> HIDE DEF x
    <2>4. /\ DOMAIN disk' = DOMAIN disk \cup {put.name} /\ disk'[put.name] = x
          /\ \A y \in DOMAIN disk : y # put.name => disk'[y] = disk[y]
          /\ disk' \in [DOMAIN disk' -> Files] /\ IsFiniteSet(DOMAIN disk')
      <3> HIDE DEF put
      <3>1. /\ DOMAIN disk' = DOMAIN disk \cup {put.name} /\ disk'[put.name] = x
            /\ \A y \in DOMAIN disk : y # put.name => disk'[y] = disk[y]
            /\ disk' = [y \in DOMAIN disk' |-> disk'[y]]
        BY <2>1 DEF With
      <3>2. \A y \in DOMAIN disk : disk[y] \in Files
        BY <1>1 DEF FilesTyped, Files
      <3>3. \A y \in DOMAIN disk' : disk'[y] \in Files
        BY <2>3, <3>1, <3>2
      <3>4. IsFiniteSet(DOMAIN disk')
        BY <1>1, <2>1, WithIs DEF FilesTyped
      <3> QED
        BY <3>1, <3>3, <3>4
    <2>5. x.start = put.start /\ x.snaps = put.snaps /\ x.ok
      BY DEF x
    <2> QED
      BY <1>0, <1>1, <2>2, <2>3, <2>4, <2>5 DEF FilesTyped, Files, Growing
  <1>5. ASSUME NEW faulty, faulty \subseteq DOMAIN disk, Scan(faulty)
        PROVE  FilesTyped'
    <2>1. DOMAIN disk' \subseteq DOMAIN disk \cup faulty /\ disk' = [f \in DOMAIN disk' |-> disk[f]]
      BY <1>5 DEF Scan, Waiting
    <2> QED
      BY <1>0, <1>1, <1>5, <2>1, FewerFiles DEF Scan
  <1>6. ASSUME NEW f \in DOMAIN disk, Rot(f)
        PROVE  FilesTyped'
    <2>1. disk' = [disk EXCEPT ![f].ok = FALSE] /\ f \in Rotted'
      BY <1>6, FaultIs DEF Rot
    <2> QED
      BY <1>0, <1>1, <2>1 DEF FilesTyped, Growing
  <1> QED
    <2>1. RecordPut \/ Refresh \/ Crash => disk' = disk
      BY DEF RecordPut, Refresh, Crash
    <2>2. Erase \/ (\E f \in writer.doomed : CondemnSuperseded(f)) => \E f : disk' = Without(f, disk)
      BY DEF Erase, CondemnSuperseded, Condemn
    <2> QED
      BY <1>1, <1>2, <1>3, <1>4, <1>5, <1>6, <2>1, <2>2, StepIs DEF Keeps, Drops, DropsRot

LEMMA FewerEntries ==
    ASSUME IndexTyped, Fewer(index, index')
    PROVE  IndexTyped'
  <1>1. IsFiniteSet(DOMAIN index')
    BY FS_Subset DEF IndexTyped, Fewer
  <1> QED
    BY <1>1 DEF IndexTyped, Fewer, Spans, Entries

LEMMA IndexStaysTyped ==
    ASSUME DInv, [Next]_vars
    PROVE  IndexTyped'
  <1>1. FilesTyped /\ IndexTyped /\ WriterTyped /\ EngineTyped /\ ReaderTyped
    BY DEF DInv
  <1>2. CASE Fewer(index, index')
    BY <1>1, <1>2, FewerEntries
  <1>3. CASE index' = index
    BY <1>1, <1>3 DEF IndexTyped
  <1>4. CASE RecordPut
    <2> DEFINE put == writer.put
               x == Entry(put)
    <2>1. index' = With(put.name, x, index) /\ At("record")
      BY <1>4 DEF RecordPut
    <2>2. put \in Put /\ put.name # Root /\ Spans(put.name, put.start, put.snaps)
      BY <2>1 DEF DInv, WriterTyped, Writers, PlansFit, Fits, PutFits, At
    <2>3. put.name \in Names /\ x \in Entries /\ x.start = put.start /\ x.snaps = put.snaps
      BY <2>2 DEF Put, Entries, Entry, Standings
    <2> HIDE DEF x, put
    <2>4. /\ DOMAIN index' = DOMAIN index \cup {put.name} /\ index'[put.name] = x
          /\ \A y \in DOMAIN index : y # put.name => index'[y] = index[y]
          /\ index' = [y \in DOMAIN index' |-> index'[y]]
      BY <2>1 DEF With
    <2>5. \A y \in DOMAIN index : index[y] \in Entries
      BY <1>1 DEF IndexTyped, Entries
    <2>6. \A y \in DOMAIN index' : index'[y] \in Entries
      BY <2>3, <2>4, <2>5
    <2>7. index' \in [DOMAIN index' -> Entries]
      BY <2>4, <2>6
    <2>8. IsFiniteSet(DOMAIN index')
      BY <1>1, <2>1, WithIs DEF IndexTyped
    <2>9. \A y \in DOMAIN index' : Spans(y, index'[y].start, index'[y].snaps)
      BY <1>1, <2>2, <2>3, <2>4 DEF IndexTyped
    <2> QED
      BY <1>1, <2>3, <2>4, <2>7, <2>8, <2>9 DEF IndexTyped, Entries
  <1>5. CASE Refresh
    <2> DEFINE new(f) == [index[f] EXCEPT !.start = reader.read[f].start,
                                          !.snaps = reader.read[f].snaps]
    <2>1. /\ DOMAIN index' = DOMAIN index /\ index' = [f \in DOMAIN index |-> index'[f]]
          /\ \A f \in DOMAIN index :
                index'[f] = IF f \in DOMAIN reader.read THEN new(f) ELSE index[f]
      BY <1>5 DEF Refresh
    <2>2. \A f \in DOMAIN index : index[f] \in Entries
      BY <1>1 DEF IndexTyped, Entries
    <2>3. \A f \in DOMAIN reader.read : reader.read[f] \in [start : Nat, snaps : SUBSET Nat]
      BY <1>1 DEF ReaderTyped
    <2>4. \A f \in DOMAIN index \cap DOMAIN reader.read :
            /\ new(f) \in Entries
            /\ new(f).start = reader.read[f].start /\ new(f).snaps = reader.read[f].snaps
      BY <2>2, <2>3 DEF Entries
    <2> HIDE DEF new
    <2>5. \A f \in DOMAIN index : index'[f] \in Entries /\ Spans(f, index'[f].start, index'[f].snaps)
      BY <1>1, <2>1, <2>2, <2>4 DEF IndexTyped, ReaderTyped
    <2>6. index' \in [DOMAIN index' -> Entries]
      BY <2>1, <2>5
    <2> QED
      BY <1>1, <2>1, <2>5, <2>6 DEF IndexTyped, Entries
  <1>6. CASE Crash
    <2>1. DOMAIN index' = {} /\ index' = [f \in {} |-> {}]
      BY <1>6 DEF Crash
    <2> QED
      BY <2>1, FS_EmptySet DEF IndexTyped
  <1>7. ASSUME NEW faulty, faulty \subseteq DOMAIN disk, Scan(faulty)
        PROVE  IndexTyped'
    <2>1. /\ DOMAIN index' \subseteq DOMAIN disk
          /\ index' = [f \in DOMAIN index' |-> index'[f]]
          /\ \A f \in DOMAIN index' : \E standing \in Standings :
                index'[f] = [start |-> disk[f].start, snaps |-> disk[f].snaps, standing |-> standing]
      BY <1>7 DEF Scan, Waiting, Standings
    <2>2. \A f \in DOMAIN disk : disk[f].start \in Nat /\ disk[f].snaps \in SUBSET Nat
      BY <1>1 DEF FilesTyped
    <2>3. \A f \in DOMAIN index' :
            /\ index'[f] \in Entries
            /\ index'[f].start = disk[f].start /\ index'[f].snaps = disk[f].snaps
      BY <2>1, <2>2 DEF Entries
    <2>4. index' \in [DOMAIN index' -> Entries]
      BY <2>1, <2>3
    <2>5. IsFiniteSet(DOMAIN index')
      BY <1>1, <2>1, FS_Subset DEF FilesTyped
    <2> QED
      BY <1>1, <2>1, <2>3, <2>4, <2>5 DEF IndexTyped, Entries, FilesTyped
  <1> QED
    <2>1. PutFile => index' = index
      BY DEF PutFile
    <2>2. \A f : Rot(f) => index' = index
      BY DEF Rot
    <2>3. Erase => Fewer(index, index')
      BY <1>1, EraseDrops DEF Drops
    <2>4. (\E f \in writer.doomed : CondemnSuperseded(f)) => Fewer(index, index')
      BY <1>1, CondemnDrops DEF CondemnSuperseded, Drops
    <2> QED
      BY <1>1, <1>2, <1>3, <1>4, <1>5, <1>6, <1>7, <2>1, <2>2, <2>3, <2>4, StepIs
         DEF Keeps, Drops, DropsRot

\* What is chosen has something in common with the prompt it is chosen for.
LEMMA CandidatesStart ==
    ASSUME IndexTyped, NEW prompt \in Prompts, NEW leaf \in Candidates(index, prompt)
    PROVE  leaf \in Names /\ SameStart(leaf, prompt)
  <1>1. leaf \in DOMAIN index /\ CommonLen(leaf, prompt) > index[leaf].start
    BY DEF Candidates, Walked
  <1>2. leaf \in Names /\ leaf \in Seq(Nat) /\ prompt \in Seq(Nat) /\ index[leaf].start \in Nat
    BY <1>1, NamesAre DEF IndexTyped
  <1>3. CommonLen(leaf, prompt) \in Nat /\ (CommonLen(leaf, prompt) > 0 => SameStart(leaf, prompt))
    BY <1>2, CommonLenIs
  <1> QED
    BY <1>1, <1>2, <1>3

LEMMA IdleReaderIs == reader' = IdleReader => ReaderTyped'
  <1>1. /\ DOMAIN IdleReader.read = {} /\ IdleReader.read = [f \in {} |-> {}]
        /\ IdleReader.pc = "idle"
        /\ DOMAIN IdleReader = {"pc", "slot", "prompt", "leaf", "resume", "next", "read"}
    BY DEF IdleReader
  <1> QED
    BY <1>1 DEF ReaderTyped

LEMMA ReaderStaysTyped ==
    ASSUME DInv, [Next]_vars
    PROVE  ReaderTyped'
  <1>1. FilesTyped /\ IndexTyped /\ ReaderTyped
    BY DEF DInv
  <1>2. CASE reader' = reader
    BY <1>1, <1>2 DEF ReaderTyped
  <1>3. CASE reader' = IdleReader
    BY <1>3, IdleReaderIs
  <1>4. ASSUME NEW s \in Slots, NEW prompt \in Prompts, ChooseStored(s, prompt)
        PROVE  ReaderTyped'
    <2>1. PICK leaf \in Candidates(index, prompt) :
            reader' = [IdleReader EXCEPT !.pc = "reading", !.slot = s, !.prompt = prompt,
                          !.leaf = leaf, !.next = leaf, !.resume = ResumeAt(index, leaf, prompt)]
      BY <1>4 DEF ChooseStored
    <2>2. /\ reader'.pc = "reading" /\ reader'.slot = s /\ reader'.prompt = prompt
          /\ reader'.leaf = leaf /\ reader'.read = [f \in {} |-> {}]
          /\ DOMAIN reader' = {"pc", "slot", "prompt", "leaf", "resume", "next", "read"}
      BY <2>1 DEF IdleReader
    <2>3. leaf \in Names /\ SameStart(leaf, prompt)
      BY <1>1, CandidatesStart
    <2> QED
      BY <2>2, <2>3 DEF ReaderTyped
  <1>5. CASE ReadNext
    <2> DEFINE f == reader.next
               x == [start |-> disk[f].start, snaps |-> disk[f].snaps]
               read == With(f, x, reader.read)
    <2>1. /\ f \in DOMAIN disk /\ reader.pc = "reading"
          /\ \/ reader' = [reader EXCEPT !.read = read, !.next = ParentOf(disk, f)]
             \/ reader' = [reader EXCEPT !.pc = "composed", !.read = IdleReader.read, !.next = Root]
             \/ reader' = [reader EXCEPT !.pc = "stale", !.read = read, !.next = Root]
      BY <1>5 DEF ReadNext
    <2>2. /\ DOMAIN read = DOMAIN reader.read \cup {f} /\ read[f] = x
          /\ \A y \in DOMAIN reader.read : y # f => read[y] = reader.read[y]
          /\ read = [y \in DOMAIN read |-> read[y]]
      BY DEF With
    <2>3. x \in [start : Nat, snaps : SUBSET Nat] /\ f \in Names /\ Spans(f, x.start, x.snaps)
      BY <1>1, <2>1 DEF FilesTyped
    <2> HIDE DEF x, read
    <2>4. \A y \in DOMAIN read :
            read[y] \in [start : Nat, snaps : SUBSET Nat] /\ Spans(y, read[y].start, read[y].snaps)
      BY <1>1, <2>2, <2>3 DEF ReaderTyped
    <2>5. read \in [DOMAIN read -> [start : Nat, snaps : SUBSET Nat]]
      BY <2>2, <2>4
    <2>6. DOMAIN read \subseteq Names
      BY <1>1, <2>2, <2>3 DEF ReaderTyped
    <2>7. DOMAIN IdleReader.read = {} /\ IdleReader.read = [g \in {} |-> {}]
      BY DEF IdleReader
    <2>8. /\ DOMAIN reader' = DOMAIN reader /\ reader'.slot = reader.slot
          /\ reader'.prompt = reader.prompt /\ reader'.leaf = reader.leaf
          /\ reader'.pc \in {"reading", "composed", "stale"}
          /\ reader'.read \in {read, IdleReader.read}
      <3> HIDE DEF f
      <3> QED
        BY <1>1, <2>1 DEF ReaderTyped
    <2> QED
      BY <1>1, <2>1, <2>4, <2>5, <2>6, <2>7, <2>8 DEF ReaderTyped
  <1> QED
    BY <1>2, <1>3, <1>4, <1>5
       DEF Next, Engine, Writer, Environment, vars, Serve, Unlink, QueueWrite, OpenFails, Miss,
           ReadsRot, Refresh, TurnDown, NoteHydrated, Claim, PlanWrite, ReadForSplit, PutFile,
           RecordPut, PutFails, Backfill, LinkWritten, NameSuperseded, CondemnSuperseded,
           PickVictim, Erase, WithinBudget, Crash, NoMemory, Scan, Rot

---------------------------------------------------------------------------
(* The engine's slots and what it has queued.                              *)

LEMMA RemoveIs ==
    ASSUME NEW T, NEW s \in Seq(T), NEW i \in DOMAIN s
    PROVE  RemoveAt(s, i) \in Seq(T)
  <1>1. i \in 1..Len(s) /\ Len(s) \in Nat
    OBVIOUS
  <1>2. SubSeq(s, 1, i - 1) \in Seq(T) /\ SubSeq(s, i + 1, Len(s)) \in Seq(T)
    BY <1>1
  <1> QED
    BY <1>2, ConcatProperties DEF RemoveAt

LEMMA OthersAre ==
    ASSUME NEW T, pending \in Seq(T), NEW s
    PROVE  OthersPending(s) \in Seq(T)
  BY RemoveIs DEF OthersPending

LEMMA NotCurrentIs ==
    ASSUME NEW req \in Request \cup {NoRequest}, NEW s
    PROVE  /\ NotCurrent(req, s) \in Request \cup {NoRequest}
           /\ req \in Request => NotCurrent(req, s) \in Request
           /\ NotCurrent(req, s).slot = req.slot /\ NotCurrent(req, s).tokens = req.tokens
           /\ NotCurrent(req, s).snaps = req.snaps
           /\ NotCurrent(req, s).current <=> (req.current /\ req.slot # s)
  <1>1. CASE req \in Request
    <2> DEFINE current == req.current /\ req.slot # s
               new == [req EXCEPT !.current = current]
    <2>1. current \in BOOLEAN /\ NotCurrent(req, s) = new
      BY DEF NotCurrent
    <2>2. current <=> (req.current /\ req.slot # s)
      OBVIOUS
    <2> HIDE DEF current
    <2>3. new \in Request /\ new.current = current
          /\ new.slot = req.slot /\ new.tokens = req.tokens /\ new.snaps = req.snaps
      BY <1>1, <2>1 DEF Request
    <2> HIDE DEF new
    <2> QED
      BY <2>1, <2>2, <2>3
  <1>2. CASE req = NoRequest
    <2> DEFINE current == req.current /\ req.slot # s
               new == [req EXCEPT !.current = current]
    <2>1. req = [slot |-> 0, tokens |-> Root, snaps |-> {}, current |-> FALSE]
      BY <1>2 DEF NoRequest
    <2>2. current = FALSE /\ NotCurrent(req, s) = new
      BY <2>1 DEF NotCurrent
    <2> HIDE DEF current
    <2>3. new = req
      BY <2>1, <2>2
    <2> HIDE DEF new
    <2>4. NotCurrent(req, s) = req
      BY <2>2, <2>3
    <2>5. ~req.current
      BY <2>1
    <2>6. ~NotCurrent(req, s).current
      BY <2>4, <2>5, Zenon
    <2> QED
      BY <1>2, <2>4, <2>5, <2>6
  <1> QED
    BY <1>1, <1>2

LEMMA EngineStaysTyped ==
    ASSUME DInv, [Next]_vars
    PROVE  EngineTyped'
  <1>0. /\ EngineTyped /\ WriterTyped /\ ReaderTyped /\ IndexTyped
        /\ Conversations \subseteq Names /\ Prompts \subseteq Conversations
    BY NamesAre DEF DInv
  <1>1. links' \in [Slots -> Names \cup {Root}]
    <2>1. links \in [Slots -> Names \cup {Root}]
      BY <1>0 DEF EngineTyped
    <2>2. CASE \E f : links' = [s \in Slots |-> IF links[s] = f THEN Root ELSE links[s]]
      BY <2>1, <2>2
    <2>3. CASE \E f : links' = LinksWithout(f)
      BY <2>1, <2>3 DEF LinksWithout
    <2>4. CASE \E s : links' = [links EXCEPT ![s] = Root]
      BY <2>1, <2>4
    <2>5. CASE UNCHANGED links
      BY <2>1, <2>5
    <2>6. CASE NoteHydrated
      BY <1>0, <2>1, <2>6 DEF NoteHydrated, ReaderTyped
    <2>7. CASE LinkWritten
      <3>1. History \in Names
        BY <1>0, <2>7 DEF LinkWritten, At, WriterTyped, Writers, History, Request
      <3> QED
        BY <2>1, <2>7, <3>1 DEF LinkWritten
    <2>8. CASE Crash
      BY <2>8 DEF Crash, NoMemory
    <2>9. CASE ReadsRot
      <3>1. CASE reader.next = reader.leaf
        BY <2>3, <2>9, <3>1 DEF ReadsRot
      <3>2. CASE reader.next # reader.leaf
        <4> DEFINE mid == LinksWithout(reader.next)
        <4>1. mid \in [Slots -> Names \cup {Root}]
          BY <2>1 DEF LinksWithout
        <4>2. links' = [s \in Slots |-> IF mid[s] = reader.leaf THEN Root ELSE mid[s]]
          BY <2>9, <3>2 DEF ReadsRot, ForgetStale
        <4> HIDE DEF mid
        <4> QED
          BY <4>1, <4>2
      <3> QED
        BY <3>1, <3>2
    <2> QED
      BY <2>2, <2>3, <2>4, <2>5, <2>6, <2>7, <2>8, <2>9
         DEF Next, Engine, Writer, Environment, vars, Serve, Unlink, QueueWrite, ChooseStored,
             OpenFails, ReadNext, Refresh, TurnDown, ForgetStale, Claim, PlanWrite, ReadForSplit,
             PutFile, RecordPut, PutFails, Backfill, NameSuperseded, CondemnSuperseded, Condemn,
             PickVictim, Erase, WithinBudget, Scan, Rot
  <1>2. holds' \in [Slots -> Conversations \cup {Root}]
    <2>1. holds \in [Slots -> Conversations \cup {Root}]
      BY <1>0 DEF EngineTyped
    <2>2. CASE \E s : holds' = [holds EXCEPT ![s] = Root]
      BY <2>1, <2>2
    <2>3. CASE UNCHANGED holds
      BY <2>1, <2>3
    <2>4. ASSUME NEW s \in Slots, NEW h \in Conversations, Serve(s, h)
          PROVE  holds' \in [Slots -> Conversations \cup {Root}]
      BY <2>1, <2>4 DEF Serve
    <2>5. CASE NoteHydrated
      BY <1>0, <2>1, <2>5 DEF NoteHydrated, ReaderTyped
    <2>6. CASE Crash
      BY <2>6 DEF Crash, NoMemory
    <2> QED
      BY <2>2, <2>3, <2>4, <2>5, <2>6
         DEF Next, Engine, Writer, Environment, vars, Unlink, QueueWrite, ChooseStored,
             OpenFails, ReadNext, ReadsRot, Refresh, TurnDown, Claim, PlanWrite, ReadForSplit,
             PutFile, RecordPut, PutFails, Backfill, LinkWritten, NameSuperseded,
             CondemnSuperseded, PickVictim, Erase, WithinBudget, Scan, Rot
  <1>3. pending' \in Seq(Request)
    <2>1. pending \in Seq(Request)
      BY <1>0 DEF EngineTyped
    <2>2. CASE UNCHANGED pending
      BY <2>1, <2>2
    <2>3. ASSUME NEW s \in Slots, Unlink(s)
          PROVE  pending' \in Seq(Request)
      <3>1. \A i \in DOMAIN pending : NotCurrent(pending[i], s) \in Request
        BY <2>1, NotCurrentIs
      <3>2. pending' = [i \in DOMAIN pending |-> NotCurrent(pending[i], s)]
        BY <2>3 DEF Unlink
      <3>3. DOMAIN pending = 1..Len(pending) /\ Len(pending) \in Nat
        BY <2>1
      <3> QED
        BY <3>1, <3>2, <3>3
    <2>4. ASSUME NEW s \in Slots, NEW snaps \in Snapshots[holds[s]], QueueWrite(s, snaps)
          PROVE  pending' \in Seq(Request)
      <3>1. holds[s] \in Conversations
        BY <1>0, <2>4 DEF QueueWrite, EngineTyped
      <3>2. snaps \subseteq 1..Len(holds[s])
        BY <3>1, TierConstantsOK DEF TierConstantsOK
      <3>3. Len(holds[s]) \in Nat
        BY <3>1, <1>0, NamesAre
      <3>4. [slot |-> s, tokens |-> holds[s], snaps |-> snaps, current |-> TRUE] \in Request
        BY <3>1, <3>2, <3>3 DEF Request
      <3>5. OthersPending(s) \in Seq(Request)
        BY <2>1, OthersAre
      <3> QED
        BY <2>4, <3>4, <3>5, AppendProperties DEF QueueWrite
    <2>5. CASE Claim
      BY <2>1, <2>5 DEF Claim
    <2>6. CASE Crash
      BY <2>6 DEF Crash, NoMemory
    <2> QED
      BY <2>2, <2>3, <2>4, <2>5, <2>6
         DEF Next, Engine, Writer, Environment, vars, Serve, ChooseStored, NoteHydrated,
             OpenFails, ReadNext, ReadsRot, Refresh, TurnDown, PlanWrite, ReadForSplit,
             PutFile, RecordPut, PutFails, Backfill, LinkWritten, NameSuperseded,
             CondemnSuperseded, PickVictim, Erase, WithinBudget, Scan, Rot
  <1>4. up' \in {"down", "opening", "up"}
    BY <1>0 DEF EngineTyped, Next, Engine, Writer, Environment, vars, Unlink, Serve, QueueWrite,
           ChooseStored, NoteHydrated, OpenFails, ReadNext, ReadsRot, Refresh, TurnDown, Claim,
           PlanWrite, ReadForSplit, PutFile, RecordPut, PutFails, Backfill, LinkWritten,
           NameSuperseded, CondemnSuperseded, PickVictim, Erase, WithinBudget, Crash, Scan, Rot
  <1>5. up' = "down" => DOMAIN index' = {} /\ At("idle")' /\ reader'.pc = "idle"
    <2>1. CASE Crash
      <3>1. DOMAIN index' = {} /\ writer' = IdleWriter /\ reader' = IdleReader
        BY <2>1 DEF Crash, NoMemory
      <3> QED
        BY <3>1 DEF IdleWriter, IdleReader, At
    <2>2. CASE up = "down" /\ ~Crash /\ up' = "down"
      <3>1. At("idle") /\ reader.pc = "idle" /\ DOMAIN index = {}
        BY <1>0, <2>2 DEF EngineTyped
      <3>2. UNCHANGED <<writer, reader, index>>
        BY <2>2, <3>1 DEF At, Next, Engine, Writer, Environment, vars, EngineFree, Unlink, Serve,
           QueueWrite, ChooseStored, NoteHydrated, OpenFails, ReadNext, ReadsRot, Refresh, TurnDown,
           Running, Claim, PlanWrite, ReadForSplit, PutFile, RecordPut, PutFails, Backfill,
           LinkWritten, NameSuperseded, CondemnSuperseded, PickVictim, Erase, WithinBudget, Scan, Rot
      <3> QED
        BY <3>1, <3>2 DEF At
    <2>3. CASE up # "down" /\ ~Crash
      BY <2>3 DEF Next, Engine, Writer, Environment, vars, Unlink, Serve, QueueWrite,
           ChooseStored, NoteHydrated, OpenFails, ReadNext, ReadsRot, Refresh, TurnDown, Claim,
           PlanWrite, ReadForSplit, PutFile, RecordPut, PutFails, Backfill, LinkWritten,
           NameSuperseded, CondemnSuperseded, PickVictim, Erase, WithinBudget, Scan, Rot
    <2> QED
      BY <2>1, <2>2, <2>3
  <1> QED
    BY <1>1, <1>2, <1>3, <1>4, <1>5 DEF EngineTyped

---------------------------------------------------------------------------
(* The writer's plan.                                                      *)

LEMMA IdleIs == IdleWriter \in Writers /\ Fits(IdleWriter) /\ Stands(IdleWriter)
                /\ IdleWriter.pc = "idle" /\ IdleWriter.req = NoRequest
  <1>1. NoPut \in Put
    BY DEF NoPut, Put, Roles
  <1> QED
    BY <1>1 DEF IdleWriter, Writers, Stages, Fits, Stands

\* A request that is planned for.
LEMMA RequestIs ==
    ASSUME NEW w \in Writers,
           w.pc \in {"locate", "split", "put", "record", "backfill", "link"}
    PROVE  /\ w.req \in Request /\ w.req.tokens \in Conversations
           /\ w.req.tokens \in Names /\ w.req.tokens \in Seq(Nat) /\ w.req.tokens # Root
           /\ w.req.snaps \subseteq 1..Len(w.req.tokens) /\ Len(w.req.tokens) \in Nat
  BY NamesAre DEF Writers, Request

\* The tail of a plan that has come to it.
LEMMA TailFits ==
    ASSUME NEW w \in Writers, w.pc = "put", NEW start \in Nat, start < Len(w.req.tokens),
           w.put = [name |-> w.req.tokens, start |-> start, role |-> "tail",
                    snaps |-> {s \in w.req.snaps : s > start}]
    PROVE  Fits(w) /\ (Placed(Upto(w.req.tokens, start)) => Stands(w))
  <1>1. /\ w.put.name = w.req.tokens /\ w.put.start = start /\ w.put.role = "tail"
        /\ w.put.snaps = {s \in w.req.snaps : s > start}
    OBVIOUS
  <1>2. w.req.tokens # Root /\ w.req.snaps \subseteq 1..Len(w.req.tokens) /\ Len(w.req.tokens) \in Nat
    BY RequestIs
  <1>3. w.put.snaps \subseteq (start + 1)..Len(w.req.tokens)
    BY <1>1, <1>2
  <1>4. PutFits(w)
    BY <1>1, <1>2, <1>3 DEF PutFits, Spans
  <1> QED
    BY <1>1, <1>4 DEF Fits, Stands

\* What follows a put, done or not, fits; it stands if the put did, and is on
\* the disk if it was done.
Follows(w, done, new) ==
    /\ new \in Writers /\ Fits(new)
    /\ Stands(w) /\ (done => Placed(w.put.name)) => Stands(new)
    /\ new.pc \in {"put", "backfill", "link", "idle"} /\ new.req \in {w.req, NoRequest}

LEMMA AfterPutIs ==
    ASSUME NEW w \in Writers, w.pc \in {"put", "record"}, w.req = writer.req, PutFits(w),
           NEW done \in BOOLEAN
    PROVE  Follows(w, done, AfterPut(w, done))
  <1> DEFINE new == AfterPut(w, done)
             h == w.req.tokens
  <1>1. /\ w.req \in Request /\ h \in Names /\ h # Root
        /\ w.req.snaps \subseteq 1..Len(h) /\ Len(h) \in Nat
    BY RequestIs
  <1>2. NoPut \in Put /\ w.put \in Put /\ w.rest \in Put /\ w.at \in Nat /\ w.boundary \in Nat
        /\ w.put.role # "none" /\ w.put.role \in Roles
    BY DEF NoPut, Put, Roles, Writers, PutFits
  <1>3. CASE w.put.role = "base" /\ done
    <2>1. new = [w EXCEPT !.pc = "put", !.put = w.rest, !.rest = NoPut, !.boundary = 0]
      BY <1>3 DEF AfterPut
    <2>2. /\ new.pc = "put" /\ new.put = w.rest /\ new.req = w.req /\ new.at = w.at
      BY <2>1 DEF Writers
    <2>3. /\ w.rest.role = "rest" /\ w.rest.name # Root
          /\ Spans(w.rest.name, w.rest.start, w.rest.snaps)
          /\ Upto(w.rest.name, w.rest.start) = w.put.name /\ w.put.name = Upto(h, w.at)
          /\ w.at < Len(h)
      BY <1>3 DEF PutFits
    <2>4. new \in Writers
      <3> DEFINE rest == w.rest
                 none == NoPut
                 zero == 0
      <3>1. new = [w EXCEPT !.pc = "put", !.put = rest, !.rest = none, !.boundary = zero]
        BY <2>1
      <3>2. rest \in Put /\ none \in Put /\ zero \in Nat
        BY <1>2
      <3> HIDE DEF new, rest, none, zero
      <3> QED
        BY <1>1, <3>1, <3>2 DEF Writers, Stages
    <2> HIDE DEF new
    <2>5. PutFits(new)
      BY <2>2, <2>3 DEF PutFits
    <2>6. Stands(w) /\ (done => Placed(w.put.name)) => Stands(new)
      BY <1>3, <2>2, <2>3 DEF Stands
    <2>7. Follows(w, done, new)
      BY <2>2, <2>4, <2>5, <2>6 DEF Fits, Follows
    <2> QED
      BY <2>7 DEF new
  <1>4. CASE w.put.role = "base" /\ ~done
    <2>1. new = [IdleWriter EXCEPT !.pc = "backfill", !.req = w.req, !.fresh = w.fresh,
                                   !.at = w.boundary]
      BY <1>4 DEF AfterPut
    <2>2. new \in Writers /\ new.pc = "backfill" /\ new.req = w.req /\ new.at = w.boundary
      BY <1>1, <1>2, <2>1, IdleIs DEF Writers, Stages
    <2>3. w.boundary < Len(h)
      BY <1>4 DEF PutFits
    <2> HIDE DEF new
    <2>4. Stands(w) => Stands(new)
      BY <1>4, <2>2 DEF Stands
    <2>5. Follows(w, done, new)
      BY <2>2, <2>3, <2>4 DEF Fits, Follows
    <2> QED
      BY <2>5 DEF new
  <1>5. CASE w.put.role = "rest"
    <2>1. new = [w EXCEPT !.pc = "backfill", !.put = NoPut]
      BY <1>5 DEF AfterPut
    <2>2. new \in Writers /\ new.pc = "backfill" /\ new.req = w.req /\ new.at = w.at
      BY <1>1, <1>2, <2>1 DEF Writers, Stages
    <2>3. w.at < Len(h)
      BY <1>5 DEF PutFits
    <2> HIDE DEF new
    <2>4. Stands(w) => Stands(new)
      BY <1>5, <2>2 DEF Stands
    <2>5. Follows(w, done, new)
      BY <2>2, <2>3, <2>4 DEF Fits, Follows
    <2> QED
      BY <2>5 DEF new
  <1>6. CASE w.put.role = "backfill"
    <2> DEFINE tail == [name |-> h, start |-> w.at, role |-> "tail",
                        snaps |-> {s \in w.req.snaps : s > w.at}]
    <2>1. new = [w EXCEPT !.pc = "put", !.put = tail]
      BY <1>6 DEF AfterPut, TailPut, History
    <2>2. tail \in Put
      BY <1>1, <1>2 DEF Put, Roles
    <2>3. new \in Writers /\ new.pc = "put" /\ new.put = tail /\ new.req = w.req
      <3> HIDE DEF tail
      <3> QED
        BY <1>1, <2>1, <2>2 DEF Writers, Stages
    <2>4. w.at < Len(h)
      BY <1>6 DEF PutFits
    <2> HIDE DEF new
    <2>5. Fits(new) /\ (Placed(Upto(h, w.at)) => Stands(new))
      BY <1>2, <2>3, <2>4, TailFits
    <2>6. Stands(w) => Placed(Upto(h, w.at))
      BY <1>6 DEF Stands
    <2>7. Follows(w, done, new)
      BY <2>3, <2>5, <2>6 DEF Follows
    <2> QED
      BY <2>7 DEF new
  <1>7. CASE w.put.role = "tail" /\ done
    <2> DEFINE none == NoPut
               zero == 0
    <2>1. new = [w EXCEPT !.pc = "link", !.put = none, !.at = zero]
      BY <1>7 DEF AfterPut
    <2>2. none \in Put /\ zero \in Nat
      BY <1>2
    <2> HIDE DEF none, zero
    <2>3. new \in Writers /\ new.pc = "link" /\ new.req = w.req
      BY <1>1, <2>1, <2>2 DEF Writers, Stages
    <2> HIDE DEF new
    <2>4. Follows(w, done, new)
      BY <2>3 DEF Fits, Stands, Follows
    <2> QED
      BY <2>4 DEF new
  <1>8. CASE w.put.role = "tail" /\ ~done
    <2>1. new = IdleWriter
      BY <1>8 DEF AfterPut
    <2>2. Follows(w, done, IdleWriter)
      BY IdleIs DEF Follows
    <2> HIDE DEF new
    <2>3. Follows(w, done, new)
      BY <2>1, <2>2
    <2> QED
      BY <2>3 DEF new
  <1> QED
    BY <1>2, <1>3, <1>4, <1>5, <1>6, <1>7, <1>8 DEF Roles

\* What the index lists, as what is walked down from.
LEMMA IndexIsTree ==
    ASSUME IndexTyped
    PROVE  /\ Tree(index) /\ IsFiniteSet(DOMAIN index)
           /\ \A f \in DOMAIN index : index[f].snaps \subseteq Nat
           /\ DOMAIN index \subseteq Names
  BY NamesAre DEF IndexTyped, Tree, Spans

LEMMA FilesAreTree ==
    ASSUME FilesTyped
    PROVE  Tree(disk)
  BY NamesAre DEF FilesTyped, Tree, Spans

\* What is chained in the tree of names is chained in the histories they are of.
LEMMA ParentOfPart ==
    ASSUME NEW h \in Seq(Nat), NEW n \in 0..Len(h), NEW tree, Tree(tree),
           NEW f \in DOMAIN tree, f = Upto(h, n)
    PROVE  ParentOf(tree, f) = Upto(h, tree[f].start) /\ tree[f].start < n
  <1>1. f \in Seq(Nat) /\ Len(f) = n
    BY UptoIs
  <1>2. tree[f].start \in 0..n /\ tree[f].start < n
    BY <1>1 DEF Tree
  <1>3. Upto(Upto(h, n), tree[f].start) = Upto(h, tree[f].start)
    BY <1>2, UptoUpto
  <1> QED
    BY <1>2, <1>3 DEF ParentOf

\* A parent is in front of its child.
LEMMA ParentIsInFront ==
    ASSUME NEW tree, Tree(tree), NEW f \in DOMAIN tree
    PROVE  IsStrictPrefix(ParentOf(tree, f), f)
  <1>1. f \in Seq(Nat) /\ tree[f].start \in 0..Len(f) /\ tree[f].start < Len(f)
    BY DEF Tree
  <1> DEFINE n == tree[f].start
             p == Upto(f, n)
  <1>2. p \in Seq(Nat) /\ Len(p) = n
    BY <1>1, UptoIs
  <1>3. Upto(p, n) = p
    BY <1>2, UptoAll
  <1>4. SubSeq(p, 1, Len(p)) = SubSeq(f, 1, Len(p))
    BY <1>2, <1>3 DEF Upto
  <1>5. p # f /\ Len(p) <= Len(f)
    BY <1>1, <1>2
  <1>6. IsStrictPrefix(p, f)
    <2> HIDE DEF p
    <2> QED
      BY <1>4, <1>5 DEF IsStrictPrefix, IsPrefix
  <1> QED
    BY <1>6 DEF ParentOf

\* What is listed is there, and so is what it chains onto, by the index and by
\* itself.
Chained == \A f \in DOMAIN index :
              /\ Placed(f) /\ Placed(ParentOf(index, f))
              /\ f \in DOMAIN disk => Placed(ParentOf(disk, f))
LEMMA ListedIsChained ==
    ASSUME DInv, Running, ~At("record")
    PROVE  Chained
  <1> SUFFICES ASSUME NEW f \in DOMAIN index
               PROVE  /\ Placed(f) /\ Placed(ParentOf(index, f))
                      /\ f \in DOMAIN disk => Placed(ParentOf(disk, f))
    BY DEF Chained
  <1>1. IndexTyped /\ IndexCountsDisk /\ IndexIsAccurate /\ KnownAreChained
    BY DEF DInv
  <1>2. f \in DOMAIN disk
    BY <1>1 DEF IndexCountsDisk, Running
  <1>3. Placed(ParentOf(disk, f))
    BY <1>1, <1>2 DEF KnownAreChained
  <1>4. Placed(ParentOf(index, f))
    <2>1. CASE f \in misread
      <3>1. IsStrictPrefix(ParentOf(index, f), f)
        BY <1>1, IndexIsTree, ParentIsInFront
      <3> QED
        BY <2>1, <3>1 DEF Placed, Doubtful
    <2>2. CASE f \notin misread
      <3>1. index[f].start = disk[f].start
        BY <1>1, <1>2, <2>2 DEF IndexIsAccurate, Describes, Running
      <3> QED
        BY <1>3, <3>1 DEF ParentOf
    <2> QED
      BY <2>1, <2>2
  <1> QED
    BY <1>2, <1>3, <1>4 DEF Placed

LEMMA PlanWriteIs ==
    ASSUME DInv, NEW longer \in BOOLEAN, PlanWrite(longer)
    PROVE  /\ writer' \in Writers /\ Fits(writer') /\ writer'.pc \in {"idle", "split", "backfill"}
           /\ writer'.pc = "split" => writer'.path \in DOMAIN index
           /\ Chained => Stands(writer')
  <1> DEFINE located == Locate(index, History, longer)
             h == History
  <1>1. WriterTyped /\ IndexTyped /\ writer.pc = "locate" /\ writer \in Writers
    BY DEF DInv, PlanWrite, At, WriterTyped
  <1>2. /\ writer.req \in Request /\ h \in Seq(Nat) /\ h \in Names /\ Len(h) \in Nat /\ h # Root
    BY <1>1, RequestIs DEF History
  <1>3. located \in Standpoint(index, h)
    BY <1>1, <1>2, IndexIsTree, LocateIs
  <1>4. MaxDepth \in Nat \ {0} /\ DOMAIN index \subseteq Names /\ Tree(index)
    BY <1>1, IndexIsTree, TreeConstantsOK DEF TreeConstantsOK
  <1> HIDE DEF located
  <1>5. /\ located.boundary \in Nat /\ located.depth \in Nat /\ located.at \in Nat
        /\ located.tail \in DOMAIN index \cup {Root} /\ located.diverged \in DOMAIN index \cup {Root}
        /\ located.boundary <= Len(h) /\ located.tail = Upto(h, located.boundary)
        /\ located.depth > 0 => located.boundary > 0
        /\ located.diverged # Root =>
            /\ 0 < located.at /\ located.at < Len(located.diverged) /\ located.at <= Len(h)
            /\ Upto(located.diverged, located.at) = Upto(h, located.at)
    BY <1>3 DEF Standpoint
  <1>6. Chained => Placed(Upto(h, located.boundary))
    BY <1>5 DEF Chained, Placed
  <1>7. CASE ~WorthWriting(located, Len(h))
    <2>1. writer' = IdleWriter
      BY <1>7 DEF PlanWrite, located
    <2> QED
      BY <2>1, IdleIs
  <1>8. CASE WorthWriting(located, Len(h)) /\ CanSplit(index, located)
    <2>1. writer' = [writer EXCEPT !.pc = "split", !.path = located.diverged,
                                   !.at = located.at, !.boundary = located.boundary]
      BY <1>8 DEF PlanWrite, located
    <2>2. located.diverged # Root /\ located.boundary < Len(h)
      BY <1>8 DEF CanSplit, WorthWriting
    <2> DEFINE path == located.diverged
               at == located.at
               boundary == located.boundary
    <2>3. path \in Names /\ path \in DOMAIN index /\ at \in Nat /\ boundary \in Nat
      BY <1>4, <1>5, <2>2
    <2> HIDE DEF path, at, boundary
    <2>4. /\ writer' \in Writers /\ writer'.pc = "split" /\ writer'.path = path
          /\ writer'.at = at /\ writer'.boundary = boundary /\ writer'.req = writer.req
      <3>1. writer' = [writer EXCEPT !.pc = "split", !.path = path, !.at = at, !.boundary = boundary]
        BY <2>1 DEF path, at, boundary
      <3> QED
        BY <1>1, <1>2, <2>3, <3>1 DEF Writers, Stages
    <2>5. Fits(writer')
      BY <1>5, <2>2, <2>3, <2>4 DEF Fits, path, at, boundary, History
    <2>6. Chained => Stands(writer')
      BY <1>6, <2>4 DEF Stands, boundary, History
    <2> QED
      BY <2>3, <2>4, <2>5, <2>6
  <1>9. CASE WorthWriting(located, Len(h)) /\ ~CanSplit(index, located)
    <2> DEFINE start == TailStart(index, located)
    <2>1. writer' = [IdleWriter EXCEPT !.pc = "backfill", !.req = writer.req, !.at = start]
      BY <1>9 DEF PlanWrite, BackfillAt, located
    <2>2. located.boundary < Len(h)
      BY <1>9 DEF WorthWriting
    <2>3. /\ start \in Nat /\ start < Len(h)
          /\ Chained => Placed(Upto(h, start))
      <3>1. CASE located.depth + 1 > MaxDepth
        <4>1. located.boundary > 0 /\ located.boundary \in 1..Len(h) /\ located.boundary \in 0..Len(h)
          BY <1>4, <1>5, <3>1
        <4>2. located.tail # Root
          BY <1>2, <1>5, <4>1, UptoIs
        <4>3. located.tail \in DOMAIN index /\ start = index[located.tail].start
          BY <1>5, <3>1, <4>2 DEF TailStart
        <4>4. start \in Nat
          BY <1>4, <4>3 DEF Tree
        <4>5. ParentOf(index, located.tail) = Upto(h, start) /\ start < located.boundary
          BY <1>2, <1>4, <1>5, <4>1, <4>3, ParentOfPart
        <4> HIDE DEF start
        <4> QED
          BY <1>2, <1>5, <2>2, <4>3, <4>4, <4>5 DEF Chained
      <3>2. CASE ~(located.depth + 1 > MaxDepth)
        <4>1. start = located.boundary
          BY <3>2 DEF TailStart
        <4> QED
          BY <1>5, <1>6, <2>2, <4>1
      <3> QED
        BY <3>1, <3>2
    <2> HIDE DEF start
    <2>4. /\ writer' \in Writers /\ writer'.pc = "backfill" /\ writer'.req = writer.req
          /\ writer'.at = start
      BY <1>2, <2>1, <2>3, IdleIs DEF Writers, Stages
    <2> QED
      BY <2>3, <2>4 DEF Fits, Stands, History
  <1> QED
    BY <1>7, <1>8, <1>9

LEMMA BackfillAtIs ==
    ASSUME NEW at \in Nat, at < Len(History), writer.req \in Request, BackfillAt(at)
    PROVE  /\ writer' \in Writers /\ Fits(writer') /\ writer'.pc = "backfill"
           /\ Placed(Upto(History, at)) => Stands(writer')
  <1>1. writer' = [IdleWriter EXCEPT !.pc = "backfill", !.req = writer.req, !.at = at]
    BY DEF BackfillAt
  <1>2. /\ writer' \in Writers /\ writer'.pc = "backfill" /\ writer'.req = writer.req
        /\ writer'.at = at
    BY <1>1, IdleIs DEF Writers, Stages
  <1> QED
    BY <1>2 DEF Fits, Stands, History

LEMMA CutSnaps ==
    ASSUME NEW a \in Nat, NEW b \in Nat, a < b, NEW l \in Nat,
           NEW S, S \subseteq (a + 1)..l, NEW T, T \subseteq {b}
    PROVE  /\ {s \in S : s <= b} \cup T \subseteq (a + 1)..b
           /\ {s \in S : s <= b} \cup T \subseteq Nat
           /\ {s \in S : s > b} \subseteq (b + 1)..l /\ {s \in S : s > b} \subseteq Nat
  <1>1. \A s \in S : s \in (a + 1)..l
    OBVIOUS
  <1>2. \A s \in S : s <= b => s \in (a + 1)..b
    BY <1>1
  <1>3. \A s \in S : s > b => s \in (b + 1)..l
    BY <1>1
  <1>4. b \in (a + 1)..b
    OBVIOUS
  <1>5. (a + 1)..b \subseteq Nat /\ (b + 1)..l \subseteq Nat
    OBVIOUS
  <1> QED
    BY <1>2, <1>3, <1>4, <1>5

LEMMA ReadForSplitIs ==
    ASSUME DInv, ReadForSplit
    PROVE  /\ writer' \in Writers /\ Fits(writer') /\ writer'.pc \in {"put", "backfill"}
           /\ Chained /\ Stands(writer) => Stands(writer')
  <1> DEFINE h == History
             path == writer.path
             at == writer.at
             file == disk[path]
  <1>1. /\ writer.pc = "split" /\ writer \in Writers /\ Fits(writer) /\ FilesTyped
        /\ (path \in DOMAIN disk => path \in DOMAIN index)
    BY DEF DInv, ReadForSplit, At, WriterTyped, PlansFit
  <1>2. /\ writer.req \in Request /\ h \in Seq(Nat) /\ Len(h) \in Nat /\ writer.boundary \in Nat
        /\ writer.req.snaps \subseteq 1..Len(h) /\ at \in Nat
    BY <1>1, RequestIs DEF History, Writers
  <1>3. /\ path \in Names /\ 0 < at /\ at < Len(path) /\ at <= Len(h)
        /\ Upto(path, at) = Upto(h, at) /\ writer.boundary < Len(h)
    BY <1>1 DEF Fits, History
  <1>4. path \in Seq(Nat) /\ Len(path) \in Nat /\ path # Root
    BY <1>3, NamesAre
  <1>5. Stands(writer) => Placed(Upto(h, writer.boundary))
    BY <1>1 DEF Stands, History
  <1>6. CASE path \in DOMAIN disk /\ file.ok /\ CutFits(file)
    <2> DEFINE start == file.start
               base == [name |-> Upto(h, at), start |-> start, role |-> "base",
                        snaps |-> {s \in file.snaps : s <= at} \cup ({at} \cap writer.req.snaps)]
               rest == [name |-> path, start |-> at, role |-> "rest",
                        snaps |-> {s \in file.snaps : s > at}]
               none == Root
    <2>1. writer' = [writer EXCEPT !.pc = "put", !.path = none, !.put = base, !.rest = rest]
      BY <1>6 DEF ReadForSplit, BasePut, RestPut
    <2>2. /\ start \in Nat /\ start < at /\ at < Len(h)
          /\ file.snaps \subseteq (start + 1)..Len(path)
      BY <1>1, <1>6 DEF FilesTyped, Spans, CutFits, History
    <2>3. at \in 1..Len(path) /\ at \in 0..Len(h) /\ at \in 0..Len(path)
      BY <1>2, <1>3, <1>4
    <2>4. Upto(h, at) \in Names /\ Upto(h, at) # Root /\ Len(Upto(h, at)) = at
      <3>1. Upto(path, at) \in Names
        BY <1>3, <2>3, NamesAre
      <3> QED
        BY <1>2, <1>3, <2>3, <3>1, UptoIs
    <2>5. /\ base.snaps \subseteq (start + 1)..at /\ base.snaps \subseteq Nat
          /\ rest.snaps \subseteq (at + 1)..Len(path) /\ rest.snaps \subseteq Nat
      <3>1. {at} \cap writer.req.snaps \subseteq {at} /\ Len(path) \in Nat
        BY <1>4
      <3> HIDE DEF start, at, path, file
      <3> QED
        BY <1>2, <2>2, <3>1, CutSnaps
    <2>6. base \in Put /\ rest \in Put
      BY <1>2, <1>3, <2>2, <2>4, <2>5 DEF Put, Roles
    <2>7. /\ base.name = Upto(h, at) /\ base.start = start /\ base.role = "base"
          /\ rest.name = path /\ rest.start = at /\ rest.role = "rest"
      OBVIOUS
    <2>8. Spans(base.name, base.start, base.snaps) /\ Spans(rest.name, rest.start, rest.snaps)
      <3> HIDE DEF base, rest
      <3> QED
        BY <1>3, <2>2, <2>4, <2>5, <2>7 DEF Spans
    <2> HIDE DEF base, rest, none
    <2>9. /\ writer' \in Writers /\ writer'.pc = "put" /\ writer'.put = base /\ writer'.rest = rest
          /\ writer'.req = writer.req /\ writer'.at = at /\ writer'.boundary = writer.boundary
      <3>1. none \in Names \cup {Root}
        BY DEF none
      <3> QED
        BY <1>1, <1>2, <2>1, <2>6, <3>1 DEF Writers, Stages
    <2>10. PutFits(writer')
      BY <1>2, <1>3, <1>4, <2>2, <2>4, <2>7, <2>8, <2>9 DEF PutFits, History
    <2>11. Chained => Placed(Upto(base.name, base.start))
      <3>1. Upto(Upto(h, at), start) = Upto(h, start) /\ Upto(Upto(path, at), start) = Upto(path, start)
        <4>1. start \in 0..at
          BY <2>2, <1>2
        <4> HIDE DEF start
        <4> QED
          BY <1>2, <1>4, <2>3, <4>1, UptoUpto
      <3>2. Upto(base.name, base.start) = ParentOf(disk, path)
        BY <1>3, <2>7, <3>1 DEF ParentOf
      <3> QED
        BY <1>1, <1>6, <3>2 DEF Chained
    <2>12. Chained /\ Stands(writer) => Stands(writer')
      BY <1>5, <2>7, <2>9, <2>11 DEF Stands, History
    <2> QED
      BY <2>9, <2>10, <2>12 DEF Fits
  <1>7. CASE ~(path \in DOMAIN disk /\ file.ok /\ CutFits(file))
    <2>1. BackfillAt(writer.boundary)
      BY <1>7 DEF ReadForSplit
    <2> QED
      BY <1>2, <1>3, <1>5, <2>1, BackfillAtIs
  <1> QED
    BY <1>6, <1>7

LEMMA BackfillIs ==
    ASSUME DInv, Backfill
    PROVE  /\ writer' \in Writers /\ Fits(writer') /\ writer'.pc = "put"
           /\ Chained /\ Stands(writer) => Stands(writer')
  <1> DEFINE h == History
             at == writer.at
             parent == Upto(h, at)
  <1>1. writer.pc = "backfill" /\ writer \in Writers /\ Fits(writer) /\ FilesTyped
    BY DEF DInv, Backfill, At, WriterTyped, PlansFit
  <1>2. /\ writer.req \in Request /\ h \in Seq(Nat) /\ Len(h) \in Nat /\ h \in Names /\ h # Root
        /\ writer.req.snaps \subseteq 1..Len(h) /\ at \in Nat /\ at < Len(h)
    BY <1>1, RequestIs DEF History, Writers, Fits
  <1>3. Stands(writer) => Placed(parent)
    BY <1>1 DEF Stands, History
  <1>4. PICK put : /\ writer' = [writer EXCEPT !.pc = "put", !.put = put]
                   /\ \/ put = TailPut(at)
                      \/ put = BackfillPut(parent) /\ at > 0 /\ parent \in DOMAIN disk
                         /\ parent \in DOMAIN index
    BY DEF Backfill
  <1>5. CASE put = TailPut(at)
    <2>1. put = [name |-> h, start |-> at, role |-> "tail", snaps |-> {s \in writer.req.snaps : s > at}]
      BY <1>5 DEF TailPut
    <2>2. put \in Put
      <3>1. {s \in writer.req.snaps : s > at} \subseteq Nat
        BY <1>2
      <3> QED
        BY <1>2, <2>1, <3>1 DEF Put, Roles
    <2>3. writer' \in Writers /\ writer'.pc = "put" /\ writer'.put = put /\ writer'.req = writer.req
      BY <1>1, <1>2, <1>4, <2>2 DEF Writers, Stages
    <2>4. Fits(writer') /\ (Placed(parent) => Stands(writer'))
      <3>1. writer'.put = [name |-> writer'.req.tokens, start |-> at, role |-> "tail",
                           snaps |-> {s \in writer'.req.snaps : s > at}]
        BY <2>1, <2>3 DEF History
      <3>2. at < Len(writer'.req.tokens)
        BY <1>2, <2>3 DEF History
      <3>3. Fits(writer') /\ (Placed(Upto(writer'.req.tokens, at)) => Stands(writer'))
        BY <1>2, <2>3, <3>1, <3>2, TailFits
      <3> QED
        BY <2>3, <3>3 DEF History
    <2> QED
      BY <1>3, <2>3, <2>4
  <1>6. CASE put = BackfillPut(parent) /\ at > 0 /\ parent \in DOMAIN disk /\ parent \in DOMAIN index
    <2> DEFINE start == disk[parent].start
               snaps == disk[parent].snaps \cup {at}
    <2>1. put = [name |-> parent, start |-> start, role |-> "backfill", snaps |-> snaps]
      BY <1>6 DEF BackfillPut
    <2>2. at \in 0..Len(h) /\ at \in 1..Len(h)
      BY <1>2, <1>6
    <2>3. Len(parent) = at /\ parent # Root
      BY <1>2, <1>6, <2>2, UptoIs
    <2>4. parent \in Names
      BY <1>1, <1>6 DEF FilesTyped
    <2>5. start \in Nat /\ start < at /\ snaps \subseteq (start + 1)..at /\ snaps \subseteq Nat
      <3>1. start \in Nat /\ start < Len(parent) /\ disk[parent].snaps \subseteq (start + 1)..Len(parent)
        BY <1>1, <1>6 DEF FilesTyped, Spans
      <3> HIDE DEF parent, start
      <3> QED
        BY <1>2, <2>3, <3>1
    <2> HIDE DEF start, snaps
    <2>6. put \in Put
      BY <2>1, <2>4, <2>5 DEF Put, Roles
    <2>7. put.name = parent /\ put.start = start /\ put.role = "backfill" /\ put.snaps = snaps
      BY <2>1
    <2>8. /\ writer' \in Writers /\ writer'.pc = "put" /\ writer'.put = put
          /\ writer'.req = writer.req /\ writer'.at = at
      BY <1>1, <1>2, <1>4, <2>6 DEF Writers, Stages
    <2>9. PutFits(writer')
      <3> HIDE DEF parent
      <3> QED
        BY <1>2, <2>3, <2>5, <2>7, <2>8 DEF PutFits, Spans, History
    <2>10. Chained => Placed(Upto(parent, start))
      BY <1>6 DEF Chained, ParentOf, start
    <2>11. Chained /\ Stands(writer) => Stands(writer')
      BY <1>3, <2>7, <2>8, <2>10 DEF Stands, History
    <2> QED
      BY <2>8, <2>9, <2>11 DEF Fits
  <1> QED
    BY <1>4, <1>5, <1>6

---------------------------------------------------------------------------
(* The plan from one step to the next.                                     *)

SamePlan == writer' = writer \/ \E s : writer' = [writer EXCEPT !.req = NotCurrent(@, s)]

LEMMA SamePlanIs ==
    ASSUME writer \in Writers, SamePlan
    PROVE  /\ writer' \in Writers /\ (Fits(writer) => Fits(writer'))
           /\ Stands(writer) => Stands(writer')
           /\ writer'.pc = writer.pc /\ writer'.path = writer.path /\ writer'.put = writer.put
           /\ writer'.doomed = writer.doomed
  <1>1. CASE writer' = writer
    BY <1>1
  <1>2. ASSUME NEW s, writer' = [writer EXCEPT !.req = NotCurrent(@, s)]
        PROVE  /\ writer' \in Writers /\ (Fits(writer) => Fits(writer'))
               /\ Stands(writer) => Stands(writer')
               /\ writer'.pc = writer.pc /\ writer'.path = writer.path /\ writer'.put = writer.put
               /\ writer'.doomed = writer.doomed
    <2> DEFINE req == NotCurrent(writer.req, s)
    <2>1. /\ req \in Request \cup {NoRequest} /\ (writer.req \in Request => req \in Request)
          /\ req.tokens = writer.req.tokens
      <3>1. writer.req \in Request \cup {NoRequest}
        BY DEF Writers
      <3> QED
        BY <3>1, NotCurrentIs
    <2>2. writer' = [writer EXCEPT !.req = req]
      BY <1>2
    <2> HIDE DEF req
    <2>3. /\ writer'.req = req /\ writer'.pc = writer.pc /\ writer'.path = writer.path
          /\ writer'.put = writer.put /\ writer'.rest = writer.rest /\ writer'.at = writer.at
          /\ writer'.boundary = writer.boundary /\ writer'.doomed = writer.doomed
      BY <2>2 DEF Writers
    <2>4. writer' \in Writers
      BY <2>1, <2>2 DEF Writers
    <2>5. Fits(writer) => Fits(writer')
      BY <2>1, <2>3 DEF Fits, PutFits
    <2>6. Stands(writer) => Stands(writer')
      BY <2>1, <2>3 DEF Stands
    <2> QED
      BY <2>3, <2>4, <2>5, <2>6
  <1> QED
    BY <1>1, <1>2 DEF SamePlan

\* What the engine and a file that goes bad do to the plan's files.
Others == Engine \/ (\E f \in DOMAIN disk : Rot(f)) \/ UNCHANGED vars
Undisturbed ==
    /\ DOMAIN disk' \subseteq DOMAIN disk
    /\ \A f \in DOMAIN disk' : f \in DOMAIN index => f \in DOMAIN index'
    /\ At("record") => /\ writer.put.name \in DOMAIN disk'
                       /\ disk'[writer.put.name] = disk[writer.put.name]

LEMMA OthersAreHarmless ==
    ASSUME DInv, Others
    PROVE  SamePlan /\ Undisturbed
  <1>1. /\ FilesTyped /\ IndexTyped /\ WriterTyped /\ EngineTyped
        /\ At("record") => writer.put.name \in DOMAIN disk /\ disk[writer.put.name].ok
    BY DEF DInv, PlansFit
  <1>2. SamePlan
    BY DEF SamePlan, Others, Engine, vars, Serve, Unlink, QueueWrite, ChooseStored, OpenFails,
           ReadNext, ReadsRot, Refresh, TurnDown, NoteHydrated, Rot
  <1>3. CASE disk' = disk /\ DOMAIN index' = DOMAIN index
    <2>1. At("record") => writer.put.name \in DOMAIN disk
      BY <1>1
    <2>2. DOMAIN disk' \subseteq DOMAIN disk /\ \A f \in DOMAIN disk' : f \in DOMAIN index => f \in DOMAIN index'
      BY <1>3
    <2>3. At("record") => /\ writer.put.name \in DOMAIN disk'
                          /\ disk'[writer.put.name] = disk[writer.put.name]
      BY <1>3, <2>1
    <2> QED
      BY <1>2, <2>2, <2>3 DEF Undisturbed
  <1>4. CASE ReadsRot
    <2>1. Drops(reader.next) /\ reader.next \in DOMAIN disk /\ ~disk[reader.next].ok
      BY <1>1, <1>4, ReadsRotDrops DEF ReadsRot
    <2>2. At("record") => writer.put.name # reader.next
      BY <1>1, <2>1
    <2>3. /\ DOMAIN disk' = DOMAIN disk \ {reader.next}
          /\ \A f \in DOMAIN disk' : disk'[f] = disk[f]
          /\ DOMAIN index' = DOMAIN index \ {reader.next}
      BY <2>1 DEF Drops, Without
    <2>4. At("record") => writer.put.name \in DOMAIN disk
      BY <1>1
    <2>5. At("record") => /\ writer.put.name \in DOMAIN disk'
                          /\ disk'[writer.put.name] = disk[writer.put.name]
      BY <2>2, <2>3, <2>4
    <2> QED
      BY <1>2, <2>3, <2>5 DEF Undisturbed
  <1>5. ASSUME NEW f \in DOMAIN disk, Rot(f)
        PROVE  Undisturbed
    <2>1. index' = index /\ disk' = [disk EXCEPT ![f].ok = FALSE]
          /\ (At("record") => f # writer.put.name)
      BY <1>5 DEF Rot
    <2> QED
      BY <1>1, <1>2, <2>1 DEF Undisturbed
  <1>6. CASE OpenFails
    BY <1>1, <1>3, <1>6, ForgetKeeps DEF OpenFails
  <1>7. CASE TurnDown
    BY <1>1, <1>3, <1>7, ForgetKeeps DEF TurnDown
  <1>8. CASE Refresh
    BY <1>3, <1>8 DEF Refresh
  <1> QED
    BY <1>2, <1>3, <1>4, <1>5, <1>6, <1>7, <1>8
       DEF Others, Engine, vars, Serve, Unlink, QueueWrite, ChooseStored, ReadNext, NoteHydrated

\* The steps of the writer, and of a process that dies or starts, that leave
\* no plan behind.
Unplanned == {"locate", "supersede", "evict", "condemn", "erase", "idle"}
LEMMA UnplannedIs ==
    ASSUME NEW w, w.pc \in Unplanned
    PROVE  Fits(w) /\ Stands(w)
  BY DEF Unplanned, Fits, Stands

LEMMA CondemningIs ==
    ASSUME writer \in Writers, NEW doomed \in SUBSET Names, Condemning(doomed),
           writer.pc \in {"supersede", "condemn"}
    PROVE  /\ writer' \in Writers /\ writer'.pc \in Unplanned /\ writer'.doomed = doomed
           /\ writer'.pc \in {"evict", "condemn"}
  <1> DEFINE pc == IF doomed = {} THEN "evict" ELSE "condemn"
  <1>1. pc \in {"evict", "condemn"}
    OBVIOUS
  <1>2. writer' = [writer EXCEPT !.pc = pc, !.doomed = doomed]
    BY DEF Condemning
  <1> HIDE DEF pc
  <1> QED
    BY <1>1, <1>2 DEF Writers, Stages, Unplanned

LEMMA UnplannedSteps ==
    ASSUME DInv,
           \/ Claim \/ LinkWritten \/ NameSuperseded \/ Erase \/ WithinBudget \/ Crash
           \/ \E f \in writer.doomed : CondemnSuperseded(f)
           \/ \E f \in DOMAIN index : PickVictim(f)
           \/ \E faulty : Scan(faulty)
    PROVE  writer' \in Writers /\ writer'.pc \in Unplanned
  <1>1. writer \in Writers /\ IndexTyped /\ EngineTyped
    BY DEF DInv, WriterTyped
  <1>2. CASE Claim
    <2>1. Head(pending) \in Request
      <3>1. pending \in Seq(Request) /\ pending # <<>>
        BY <1>1, <1>2 DEF EngineTyped, Claim
      <3> QED
        BY <3>1, HeadTailProperties
    <2>2. writer' = [IdleWriter EXCEPT !.pc = "locate", !.req = Head(pending)]
      BY <1>2 DEF Claim
    <2> QED
      BY <2>1, <2>2, IdleIs DEF Writers, Stages, Unplanned
  <1>3. CASE LinkWritten
    <2>1. writer' = [writer EXCEPT !.pc = "supersede"]
      BY <1>3 DEF LinkWritten, Goto
    <2> QED
      BY <1>1, <2>1 DEF Writers, Stages, Unplanned
  <1>4. CASE NameSuperseded
    <2>1. Superseded(index, History, writer.fresh, Linked) \subseteq Names
      BY <1>1 DEF Superseded, IndexTyped
    <2> QED
      BY <1>1, <1>4, <2>1, CondemningIs DEF NameSuperseded, At
  <1>5. ASSUME NEW f \in writer.doomed, CondemnSuperseded(f)
        PROVE  writer' \in Writers /\ writer'.pc \in Unplanned
    <2>1. writer.doomed \ {f} \in SUBSET Names
      BY <1>1 DEF Writers
    <2> QED
      BY <1>1, <1>5, <2>1, CondemningIs DEF CondemnSuperseded, At
  <1>6. ASSUME NEW f \in DOMAIN index, PickVictim(f)
        PROVE  writer' \in Writers /\ writer'.pc \in Unplanned
    <2>1. f \in Names /\ writer' = [writer EXCEPT !.pc = "erase", !.path = f]
      BY <1>1, <1>6 DEF PickVictim, IndexTyped
    <2> QED
      BY <1>1, <2>1 DEF Writers, Stages, Unplanned
  <1>7. CASE Erase
    <2>1. writer' = [writer EXCEPT !.pc = "evict", !.path = Root]
      BY <1>7 DEF Erase
    <2> QED
      BY <1>1, <2>1 DEF Writers, Stages, Unplanned
  <1>8. CASE WithinBudget \/ Crash
    <2>1. writer' = IdleWriter
      BY <1>8 DEF WithinBudget, Crash
    <2> QED
      BY <2>1, IdleIs DEF Unplanned
  <1>9. CASE \E faulty : Scan(faulty)
    <2>1. writer' = [IdleWriter EXCEPT !.pc = "evict"]
      BY <1>9 DEF Scan
    <2> QED
      BY <2>1, IdleIs DEF Writers, Stages, Unplanned
  <1> QED
    BY <1>2, <1>3, <1>4, <1>5, <1>6, <1>7, <1>8, <1>9

\* Every step, sorted by what it does to the plan.
LEMMA Steps ==
    ASSUME [Next]_vars
    PROVE  \/ Others
           \/ \E longer \in BOOLEAN : PlanWrite(longer)
           \/ ReadForSplit \/ Backfill \/ PutFile \/ RecordPut \/ PutFails
           \/ Claim \/ LinkWritten \/ NameSuperseded \/ Erase \/ WithinBudget \/ Crash
           \/ \E f \in writer.doomed : CondemnSuperseded(f)
           \/ \E f \in DOMAIN index : PickVictim(f)
           \/ \E faulty \in {{}} \cup {{f} : f \in DOMAIN disk} : Scan(faulty)
  BY DEF Others, Next, Writer, Environment

LEMMA PutFileIs ==
    ASSUME DInv, PutFile
    PROVE  /\ writer' \in Writers /\ Fits(writer') /\ writer'.pc = "record"
           /\ Stands(writer) => Stands(writer')
           /\ writer'.put.name \in DOMAIN disk'
           /\ disk'[writer'.put.name] =
                [start |-> writer'.put.start, snaps |-> writer'.put.snaps, ok |-> TRUE]
  <1>1. writer \in Writers /\ writer.pc = "put" /\ Fits(writer)
    BY DEF DInv, WriterTyped, PlansFit, PutFile, At
  <1>2. writer' = [writer EXCEPT !.pc = "record"]
    BY DEF PutFile, Goto
  <1>3. /\ writer' \in Writers /\ writer'.pc = "record" /\ writer'.put = writer.put
        /\ writer'.req = writer.req /\ writer'.at = writer.at /\ writer'.rest = writer.rest
        /\ writer'.boundary = writer.boundary
    BY <1>1, <1>2 DEF Writers, Stages
  <1>4. Fits(writer')
    BY <1>1, <1>3 DEF Fits, PutFits
  <1>5. Stands(writer) => Stands(writer')
    BY <1>1, <1>3 DEF Stands
  <1>6. /\ writer.put.name \in DOMAIN disk'
        /\ disk'[writer.put.name] =
              [start |-> writer.put.start, snaps |-> writer.put.snaps, ok |-> TRUE]
    BY DEF PutFile, With
  <1> QED
    BY <1>3, <1>4, <1>5, <1>6

\* A put that is recorded, or that failed.
LEMMA PutEnds ==
    ASSUME DInv, RecordPut \/ PutFails
    PROVE  /\ writer' \in Writers /\ Fits(writer')
           /\ writer'.pc \in {"put", "backfill", "link", "idle"}
           /\ writer'.req \in {writer.req, NoRequest}
           /\ Stands(writer) => Stands(writer')
  <1>1. writer \in Writers /\ Fits(writer)
    BY DEF DInv, WriterTyped, PlansFit
  <1>2. CASE RecordPut
    <2> DEFINE fresh == writer.fresh \cup {writer.put.name}
               w == [writer EXCEPT !.fresh = fresh]
    <2>1. writer' = AfterPut(w, TRUE) /\ writer.pc = "record"
      BY <1>2 DEF RecordPut, At
    <2>2. fresh \in SUBSET Names
      <3>1. writer.put.name \in Names
        BY <1>1, <2>1 DEF Writers, Put, Fits, PutFits
      <3> QED
        BY <1>1, <3>1 DEF Writers
    <2> HIDE DEF fresh
    <2>3. /\ w \in Writers /\ w.pc = "record" /\ w.req = writer.req /\ w.put = writer.put
          /\ w.rest = writer.rest /\ w.at = writer.at /\ w.boundary = writer.boundary
      BY <1>1, <2>1, <2>2 DEF Writers
    <2> HIDE DEF w
    <2>4. PutFits(w)
      BY <1>1, <2>1, <2>3 DEF Fits, PutFits
    <2>5. Follows(w, TRUE, writer')
      BY <2>1, <2>3, <2>4, AfterPutIs
    <2>6. Placed(w.put.name)
      <3>1. PlansFit
        BY DEF DInv
      <3>2. writer.put.name \in DOMAIN disk
        BY <2>1, <3>1 DEF PlansFit, At
      <3> QED
        BY <2>3, <3>2 DEF Placed
    <2>7. Stands(writer) => Stands(w)
      BY <2>1, <2>3 DEF Stands
    <2> QED
      BY <2>3, <2>5, <2>6, <2>7 DEF Follows
  <1>3. CASE PutFails
    <2>1. writer' = AfterPut(writer, FALSE) /\ writer.pc = "put"
      BY <1>3 DEF PutFails, At
    <2>2. PutFits(writer)
      BY <1>1, <2>1 DEF Fits
    <2>3. Follows(writer, FALSE, writer')
      BY <1>1, <2>1, <2>2, AfterPutIs
    <2> QED
      BY <2>3 DEF Follows
  <1> QED
    BY <1>2, <1>3

LEMMA WriterStaysTyped ==
    ASSUME DInv, [Next]_vars
    PROVE  WriterTyped' /\ PlansFit'
  <1>1. writer \in Writers /\ Fits(writer)
    BY DEF DInv, WriterTyped, PlansFit
  <1>2. CASE Others
    <2>1. SamePlan /\ Undisturbed
      BY <1>2, OthersAreHarmless
    <2>2. /\ writer' \in Writers /\ Fits(writer') /\ writer'.pc = writer.pc
          /\ writer'.path = writer.path /\ writer'.put = writer.put
      BY <1>1, <2>1, SamePlanIs
    <2>3. /\ At("split") /\ writer.path \in DOMAIN disk => writer.path \in DOMAIN index
          /\ At("record") =>
                disk[writer.put.name] =
                  [start |-> writer.put.start, snaps |-> writer.put.snaps, ok |-> TRUE]
      BY DEF DInv, PlansFit
    <2>4. At("split") /\ writer.path \in DOMAIN disk' => writer.path \in DOMAIN index'
      BY <2>1, <2>3 DEF Undisturbed
    <2>5. At("record") =>
            /\ writer.put.name \in DOMAIN disk'
            /\ disk'[writer.put.name] =
                  [start |-> writer.put.start, snaps |-> writer.put.snaps, ok |-> TRUE]
      BY <2>1, <2>3 DEF Undisturbed
    <2> QED
      BY <2>2, <2>4, <2>5 DEF WriterTyped, PlansFit, At
  <1>3. ASSUME writer' \in Writers, Fits(writer'), writer'.pc \notin {"split", "record"}
        PROVE  WriterTyped' /\ PlansFit'
    BY <1>3 DEF WriterTyped, PlansFit, At
  <1>4. ASSUME NEW longer \in BOOLEAN, PlanWrite(longer)
        PROVE  WriterTyped' /\ PlansFit'
    <2>1. /\ writer' \in Writers /\ Fits(writer') /\ writer'.pc \in {"idle", "split", "backfill"}
          /\ writer'.pc = "split" => writer'.path \in DOMAIN index
      BY <1>4, PlanWriteIs
    <2>2. index' = index
      BY <1>4 DEF PlanWrite
    <2> QED
      BY <2>1, <2>2 DEF WriterTyped, PlansFit, At
  <1>5. CASE ReadForSplit
    BY <1>3, <1>5, ReadForSplitIs
  <1>6. CASE Backfill
    BY <1>3, <1>6, BackfillIs
  <1>7. CASE PutFile
    BY <1>7, PutFileIs DEF WriterTyped, PlansFit, At
  <1>8. CASE RecordPut \/ PutFails
    BY <1>3, <1>8, PutEnds
  <1>9. CASE \/ Claim \/ LinkWritten \/ NameSuperseded \/ Erase \/ WithinBudget \/ Crash
             \/ \E f \in writer.doomed : CondemnSuperseded(f)
             \/ \E f \in DOMAIN index : PickVictim(f)
             \/ \E faulty \in {{}} \cup {{f} : f \in DOMAIN disk} : Scan(faulty)
    <2>1. writer' \in Writers /\ writer'.pc \in Unplanned
      BY <1>9, UnplannedSteps
    <2>2. Fits(writer')
      BY <2>1, UnplannedIs
    <2> QED
      BY <1>3, <2>1, <2>2 DEF Unplanned
  <1> QED
    BY <1>2, <1>4, <1>5, <1>6, <1>7, <1>8, <1>9, Steps

---------------------------------------------------------------------------
(* The index against the files.                                            *)

\* What a scan lists.
LEMMA ScanIs ==
    ASSUME NEW faulty \in {{}} \cup {{f} : f \in DOMAIN disk}, Scan(faulty)
    PROVE  /\ DOMAIN disk' = DOMAIN index' \cup faulty /\ faulty \subseteq Unread'
           /\ DOMAIN index' \cap faulty = {}
           /\ \A f \in DOMAIN index' :
                index'[f].start = disk'[f].start /\ index'[f].snaps = disk'[f].snaps
           /\ writer'.pc = "evict"
  <1>1. faulty \subseteq Unread'
    <2>1. \A f \in faulty : faulty = {f}
      OBVIOUS
    <2>2. faulty # {} => \E f \in faulty : Fault("header", f)
      BY DEF Scan
    <2> QED
      BY <2>1, <2>2, FaultIs
  <1>2. writer'.pc = "evict"
    BY DEF Scan, IdleWriter
  <1> QED
    BY <1>1, <1>2 DEF Scan, Waiting

LEMMA CountsDisk ==
    ASSUME DInv, [Next]_vars
    PROVE  IndexCountsDisk'
  <1>0. Growing
    BY FaultsGrow
  <1>1. /\ FilesTyped /\ IndexTyped /\ WriterTyped /\ EngineTyped /\ ReaderTyped /\ PlansFit
        /\ IndexCountsDisk
    BY DEF DInv
  <1>2. ASSUME Steady, NEW gone, DOMAIN disk' = DOMAIN disk \ gone, DOMAIN index' = DOMAIN index \ gone
        PROVE  IndexCountsDisk'
    BY <1>0, <1>1, <1>2 DEF IndexCountsDisk, Steady, Growing, At
  <1>3. CASE Keeps /\ Steady
    BY <1>2, <1>3 DEF Keeps
  <1>4. CASE DropsRot /\ Steady
    BY <1>2, <1>4 DEF DropsRot, Drops, Without
  <1>5. ASSUME NEW f \in writer.doomed, CondemnSuperseded(f)
        PROVE  IndexCountsDisk'
    <2>1. Drops(f) /\ Steady
      BY <1>1, <1>5, CondemnDrops DEF CondemnSuperseded, Steady, At
    <2> QED
      BY <1>2, <2>1 DEF Drops, Without
  <1>6. CASE Erase
    <2>1. Drops(writer.path) /\ Steady
      BY <1>1, <1>6, EraseDrops DEF Erase, Steady, At
    <2> QED
      BY <1>2, <2>1 DEF Drops, Without
  <1>7. CASE PutFile
    <2>1. DOMAIN disk' = DOMAIN disk \cup {writer.put.name} /\ index' = index /\ up' = up /\ At("put")
      BY <1>7 DEF PutFile, With
    <2>2. writer'.pc = "record" /\ writer'.put = writer.put
      <3>1. writer' = [writer EXCEPT !.pc = "record"]
        BY <1>7 DEF PutFile, Goto
      <3> QED
        BY <1>1, <3>1 DEF WriterTyped, Writers
    <2> QED
      BY <1>0, <1>1, <2>1, <2>2 DEF IndexCountsDisk, Growing, At
  <1>8. CASE RecordPut
    <2>1. /\ DOMAIN index' = DOMAIN index \cup {writer.put.name} /\ disk' = disk /\ up' = up
          /\ At("record")
      BY <1>8 DEF RecordPut, With
    <2>2. writer.put.name \in DOMAIN disk
      BY <1>1, <2>1 DEF PlansFit
    <2> QED
      BY <1>0, <1>1, <2>1, <2>2 DEF IndexCountsDisk, Growing
  <1>9. CASE Refresh
    <2>1. DOMAIN index' = DOMAIN index /\ disk' = disk /\ Steady
      BY <1>9 DEF Refresh, Steady, At
    <2>2. DOMAIN disk' = DOMAIN disk \ {} /\ DOMAIN index' = DOMAIN index \ {}
      BY <2>1
    <2> QED
      BY <1>2, <2>1, <2>2
  <1>10. CASE Crash
    BY <1>10 DEF Crash, IndexCountsDisk
  <1>11. ASSUME NEW faulty \in {{}} \cup {{f} : f \in DOMAIN disk}, Scan(faulty)
         PROVE  IndexCountsDisk'
    BY <1>11, ScanIs DEF IndexCountsDisk
  <1>12. ASSUME NEW f \in DOMAIN disk, Rot(f)
         PROVE  IndexCountsDisk'
    <2>1. DOMAIN disk' = DOMAIN disk /\ index' = index /\ Steady
      BY <1>12 DEF Rot, Steady, At
    <2>2. DOMAIN disk' = DOMAIN disk \ {} /\ DOMAIN index' = DOMAIN index \ {}
      BY <2>1
    <2> QED
      BY <1>2, <2>1, <2>2
  <1> QED
    BY <1>1, <1>3, <1>4, <1>5, <1>6, <1>7, <1>8, <1>9, <1>10, <1>11, <1>12, StepIs

\* Doubts are forgotten by a scan alone.
LEMMA DoubtsStay ==
    ASSUME [Next]_vars, ~(\E faulty \in {{}} \cup {{f} : f \in DOMAIN disk} : Scan(faulty))
    PROVE  misread \subseteq misread'
  BY DEF Next, Engine, Writer, Environment, vars, Serve, Unlink, QueueWrite, ChooseStored,
         OpenFails, ReadNext, ReadsRot, Refresh, TurnDown, NoteHydrated, Claim, PlanWrite,
         ReadForSplit, PutFile, RecordPut, PutFails, Backfill, LinkWritten, NameSuperseded,
         CondemnSuperseded, PickVictim, Erase, WithinBudget, Crash, Rot

\* Of a file it does not leave in doubt, a refresh tells the index nothing new.
LEMMA RefreshIsIdle ==
    ASSUME DInv, Refresh, NEW f \in DOMAIN index \ misread',
           ~(At("record") /\ f = writer.put.name)
    PROVE  index'[f].start = index[f].start /\ index'[f].snaps = index[f].snaps
  <1> DEFINE new == [index[f] EXCEPT !.start = reader.read[f].start, !.snaps = reader.read[f].snaps]
  <1>1. /\ IndexTyped /\ EngineTyped /\ IndexCountsDisk /\ IndexIsAccurate
        /\ reader.pc = "stale"
    BY DEF DInv, Refresh
  <1>2. up # "down"
    BY <1>1 DEF EngineTyped
  <1>3. f \in DOMAIN disk /\ index[f].start = disk[f].start /\ index[f].snaps = disk[f].snaps
    <2>1. f \in DOMAIN disk
      BY <1>1, <1>2 DEF IndexCountsDisk
    <2>2. f \notin misread
      BY DEF Refresh
    <2> QED
      BY <1>1, <1>2, <2>1, <2>2 DEF IndexIsAccurate, Describes
  <1>4. index'[f] = IF f \in DOMAIN reader.read THEN new ELSE index[f]
    BY DEF Refresh
  <1>5. CASE f \in DOMAIN reader.read
    <2>1. StillThere(f)
      BY <1>3, <1>5 DEF Refresh, Overtaken, At
    <2>2. disk[f].start = reader.read[f].start /\ disk[f].snaps = reader.read[f].snaps
      BY <1>3, <2>1 DEF StillThere
    <2>3. new.start = reader.read[f].start /\ new.snaps = reader.read[f].snaps
      BY <1>1 DEF IndexTyped
    <2> HIDE DEF new
    <2> QED
      BY <1>3, <1>4, <1>5, <2>2, <2>3
  <1>6. CASE f \notin DOMAIN reader.read
    BY <1>4, <1>6
  <1> QED
    BY <1>5, <1>6

LEMMA StaysAccurate ==
    ASSUME DInv, [Next]_vars
    PROVE  IndexIsAccurate'
  <1>0. CASE \E faulty \in {{}} \cup {{f} : f \in DOMAIN disk} : Scan(faulty)
    BY <1>0, ScanIs DEF IndexIsAccurate, Describes
  <1> SUFFICES ASSUME ~(\E faulty \in {{}} \cup {{f} : f \in DOMAIN disk} : Scan(faulty))
               PROVE  IndexIsAccurate'
    BY <1>0
  <1>1. /\ FilesTyped /\ IndexTyped /\ WriterTyped /\ EngineTyped /\ PlansFit
        /\ IndexIsAccurate /\ misread \subseteq misread'
    BY DoubtsStay DEF DInv
  <1>2. ASSUME Steady, DOMAIN disk' \subseteq DOMAIN disk, Fewer(index, index'),
               \A f \in DOMAIN disk' : disk'[f].start = disk[f].start /\ disk'[f].snaps = disk[f].snaps
        PROVE  IndexIsAccurate'
    BY <1>1, <1>2 DEF IndexIsAccurate, Describes, Steady, At, Fewer
  <1>3. ASSUME Steady, NEW f, Drops(f)
        PROVE  IndexIsAccurate'
    BY <1>2, <1>3 DEF Drops, Without
  <1>4. CASE Keeps /\ Steady
    BY <1>2, <1>4 DEF Keeps
  <1>5. CASE DropsRot /\ Steady
    BY <1>3, <1>5 DEF DropsRot
  <1>6. ASSUME NEW f \in writer.doomed, CondemnSuperseded(f)
        PROVE  IndexIsAccurate'
    <2>1. Drops(f) /\ Steady
      BY <1>1, <1>6, CondemnDrops DEF CondemnSuperseded, Steady, At
    <2> QED
      BY <1>3, <2>1
  <1>7. CASE Erase
    <2>1. Drops(writer.path) /\ Steady
      BY <1>1, <1>7, EraseDrops DEF Erase, Steady, At
    <2> QED
      BY <1>3, <2>1
  <1>8. CASE PutFile
    <2>1. /\ index' = index /\ up' = up /\ At("put")
          /\ \A f \in DOMAIN disk' : f # writer.put.name => f \in DOMAIN disk /\ disk'[f] = disk[f]
      BY <1>8 DEF PutFile, With
    <2>2. writer'.pc = "record" /\ writer'.put = writer.put
      <3>1. writer' = [writer EXCEPT !.pc = "record"]
        BY <1>8 DEF PutFile, Goto
      <3> QED
        BY <1>1, <3>1 DEF WriterTyped, Writers
    <2> QED
      BY <1>1, <2>1, <2>2 DEF IndexIsAccurate, Describes, At
  <1>9. CASE RecordPut
    <2> DEFINE put == writer.put
    <2>1. /\ disk' = disk /\ up' = up /\ At("record")
          /\ index'[put.name] = [start |-> put.start, snaps |-> put.snaps, standing |-> "ready"]
          /\ \A f \in DOMAIN index' : f # put.name => f \in DOMAIN index /\ index'[f] = index[f]
      BY <1>9 DEF RecordPut, With, Entry
    <2>2. disk[put.name].start = put.start /\ disk[put.name].snaps = put.snaps
      <3>1. disk[put.name] = [start |-> put.start, snaps |-> put.snaps, ok |-> TRUE]
        BY <1>1, <2>1 DEF PlansFit
      <3> QED
        BY <3>1
    <2>3. index'[put.name].start = put.start /\ index'[put.name].snaps = put.snaps
      BY <2>1
    <2> QED
      BY <1>1, <2>1, <2>2, <2>3 DEF IndexIsAccurate, Describes
  <1>10. CASE Refresh
    <2>1. disk' = disk /\ up' = up /\ writer' = writer /\ DOMAIN index' = DOMAIN index
      BY <1>10 DEF Refresh
    <2>2. \A f \in DOMAIN index \ misread' :
            \/ At("record") /\ f = writer.put.name
            \/ index'[f].start = index[f].start /\ index'[f].snaps = index[f].snaps
      BY <1>10, RefreshIsIdle
    <2> QED
      BY <1>1, <2>1, <2>2 DEF IndexIsAccurate, Describes, At
  <1>11. CASE Crash
    BY <1>11 DEF Crash, IndexIsAccurate
  <1>13. ASSUME NEW f \in DOMAIN disk, Rot(f)
         PROVE  IndexIsAccurate'
    <2>1. /\ index' = index /\ Steady /\ disk' = [disk EXCEPT ![f].ok = FALSE]
          /\ Fewer(index, index')
      BY <1>1, <1>13, ListingIs, FewerIs DEF Rot, Steady, At
    <2>2. DOMAIN disk' = DOMAIN disk /\ \A g \in DOMAIN disk' :
            disk'[g].start = disk[g].start /\ disk'[g].snaps = disk[g].snaps
      BY <1>1, <2>1 DEF FilesTyped
    <2> QED
      BY <1>2, <2>1, <2>2
  <1> QED
    BY <1>1, <1>4, <1>5, <1>6, <1>7, <1>8, <1>9, <1>10, <1>11, <1>13, StepIs

---------------------------------------------------------------------------
(* What is chained stays chained.                                          *)

\* Nothing that was chained onto goes, but by the writer's own hand or a scan.
LEMMA PlacedStays ==
    ASSUME DInv, [Next]_vars, ~Erase, ~(\E f \in writer.doomed : CondemnSuperseded(f)),
           ~(\E faulty \in {{}} \cup {{f} : f \in DOMAIN disk} : Scan(faulty)), NEW f, Placed(f)
    PROVE  Placed(f)'
  <1>0. Growing /\ (Doubtful(f) => Doubtful(f)')
    BY FaultsGrow, DoubtsStay DEF Doubtful
  <1>1. FilesTyped /\ IndexTyped /\ WriterTyped /\ EngineTyped
    BY DEF DInv
  <1>2. CASE DOMAIN disk \subseteq DOMAIN disk'
    BY <1>0, <1>2 DEF Placed, Growing
  <1>3. CASE DropsRot
    <2>1. PICK g \in DOMAIN disk : Drops(g) /\ ~disk[g].ok
      BY <1>3 DEF DropsRot
    <2>2. g \in Rotted /\ DOMAIN disk' = DOMAIN disk \ {g}
      BY <1>1, <2>1 DEF FilesTyped, Drops, Without
    <2> QED
      BY <1>0, <2>2 DEF Placed, Growing
  <1>4. PutFile => DOMAIN disk \subseteq DOMAIN disk'
    BY DEF PutFile, With
  <1>5. RecordPut \/ Refresh \/ Crash => disk' = disk
    BY DEF RecordPut, Refresh, Crash
  <1>6. \A g \in DOMAIN disk : Rot(g) => DOMAIN disk' = DOMAIN disk
    BY DEF Rot
  <1> QED
    BY <1>1, <1>2, <1>3, <1>4, <1>5, <1>6, StepIs DEF Keeps

LEMMA StandsOn ==
    ASSUME Stands(writer'), \A f : Placed(f) => Placed(f)'
    PROVE  PlansPlaced'
  BY DEF Stands, PlansPlaced

LEMMA PlansStayPlaced ==
    ASSUME DInv, [Next]_vars
    PROVE  PlansPlaced'
  <1>1. writer \in Writers /\ Fits(writer) /\ Stands(writer)
    BY DEF DInv, WriterTyped, PlansFit, PlansPlaced
  <1>2. CASE \/ Claim \/ LinkWritten \/ NameSuperseded \/ Erase \/ WithinBudget \/ Crash
             \/ \E f \in writer.doomed : CondemnSuperseded(f)
             \/ \E f \in DOMAIN index : PickVictim(f)
             \/ \E faulty \in {{}} \cup {{f} : f \in DOMAIN disk} : Scan(faulty)
    <2>1. writer'.pc \in Unplanned
      BY <1>2, UnplannedSteps
    <2> QED
      BY <2>1 DEF Unplanned, PlansPlaced, Stands
  <1>3. CASE ~(\/ Claim \/ LinkWritten \/ NameSuperseded \/ Erase \/ WithinBudget \/ Crash
               \/ \E f \in writer.doomed : CondemnSuperseded(f)
               \/ \E f \in DOMAIN index : PickVictim(f)
               \/ \E faulty \in {{}} \cup {{f} : f \in DOMAIN disk} : Scan(faulty))
    <2>1. \A f : Placed(f) => Placed(f)'
      BY <1>3, PlacedStays
    <2>2. Stands(writer')
      <3>1. CASE Others
        BY <1>1, <3>1, OthersAreHarmless, SamePlanIs
      <3>2. ASSUME NEW longer \in BOOLEAN, PlanWrite(longer)
            PROVE  Stands(writer')
        <4>1. Chained
          BY <3>2, ListedIsChained DEF PlanWrite, At
        <4> QED
          BY <3>2, <4>1, PlanWriteIs
      <3>3. CASE ReadForSplit
        <4>1. Chained
          BY <3>3, ListedIsChained DEF ReadForSplit, At
        <4> QED
          BY <1>1, <3>3, <4>1, ReadForSplitIs
      <3>4. CASE Backfill
        <4>1. Chained
          BY <3>4, ListedIsChained DEF Backfill, At
        <4> QED
          BY <1>1, <3>4, <4>1, BackfillIs
      <3>5. CASE PutFile
        BY <1>1, <3>5, PutFileIs
      <3>6. CASE RecordPut \/ PutFails
        BY <1>1, <3>6, PutEnds
      <3> QED
        BY <1>3, <3>1, <3>2, <3>3, <3>4, <3>5, <3>6, Steps
    <2> QED
      BY <2>1, <2>2, StandsOn
  <1> QED
    BY <1>2, <1>3

StillBare(f) == Children(index', f) \subseteq misread'

LEMMA FewerChildren ==
    ASSUME DOMAIN index' \subseteq DOMAIN index, misread \subseteq misread',
           \A g \in DOMAIN index' \ misread' : index'[g].start = index[g].start,
           NEW f, Bare(f)
    PROVE  StillBare(f)
  BY DEF Bare, StillBare, Children, ParentOf

LEMMA DoomedStayBare ==
    ASSUME DInv, [Next]_vars
    PROVE  DoomedAreBare'
  <1>0. CASE \E faulty \in {{}} \cup {{f} : f \in DOMAIN disk} : Scan(faulty)
    BY <1>0, ScanIs DEF DoomedAreBare, At
  <1> SUFFICES ASSUME ~(\E faulty \in {{}} \cup {{f} : f \in DOMAIN disk} : Scan(faulty))
               PROVE  DoomedAreBare'
    BY <1>0
  <1>1. /\ writer \in Writers /\ IndexTyped /\ WriterTyped /\ EngineTyped /\ DoomedAreBare
        /\ FilesTyped /\ misread \subseteq misread'
    BY DoubtsStay DEF DInv, WriterTyped
  <1>2. CASE writer'.pc \notin {"condemn", "erase"}
    BY <1>2 DEF DoomedAreBare, At
  <1>3. ASSUME Fewer(index, index'), NEW f, Bare(f)
        PROVE  StillBare(f)
    BY <1>1, <1>3, FewerChildren DEF Fewer
  <1>4. CASE Others
    <2>1. writer'.pc = writer.pc /\ writer'.path = writer.path /\ writer'.doomed = writer.doomed
      BY <1>1, <1>4, OthersAreHarmless, SamePlanIs
    <2>2. ASSUME NEW f, Bare(f), writer.pc \in {"condemn", "erase"}
          PROVE  StillBare(f)
      <3>0. index' = index => StillBare(f)
        BY <1>1, <2>2 DEF Bare, StillBare
      <3>1. CASE Refresh
        <4>1. DOMAIN index' = DOMAIN index /\ ~At("record")
          BY <2>2, <3>1 DEF Refresh, At
        <4>2. \A g \in DOMAIN index' \ misread' : index'[g].start = index[g].start
          BY <3>1, <4>1, RefreshIsIdle
        <4> QED
          BY <1>1, <2>2, <4>1, <4>2, FewerChildren
      <3>2. CASE \E g \in DOMAIN disk : Rot(g)
        BY <3>0, <3>2 DEF Rot
      <3>3. CASE Fewer(index, index')
        BY <1>3, <2>2, <3>3
      <3>4. CASE ReadsRot
        BY <1>1, <3>3, <3>4, ReadsRotDrops DEF Drops
      <3>5. CASE OpenFails
        <4>1. index' = index \/ ForgetStale(index, links)
          BY <3>5 DEF OpenFails
        <4> QED
          BY <1>1, <3>0, <3>3, <4>1, ForgetKeeps
      <3>6. CASE TurnDown
        <4>1. index' = index \/ ForgetStale(index, links)
          BY <3>6 DEF TurnDown
        <4> QED
          BY <1>1, <3>0, <3>3, <4>1, ForgetKeeps
      <3>7. CASE index' = index
        BY <3>0, <3>7
      <3> QED
        BY <1>4, <3>1, <3>2, <3>4, <3>5, <3>6, <3>7
           DEF Others, Engine, vars, Serve, Unlink, QueueWrite, ChooseStored, ReadNext, NoteHydrated
    <2> QED
      BY <1>1, <2>1, <2>2 DEF DoomedAreBare, At, Bare, StillBare
  <1>5. CASE NameSuperseded
    <2> DEFINE doomed == Superseded(index, History, writer.fresh, Linked)
    <2>1. \A f \in doomed : Bare(f) /\ f \in Names
      BY <1>1 DEF Superseded, IndexTyped, HasChildren, Bare
    <2>2. Condemning(doomed) /\ index' = index /\ writer.pc = "supersede"
      BY <1>5 DEF NameSuperseded, At
    <2> HIDE DEF doomed
    <2>3. writer'.doomed = doomed /\ writer'.pc \in {"evict", "condemn"}
      BY <1>1, <2>1, <2>2, CondemningIs
    <2> QED
      BY <1>1, <2>1, <2>2, <2>3 DEF DoomedAreBare, At, Bare
  <1>6. ASSUME NEW g \in writer.doomed, CondemnSuperseded(g)
        PROVE  DoomedAreBare'
    <2>1. writer.doomed \ {g} \in SUBSET Names
      BY <1>1 DEF Writers
    <2>2. writer'.doomed = writer.doomed \ {g} /\ writer'.pc \in {"evict", "condemn"}
      BY <1>1, <1>6, <2>1, CondemningIs DEF CondemnSuperseded, At
    <2>3. Fewer(index, index')
      BY <1>1, <1>6, CondemnDrops DEF CondemnSuperseded, Drops
    <2>4. \A f \in writer.doomed : Bare(f)
      BY <1>1, <1>6 DEF DoomedAreBare, CondemnSuperseded
    <2>5. \A f \in writer.doomed : StillBare(f)
      BY <1>3, <2>3, <2>4
    <2> QED
      BY <2>2, <2>5 DEF DoomedAreBare, At, Bare, StillBare
  <1>7. ASSUME NEW g \in DOMAIN index, PickVictim(g)
        PROVE  DoomedAreBare'
    <2>1. writer' = [writer EXCEPT !.pc = "erase", !.path = g] /\ index' = index
          /\ Bare(g)
      BY <1>7 DEF PickVictim, Evictable, HasChildren, Bare
    <2>2. writer'.pc = "erase" /\ writer'.path = g
      BY <1>1, <2>1 DEF Writers
    <2> QED
      BY <1>1, <2>1, <2>2 DEF DoomedAreBare, At, Bare
  <1>8. CASE \/ \E longer \in BOOLEAN : PlanWrite(longer)
             \/ ReadForSplit \/ Backfill \/ PutFile \/ RecordPut \/ PutFails
    <2>1. writer'.pc \in {"idle", "split", "backfill", "put", "record", "link"}
      BY <1>8, PlanWriteIs, ReadForSplitIs, BackfillIs, PutFileIs, PutEnds
    <2> QED
      BY <1>2, <2>1
  <1>9. CASE Claim \/ LinkWritten \/ Erase \/ WithinBudget \/ Crash
             \/ \E faulty \in {{}} \cup {{f} : f \in DOMAIN disk} : Scan(faulty)
    <2>1. writer'.pc \in {"locate", "supersede", "evict", "idle"}
      <3>1. CASE Claim
        BY <3>1 DEF Claim, IdleWriter
      <3>2. CASE LinkWritten
        BY <1>1, <3>2 DEF LinkWritten, Goto, Writers
      <3>3. CASE Erase
        BY <1>1, <3>3 DEF Erase, Writers
      <3>4. CASE WithinBudget \/ Crash
        BY <3>4 DEF WithinBudget, Crash, IdleWriter
      <3>5. CASE \E faulty \in {{}} \cup {{f} : f \in DOMAIN disk} : Scan(faulty)
        BY <3>5, ScanIs
      <3> QED
        BY <1>9, <3>1, <3>2, <3>3, <3>4, <3>5
    <2> QED
      BY <1>2, <2>1
  <1> QED
    BY <1>4, <1>5, <1>6, <1>7, <1>8, <1>9, Steps

Known == (DOMAIN disk \ Unread) \cup (DOMAIN disk \cap DOMAIN index)

StillPlaced(f) ==
    f \in DOMAIN disk' \cup {Root} \cup Rotted' \/ \E g \in misread' : IsStrictPrefix(f, g)

\* The file that goes has nothing behind it.
LEMMA BareGoes ==
    ASSUME DInv, UNCHANGED <<faults, misread>>, up # "down", ~At("record"),
           NEW f, Drops(f), Bare(f)
    PROVE  KnownAreChained'
  <1>0. Growing /\ Unread' = Unread /\ misread' = misread
    BY FaultsStay
  <1>1. /\ FilesTyped /\ IndexTyped /\ IndexCountsDisk /\ IndexIsAccurate /\ KnownAreChained
    BY DEF DInv
  <1>2. /\ DOMAIN disk' = DOMAIN disk \ {f} /\ DOMAIN index' = DOMAIN index \ {f}
        /\ \A g \in DOMAIN disk' : disk'[g] = disk[g]
    BY DEF Drops, Without
  <1>3. ASSUME NEW g \in (DOMAIN disk' \ Unread') \cup (DOMAIN disk' \cap DOMAIN index')
        PROVE  StillPlaced(ParentOf(disk', g))
    <2>1. g \in Known /\ g \in DOMAIN disk /\ disk'[g] = disk[g]
      BY <1>0, <1>2 DEF Known
    <2>2. g \in DOMAIN index /\ g # Root
      BY <1>1, <2>1, NamesAre DEF IndexCountsDisk, IndexTyped, Known
    <2>3. ParentOf(disk', g) = ParentOf(disk, g)
      BY <2>1 DEF ParentOf
    <2>4. ParentOf(disk, g) # f \/ Doubtful(ParentOf(disk, g))
      <3>1. CASE g \in misread
        BY <1>1, <2>1, <3>1, FilesAreTree, ParentIsInFront DEF Doubtful
      <3>2. CASE g \notin misread
        <4>1. index[g].start = disk[g].start
          BY <1>1, <2>1, <2>2, <3>2 DEF IndexIsAccurate, Describes
        <4>2. ParentOf(index, g) = ParentOf(disk, g)
          BY <4>1 DEF ParentOf
        <4> QED
          BY <2>2, <3>2, <4>2 DEF Bare, Children
      <3> QED
        BY <3>1, <3>2
    <2>5. Placed(ParentOf(disk, g))
      BY <1>1, <2>1 DEF KnownAreChained, Known
    <2> QED
      BY <1>0, <1>2, <2>3, <2>4, <2>5 DEF Placed, Doubtful, StillPlaced, Growing
  <1> QED
    BY <1>3 DEF KnownAreChained, StillPlaced, Placed, Doubtful

LEMMA KnownStayChained ==
    ASSUME DInv, [Next]_vars
    PROVE  KnownAreChained'
  <1>0. Growing
    BY FaultsGrow
  <1>1. /\ FilesTyped /\ IndexTyped /\ WriterTyped /\ EngineTyped /\ KnownAreChained
        /\ PlansFit /\ PlansPlaced /\ DoomedAreBare
    BY DEF DInv
  <1>2. CASE Erase
    <2>1. up # "down" /\ ~At("record") /\ UNCHANGED <<faults, misread>> /\ Bare(writer.path)
      BY <1>1, <1>2 DEF Erase, EngineTyped, DoomedAreBare, At
    <2>2. Drops(writer.path)
      BY <1>1, <1>2, EraseDrops
    <2> QED
      BY <2>1, <2>2, BareGoes
  <1>3. ASSUME NEW f \in writer.doomed, CondemnSuperseded(f)
        PROVE  KnownAreChained'
    <2>1. up # "down" /\ ~At("record") /\ UNCHANGED <<faults, misread>> /\ Bare(f)
      BY <1>1, <1>3 DEF CondemnSuperseded, EngineTyped, DoomedAreBare, At
    <2>2. Drops(f)
      BY <1>1, <1>3, CondemnDrops DEF CondemnSuperseded
    <2> QED
      BY <2>1, <2>2, BareGoes
  <1>4. ASSUME NEW faulty \in {{}} \cup {{f} : f \in DOMAIN disk}, Scan(faulty)
        PROVE  KnownAreChained'
    <2> DEFINE sound == {f \in DOMAIN disk : disk[f].ok}
               found == [f \in sound \ faulty |-> disk[f]]
               linked == {f \in DOMAIN found : Complete(found, f)}
               held == Waiting(found, faulty)
    <2>1. /\ DOMAIN disk' = linked \cup held \cup faulty /\ DOMAIN index' = linked \cup held
          /\ \A f \in DOMAIN disk' : disk'[f] = disk[f]
      BY <1>4 DEF Scan
    <2>2. faulty \subseteq Unread' /\ DOMAIN index' \cap faulty = {}
      BY <1>4, ScanIs
    <2>3. /\ DOMAIN found \subseteq DOMAIN disk /\ faulty \cap DOMAIN found = {}
          /\ \A f \in DOMAIN found : found[f] = disk[f]
          /\ held = {f \in DOMAIN found : Chain(found, f) \cap faulty # {}}
      BY DEF Waiting
    <2> HIDE DEF found
    <2>4. Tree(found)
      BY <1>1, <2>3, FilesAreTree DEF Tree
    <2>5. ASSUME NEW f \in linked \cup held
          PROVE  ParentOf(found, f) \in linked \cup held \cup faulty \cup {Root}
      <3>1. CASE f \in linked
        BY <2>4, <3>1, ParentIsComplete
      <3>2. CASE f \in held
        <4>1. f \in DOMAIN found /\ Chain(found, f) \cap faulty # {}
          BY <2>3, <3>2
        <4>2. \/ ParentOf(found, f) \in faulty \cup {Root}
              \/ /\ ParentOf(found, f) \in DOMAIN found
                 /\ Chain(found, ParentOf(found, f)) \cap faulty # {}
          BY <2>3, <2>4, <4>1, ParentWaitsToo
        <4> QED
          BY <2>3, <4>2
      <3> QED
        BY <2>5, <3>1, <3>2
    <2>6. ASSUME NEW f \in (DOMAIN disk' \ Unread') \cup (DOMAIN disk' \cap DOMAIN index')
          PROVE  StillPlaced(ParentOf(disk', f))
      <3>1. f \in linked \cup held
        BY <2>1, <2>2
      <3>2. f \in DOMAIN found
        BY <2>3, <3>1
      <3>3. ParentOf(disk', f) = ParentOf(found, f)
        BY <2>1, <2>3, <3>1, <3>2 DEF ParentOf
      <3> QED
        BY <2>1, <2>5, <3>1, <3>3 DEF StillPlaced
    <2> QED
      BY <2>6 DEF KnownAreChained, StillPlaced, Placed, Doubtful
  <1>5. CASE ~(\/ Erase \/ \E f \in writer.doomed : CondemnSuperseded(f)
               \/ \E faulty \in {{}} \cup {{f} : f \in DOMAIN disk} : Scan(faulty))
    <2>1. \A f : Placed(f) => StillPlaced(f)
      BY <1>5, PlacedStays DEF Placed, Doubtful, StillPlaced
    <2>2. ASSUME \A f \in DOMAIN disk' : f \in DOMAIN disk /\ disk'[f].start = disk[f].start,
                 DOMAIN index' \subseteq DOMAIN index
          PROVE  KnownAreChained'
      <3>1. ASSUME NEW f \in (DOMAIN disk' \ Unread') \cup (DOMAIN disk' \cap DOMAIN index')
            PROVE  StillPlaced(ParentOf(disk', f))
        <4>1. f \in Known /\ ParentOf(disk', f) = ParentOf(disk, f)
          BY <1>0, <2>2 DEF Known, Growing, ParentOf
        <4>2. Placed(ParentOf(disk, f))
          BY <1>1, <4>1 DEF KnownAreChained, Known
        <4> QED
          BY <2>1, <4>1, <4>2
      <3> QED
        BY <3>1 DEF KnownAreChained, StillPlaced, Placed, Doubtful
    <2>3. CASE Keeps
      BY <2>2, <2>3 DEF Keeps
    <2>4. CASE DropsRot
      BY <2>2, <2>4 DEF DropsRot, Drops, Without
    <2>5. CASE Refresh
      BY <2>2, <2>5 DEF Refresh
    <2>6. CASE Crash
      BY <2>2, <2>6 DEF Crash
    <2>7. ASSUME NEW f \in DOMAIN disk, Rot(f)
          PROVE  KnownAreChained'
      <3>1. DOMAIN disk' = DOMAIN disk /\ index' = index
            /\ \A g \in DOMAIN disk : disk'[g].start = disk[g].start
        BY <1>1, <2>7 DEF Rot, FilesTyped
      <3> QED
        BY <2>2, <3>1
    <2>8. CASE PutFile
      <3> DEFINE put == writer.put
      <3>1. /\ index' = index /\ put.name \in DOMAIN disk' /\ disk'[put.name].start = put.start
            /\ \A f \in DOMAIN disk' : f # put.name => f \in DOMAIN disk /\ disk'[f] = disk[f]
        BY <2>8 DEF PutFile, With
      <3>2. Placed(Upto(put.name, put.start))
        BY <1>1, <2>8 DEF PlansPlaced, Stands, PutFile, At
      <3> HIDE DEF put
      <3>3. ASSUME NEW f \in (DOMAIN disk' \ Unread') \cup (DOMAIN disk' \cap DOMAIN index')
            PROVE  StillPlaced(ParentOf(disk', f))
        <4>1. CASE f = put.name
          <5>1. ParentOf(disk', f) = Upto(put.name, put.start)
            BY <3>1, <4>1 DEF ParentOf
          <5> QED
            BY <2>1, <3>2, <5>1
        <4>2. CASE f # put.name
          <5>1. f \in Known /\ ParentOf(disk', f) = ParentOf(disk, f)
            BY <1>0, <3>1, <4>2 DEF Known, Growing, ParentOf
          <5>2. Placed(ParentOf(disk, f))
            BY <1>1, <5>1 DEF KnownAreChained, Known
          <5> QED
            BY <2>1, <5>1, <5>2
        <4> QED
          BY <4>1, <4>2
      <3> QED
        BY <3>3 DEF KnownAreChained, StillPlaced, Placed, Doubtful
    <2>9. CASE RecordPut
      <3> DEFINE put == writer.put
      <3>1. /\ disk' = disk /\ writer.pc = "record"
            /\ \A f \in DOMAIN index' : f # put.name => f \in DOMAIN index
        BY <2>9 DEF RecordPut, With, At
      <3>2. Placed(Upto(put.name, put.start))
        BY <1>1, <3>1 DEF PlansPlaced, Stands
      <3>3. disk[put.name].start = put.start
        <4>1. disk[put.name] = [start |-> put.start, snaps |-> put.snaps, ok |-> TRUE]
          BY <1>1, <3>1 DEF PlansFit, At
        <4> QED
          BY <4>1
      <3> HIDE DEF put
      <3>4. ASSUME NEW f \in (DOMAIN disk' \ Unread') \cup (DOMAIN disk' \cap DOMAIN index')
            PROVE  StillPlaced(ParentOf(disk', f))
        <4>1. ParentOf(disk', f) = ParentOf(disk, f)
          BY <3>1
        <4>2. Placed(ParentOf(disk, f))
          <5>1. CASE f = put.name
            BY <3>2, <3>3, <5>1 DEF ParentOf
          <5>2. CASE f # put.name
            <6>1. f \in Known
              BY <1>0, <3>1, <5>2 DEF Known, Growing
            <6> QED
              BY <1>1, <6>1 DEF KnownAreChained, Known
          <5> QED
            BY <5>1, <5>2
        <4> QED
          BY <2>1, <4>1, <4>2
      <3> QED
        BY <3>4 DEF KnownAreChained, StillPlaced, Placed, Doubtful
    <2> QED
      BY <1>1, <1>5, <2>3, <2>4, <2>5, <2>6, <2>7, <2>8, <2>9, StepIs
  <1> QED
    BY <1>2, <1>3, <1>4, <1>5

---------------------------------------------------------------------------
(* Whose a request is, and whose a link.                                   *)

OursNext(req) == req.current /\ req.slot \notin taken' => SameStart(req.tokens, holds'[req.slot])

\* A slot that was taken over is one until it is unlinked.
LEMMA TakenStay ==
    ASSUME [Next]_vars, ~Crash, ~(\E s \in Slots : Unlink(s))
    PROVE  taken \subseteq taken'
  BY DEF Next, Engine, Writer, Environment, vars, Serve, QueueWrite, ChooseStored,
         OpenFails, ReadNext, ReadsRot, Refresh, TurnDown, NoteHydrated, Claim, PlanWrite,
         ReadForSplit, PutFile, RecordPut, PutFails, Backfill, LinkWritten, NameSuperseded,
         CondemnSuperseded, PickVictim, Erase, WithinBudget, Scan, Rot

\* What a step leaves of the requests there are: a slot that moves on from
\* what it holds without keeping the start of it is taken over.
LEMMA OursMoveOn ==
    ASSUME EngineTyped, NEW req, Ours(req), taken \subseteq taken',
           \/ UNCHANGED holds
           \/ \E s \in Slots, h \in Conversations : Serve(s, h) /\ req.slot \in Slots
           \/ /\ NoteHydrated /\ (req.current /\ req.slot = reader.slot => Awaited(reader.slot))
              /\ req.slot \in Slots /\ reader.slot \in Slots
    PROVE  OursNext(req)
  <1>1. CASE UNCHANGED holds
    BY <1>1 DEF Ours, OursNext
  <1>2. ASSUME NEW s \in Slots, NEW h \in Conversations, Serve(s, h), req.slot \in Slots,
               req.current, req.slot \notin taken'
        PROVE  SameStart(req.tokens, holds'[req.slot])
    <2>1. SameStart(req.tokens, holds[req.slot])
      BY <1>2 DEF Ours
    <2>2. holds' = [holds EXCEPT ![s] = h] /\ (holds[s] # Root => SameStart(holds[s], h))
      BY <1>2 DEF Serve
    <2>3. CASE req.slot = s
      <3>1. holds[s] # Root
        BY <2>1, <2>3, SameStartIs
      <3>2. SameStart(req.tokens, h)
        BY <2>1, <2>2, <2>3, <3>1, SameStartIs
      <3>3. holds'[s] = h
        BY <2>2 DEF EngineTyped
      <3> QED
        BY <2>3, <3>2, <3>3
    <2>4. CASE req.slot # s
      <3>1. holds'[req.slot] = holds[req.slot]
        BY <1>2, <2>2, <2>4 DEF EngineTyped
      <3> QED
        BY <2>1, <3>1
    <2> QED
      BY <2>3, <2>4
  <1>3. ASSUME NoteHydrated, req.current /\ req.slot = reader.slot => Awaited(reader.slot),
               req.slot \in Slots, reader.slot \in Slots, req.current, req.slot \notin taken'
        PROVE  SameStart(req.tokens, holds'[req.slot])
    <2>1. SameStart(req.tokens, holds[req.slot])
      BY <1>3 DEF Ours
    <2>2. req.slot # reader.slot
      BY <1>3 DEF NoteHydrated
    <2>3. holds'[req.slot] = holds[req.slot]
      BY <1>3, <2>2 DEF NoteHydrated, EngineTyped
    <2> QED
      BY <2>1, <2>3
  <1> QED
    BY <1>1, <1>2, <1>3 DEF OursNext

LEMMA HoldsChange ==
    ASSUME [Next]_vars, ~Crash, ~(\E s \in Slots : Unlink(s)), ~NoteHydrated,
           ~(\E s \in Slots, h \in Conversations : Serve(s, h))
    PROVE  UNCHANGED holds
  BY DEF Next, Engine, Writer, Environment, vars, QueueWrite, ChooseStored, OpenFails, ReadNext,
         ReadsRot, Refresh, TurnDown, Claim, PlanWrite, ReadForSplit, PutFile, RecordPut, PutFails,
         Backfill, LinkWritten, NameSuperseded, CondemnSuperseded, PickVictim, Erase,
         WithinBudget, Scan, Rot

\* A request that was a slot's is it still, unless the slot said otherwise.
LEMMA OursGoOn ==
    ASSUME DInv, [Next]_vars, ~Crash, ~(\E s \in Slots : Unlink(s)),
           NEW req \in Request \cup {NoRequest}, Ours(req),
           req = writer.req \/ \E i \in DOMAIN pending : req = pending[i]
    PROVE  OursNext(req)
  <1>1. EngineTyped /\ ReaderTyped /\ RequestsAreOurs /\ taken \subseteq taken'
    BY TakenStay DEF DInv
  <1>2. CASE req = NoRequest
    BY <1>2 DEF NoRequest, OursNext
  <1>3. CASE req \in Request
    <2>1. req.slot \in Slots
      BY <1>3 DEF Request
    <2>2. CASE NoteHydrated
      <3>1. reader.pc = "composed"
        BY <2>2 DEF NoteHydrated
      <3>2. reader.slot \in Slots
        BY <1>1, <3>1 DEF ReaderTyped
      <3>3. req.current /\ req.slot = reader.slot => Awaited(reader.slot)
        BY DEF Awaited
      <3> QED
        BY <1>1, <2>1, <2>2, <3>2, <3>3, OursMoveOn
    <2>3. CASE \E s \in Slots, h \in Conversations : Serve(s, h)
      BY <1>1, <2>1, <2>3, OursMoveOn
    <2>4. CASE UNCHANGED holds
      BY <1>1, <2>4, OursMoveOn
    <2> QED
      BY <2>2, <2>3, <2>4, HoldsChange
  <1> QED
    BY <1>2, <1>3

\* And if it did, the request is nobody's.
LEMMA OursGiveUp ==
    ASSUME EngineTyped, NEW s \in Slots, Unlink(s),
           NEW req \in Request \cup {NoRequest}, Ours(req)
    PROVE  OursNext(NotCurrent(req, s))
  <1>1. /\ NotCurrent(req, s).slot = req.slot /\ NotCurrent(req, s).tokens = req.tokens
        /\ NotCurrent(req, s).current <=> (req.current /\ req.slot # s)
    BY NotCurrentIs
  <1>2. SUFFICES ASSUME req.current, req.slot # s, req.slot \notin taken'
                 PROVE  SameStart(req.tokens, holds'[req.slot])
    BY <1>1 DEF OursNext
  <1>3. SameStart(req.tokens, holds[req.slot])
    BY <1>2 DEF Ours, Unlink
  <1>4. holds' = [holds EXCEPT ![s] = Root]
    BY DEF Unlink
  <1>5. holds'[req.slot] = holds[req.slot]
    BY <1>2, <1>4 DEF EngineTyped
  <1> QED
    BY <1>3, <1>5

LEMMA PendingStayOurs ==
    ASSUME DInv, [Next]_vars
    PROVE  \A i \in DOMAIN pending' : OursNext(pending'[i])
  <1>1. EngineTyped /\ pending \in Seq(Request) /\ \A i \in DOMAIN pending : Ours(pending[i])
    BY DEF DInv, EngineTyped, RequestsAreOurs
  <1>2. CASE Crash
    BY <1>2 DEF Crash, NoMemory
  <1>3. ASSUME NEW s \in Slots, Unlink(s)
        PROVE  \A i \in DOMAIN pending' : OursNext(pending'[i])
    <2>1. pending' = [i \in DOMAIN pending |-> NotCurrent(pending[i], s)]
      BY <1>3 DEF Unlink
    <2>2. \A i \in DOMAIN pending : OursNext(NotCurrent(pending[i], s))
      <3> TAKE i \in DOMAIN pending
      <3>1. pending[i] \in Request /\ Ours(pending[i])
        BY <1>1
      <3> QED
        BY <1>1, <1>3, <3>1, OursGiveUp
    <2> QED
      BY <2>1, <2>2
  <1> DEFINE T == {req \in Request : OursNext(req)}
  <1>4. CASE ~Crash /\ ~(\E s \in Slots : Unlink(s))
    <2>1. \A i \in DOMAIN pending : pending[i] \in T
      <3> TAKE i \in DOMAIN pending
      <3>1. pending[i] \in Request /\ Ours(pending[i])
        BY <1>1
      <3> QED
        BY <1>4, <3>1, OursGoOn
    <2>2. pending \in Seq(T)
      <3> HIDE DEF T
      <3>1. pending = [i \in 1..Len(pending) |-> pending[i]] /\ Len(pending) \in Nat
            /\ DOMAIN pending = 1..Len(pending)
        BY <1>1
      <3> QED
        BY <2>1, <3>1
    <2>3. pending' \in Seq(T)
      <3>1. CASE UNCHANGED pending
        BY <2>2, <3>1
      <3>2. CASE Claim
        <4> HIDE DEF T
        <4>1. pending # <<>> /\ pending' = Tail(pending)
          BY <3>2 DEF Claim
        <4> QED
          BY <2>2, <4>1, HeadTailProperties
      <3>3. ASSUME NEW s \in Slots, NEW snaps \in Snapshots[holds[s]], QueueWrite(s, snaps)
            PROVE  pending' \in Seq(T)
        <4> DEFINE req == [slot |-> s, tokens |-> holds[s], snaps |-> snaps, current |-> TRUE]
        <4>1. pending' = Append(OthersPending(s), req) /\ holds' = holds /\ holds[s] # Root
          BY <3>3 DEF QueueWrite
        <4>2. holds[s] \in Conversations
          BY <1>1, <4>1 DEF EngineTyped
        <4>3. snaps \subseteq 1..Len(holds[s]) /\ Len(holds[s]) \in Nat
          BY <4>2, NamesAre, TierConstantsOK DEF TierConstantsOK
        <4>4. req \in Request
          BY <4>2, <4>3 DEF Request
        <4>5. SameStart(holds[s], holds[s])
          BY <4>1 DEF SameStart
        <4>6. OursNext(req)
          BY <4>1, <4>5 DEF OursNext
        <4>7. req \in T
          BY <4>4, <4>6
        <4> HIDE DEF T, req
        <4>8. OthersPending(s) \in Seq(T)
          BY <2>2, OthersAre
        <4> QED
          BY <4>1, <4>7, <4>8, AppendProperties
      <3> QED
        BY <1>4, <3>1, <3>2, <3>3
           DEF Next, Engine, Writer, Environment, vars, Serve, NoteHydrated, ChooseStored, OpenFails,
               ReadNext, ReadsRot, Refresh, TurnDown, PlanWrite, ReadForSplit, PutFile, RecordPut,
               PutFails, Backfill, LinkWritten, NameSuperseded, CondemnSuperseded, PickVictim,
               Erase, WithinBudget, Scan, Rot
    <2>4. \A i \in DOMAIN pending' : pending'[i] \in T
      <3> HIDE DEF T
      <3> QED
        BY <2>3
    <2> QED
      BY <2>4
  <1> QED
    BY <1>2, <1>3, <1>4

\* The request of the writer is the one it had, one it claims, or none.
LEMMA WriterKeepsRequest ==
    ASSUME DInv, [Next]_vars, ~Claim, ~(\E s \in Slots : Unlink(s))
    PROVE  writer'.req \in {writer.req, NoRequest}
  <1>1. writer \in Writers /\ IndexTyped
    BY DEF DInv, WriterTyped
  <1>2. CASE Others
    BY <1>2 DEF Others, Engine, vars, Serve, QueueWrite, ChooseStored, OpenFails,
                ReadNext, ReadsRot, Refresh, TurnDown, NoteHydrated, Rot
  <1>3. ASSUME NEW longer \in BOOLEAN, PlanWrite(longer)
        PROVE  writer'.req \in {writer.req, NoRequest}
    <2>1. CASE writer' = IdleWriter
      BY <2>1 DEF IdleWriter
    <2>2. ASSUME NEW path, NEW at, NEW boundary,
                 writer' = [writer EXCEPT !.pc = "split", !.path = path, !.at = at,
                                          !.boundary = boundary]
          PROVE  writer'.req = writer.req
      BY <1>1, <2>2 DEF Writers
    <2>3. ASSUME NEW at,
                 writer' = [IdleWriter EXCEPT !.pc = "backfill", !.req = writer.req, !.at = at]
          PROVE  writer'.req = writer.req
      BY <2>3 DEF IdleWriter
    <2>4. \/ writer' = IdleWriter
          \/ \E path, at, boundary :
                writer' = [writer EXCEPT !.pc = "split", !.path = path, !.at = at, !.boundary = boundary]
          \/ \E at : writer' = [IdleWriter EXCEPT !.pc = "backfill", !.req = writer.req, !.at = at]
      BY <1>3 DEF PlanWrite, BackfillAt
    <2> QED
      BY <2>1, <2>2, <2>3, <2>4
  <1>4. CASE ReadForSplit
    <2>1. \/ \E path, put, rest :
                writer' = [writer EXCEPT !.pc = "put", !.path = path, !.put = put, !.rest = rest]
          \/ \E at : writer' = [IdleWriter EXCEPT !.pc = "backfill", !.req = writer.req, !.at = at]
      BY <1>4 DEF ReadForSplit, BackfillAt
    <2> QED
      BY <1>1, <2>1 DEF Writers, IdleWriter
  <1>5. CASE Backfill
    <2>1. \E put : writer' = [writer EXCEPT !.pc = "put", !.put = put]
      BY <1>5 DEF Backfill
    <2> QED
      BY <1>1, <2>1 DEF Writers
  <1>6. CASE RecordPut \/ PutFails
    BY <1>6, PutEnds
  <1>7. CASE PutFile \/ LinkWritten
    BY <1>1, <1>7 DEF PutFile, LinkWritten, Goto, Writers
  <1>8. CASE NameSuperseded \/ \E f \in writer.doomed : CondemnSuperseded(f)
    <2>1. \E pc, doomed : writer' = [writer EXCEPT !.pc = pc, !.doomed = doomed]
      BY <1>8 DEF NameSuperseded, CondemnSuperseded, Condemning
    <2> QED
      BY <1>1, <2>1 DEF Writers
  <1>9. CASE Erase \/ \E f \in DOMAIN index : PickVictim(f)
    <2>1. \E pc, path : writer' = [writer EXCEPT !.pc = pc, !.path = path]
      BY <1>9 DEF Erase, PickVictim
    <2> QED
      BY <1>1, <2>1 DEF Writers
  <1>10. CASE WithinBudget \/ Crash \/ \E faulty \in {{}} \cup {{f} : f \in DOMAIN disk} : Scan(faulty)
    <2>1. CASE WithinBudget
      BY <2>1 DEF WithinBudget, IdleWriter
    <2>2. CASE Crash
      BY <2>2 DEF Crash, NoMemory, IdleWriter
    <2>3. ASSUME NEW faulty \in {{}} \cup {{f} : f \in DOMAIN disk}, Scan(faulty)
          PROVE  writer'.req \in {writer.req, NoRequest}
      BY <2>3 DEF Scan, IdleWriter
    <2> QED
      BY <1>10, <2>1, <2>2, <2>3
  <1> QED
    BY <1>2, <1>3, <1>4, <1>5, <1>6, <1>7, <1>8, <1>9, <1>10, Steps

LEMMA WriterStaysOurs ==
    ASSUME DInv, [Next]_vars
    PROVE  OursNext(writer'.req)
  <1>1. /\ EngineTyped /\ writer \in Writers /\ pending \in Seq(Request)
        /\ \A i \in DOMAIN pending : Ours(pending[i])
        /\ Ours(writer.req)
    BY DEF DInv, EngineTyped, WriterTyped, RequestsAreOurs
  <1>2. writer.req \in Request \cup {NoRequest}
    BY <1>1 DEF Writers
  <1>3. OursNext(NoRequest)
    BY DEF NoRequest, OursNext
  <1>4. CASE Claim
    <2>1. /\ pending # <<>> /\ holds' = holds /\ taken' = taken
          /\ writer' = [IdleWriter EXCEPT !.pc = "locate", !.req = Head(pending)]
      BY <1>4 DEF Claim
    <2>2. writer'.req = Head(pending)
      BY <2>1 DEF IdleWriter
    <2>3. 1 \in DOMAIN pending /\ Head(pending) = pending[1]
      BY <1>1, <2>1
    <2>4. Ours(Head(pending))
      BY <1>1, <2>3
    <2> QED
      BY <2>1, <2>2, <2>4 DEF Ours, OursNext
  <1>5. ASSUME NEW s \in Slots, Unlink(s)
        PROVE  OursNext(writer'.req)
    <2>1. writer' = [writer EXCEPT !.req = NotCurrent(@, s)]
      BY <1>5 DEF Unlink
    <2>2. writer'.req = NotCurrent(writer.req, s)
      BY <1>1, <2>1 DEF Writers
    <2>3. OursNext(NotCurrent(writer.req, s))
      BY <1>1, <1>2, <1>5, OursGiveUp
    <2> QED
      BY <2>2, <2>3
  <1>6. CASE Crash
    <2>1. writer'.req = NoRequest
      BY <1>6 DEF Crash, IdleWriter
    <2> QED
      BY <1>3, <2>1
  <1>7. CASE ~Claim /\ ~Crash /\ ~(\E s \in Slots : Unlink(s))
    <2>1. OursNext(writer.req)
      BY <1>1, <1>2, <1>7, OursGoOn
    <2>2. writer'.req \in {writer.req, NoRequest}
      BY <1>7, WriterKeepsRequest
    <2> QED
      BY <1>3, <2>1, <2>2
  <1> QED
    BY <1>4, <1>5, <1>6, <1>7

LEMMA RequestsStayOurs ==
    ASSUME DInv, [Next]_vars
    PROVE  RequestsAreOurs'
  BY PendingStayOurs, WriterStaysOurs DEF RequestsAreOurs, Ours, OursNext

\* The links are left alone, or some of them cut.
Cut == \A s \in Slots : links'[s] \in {links[s], Root}

LEMMA LinksCut ==
    ASSUME EngineTyped, [Next]_vars, ~NoteHydrated, ~LinkWritten
    PROVE  Cut
  <1>1. CASE UNCHANGED links
    BY <1>1 DEF Cut
  <1>2. ASSUME NEW s \in Slots, Unlink(s)
        PROVE  Cut
    <2>1. links' = [links EXCEPT ![s] = Root]
      BY <1>2 DEF Unlink
    <2> QED
      BY <2>1 DEF Cut, EngineTyped
  <1>3. ASSUME NEW f, links' = LinksWithout(f)
        PROVE  Cut
    BY <1>3 DEF LinksWithout, Cut
  <1>4. CASE OpenFails \/ TurnDown
    BY <1>1, <1>4 DEF OpenFails, TurnDown, ForgetStale, Cut
  <1>5. CASE ReadsRot
    BY <1>3, <1>5 DEF ReadsRot, ForgetStale, LinksWithout, Cut
  <1>6. CASE ReadForSplit \/ Backfill \/ \E f \in writer.doomed : CondemnSuperseded(f)
    BY <1>1, <1>3, <1>6 DEF ReadForSplit, Backfill, CondemnSuperseded, Condemn
  <1>7. CASE Crash
    BY <1>7 DEF Crash, NoMemory, Cut
  <1> QED
    BY <1>1, <1>2, <1>4, <1>5, <1>6, <1>7
       DEF Next, Engine, Writer, Environment, vars, Serve, QueueWrite, ChooseStored, ReadNext,
           Refresh, Claim, PlanWrite, PutFile, RecordPut, PutFails, NameSuperseded, PickVictim,
           Erase, WithinBudget, Scan, Rot

LEMMA LinksStayOurs ==
    ASSUME DInv, [Next]_vars
    PROVE  LinkIsOurs'
  <1>1. /\ EngineTyped /\ ReaderTyped /\ writer \in Writers /\ RequestsAreOurs /\ LinkIsOurs
    BY DEF DInv, WriterTyped
  <1>2. SUFFICES ASSUME NEW s \in Slots, s \notin taken', links'[s] # Root
                 PROVE  SameStart(links'[s], holds'[s])
    BY DEF LinkIsOurs
  <1>3. CASE NoteHydrated
    <2>0. s \notin taken
      BY <1>2, <1>3 DEF NoteHydrated
    <2>1. /\ reader.pc = "composed" /\ holds' = [holds EXCEPT ![reader.slot] = reader.prompt]
          /\ links' = [links EXCEPT ![reader.slot] = reader.leaf]
      BY <1>3 DEF NoteHydrated
    <2>2. SameStart(reader.leaf, reader.prompt)
      BY <1>1, <2>1 DEF ReaderTyped
    <2>3. CASE s = reader.slot
      BY <1>1, <2>1, <2>2, <2>3 DEF EngineTyped
    <2>4. CASE s # reader.slot
      <3>1. links'[s] = links[s] /\ holds'[s] = holds[s]
        BY <1>1, <2>1, <2>4 DEF EngineTyped
      <3> QED
        BY <1>1, <1>2, <2>0, <3>1 DEF LinkIsOurs
    <2> QED
      BY <2>3, <2>4
  <1>4. CASE LinkWritten
    <2>1. /\ holds' = holds /\ s \notin taken
          /\ links' = IF writer.req.current THEN [links EXCEPT ![writer.req.slot] = History] ELSE links
      BY <1>2, <1>4 DEF LinkWritten
    <2>2. CASE writer.req.current /\ s = writer.req.slot
      <3>1. SameStart(History, holds[s])
        BY <1>1, <2>1, <2>2 DEF RequestsAreOurs, Ours, History
      <3>2. links'[s] = History
        BY <1>1, <2>1, <2>2 DEF EngineTyped
      <3> QED
        BY <2>1, <3>1, <3>2
    <2>3. CASE ~(writer.req.current /\ s = writer.req.slot)
      <3>1. links'[s] = links[s]
        BY <1>1, <2>1, <2>3 DEF EngineTyped
      <3> QED
        BY <1>1, <1>2, <2>1, <3>1 DEF LinkIsOurs
    <2> QED
      BY <2>2, <2>3
  <1>5. CASE ~NoteHydrated /\ ~LinkWritten
    <2>0. CASE s \in taken
      <3>1. CASE Crash
        BY <1>2, <3>1 DEF Crash, NoMemory
      <3>2. ASSUME NEW t \in Slots, Unlink(t)
            PROVE  FALSE
        <4>1. links' = [links EXCEPT ![t] = Root] /\ taken' = taken \ {t}
          BY <3>2 DEF Unlink
        <4> QED
          BY <1>1, <1>2, <2>0, <4>1 DEF EngineTyped
      <3> QED
        BY <1>2, <2>0, <3>1, <3>2, TakenStay
    <2> SUFFICES ASSUME s \notin taken
                 PROVE  SameStart(links'[s], holds'[s])
      BY <2>0
    <2>1. links'[s] = links[s] /\ SameStart(links[s], holds[s]) /\ holds[s] # Root
      BY <1>1, <1>2, <1>5, LinksCut, SameStartIs DEF Cut, LinkIsOurs
    <2>2. CASE Crash
      BY <1>2, <2>2 DEF Crash, NoMemory
    <2>3. ASSUME NEW t \in Slots, Unlink(t)
          PROVE  SameStart(links'[s], holds'[s])
      <3>1. links' = [links EXCEPT ![t] = Root] /\ holds' = [holds EXCEPT ![t] = Root]
        BY <2>3 DEF Unlink
      <3>2. s # t
        BY <1>1, <1>2, <3>1 DEF EngineTyped
      <3> QED
        BY <1>1, <2>1, <3>1, <3>2 DEF EngineTyped
    <2>4. ASSUME NEW t \in Slots, NEW h \in Conversations, Serve(t, h)
          PROVE  SameStart(links'[s], holds'[s])
      <3>1. /\ holds' = [holds EXCEPT ![t] = h]
            /\ holds[t] # Root => SameStart(holds[t], h)
        BY <2>4 DEF Serve
      <3>2. CASE s = t
        <4>1. holds'[s] = h /\ SameStart(holds[s], h)
          BY <1>1, <2>1, <3>1, <3>2 DEF EngineTyped
        <4> QED
          BY <2>1, <4>1, SameStartIs
      <3>3. CASE s # t
        BY <1>1, <2>1, <3>1, <3>3 DEF EngineTyped
      <3> QED
        BY <3>2, <3>3
    <2>5. CASE UNCHANGED holds
      BY <2>1, <2>5
    <2> QED
      BY <1>5, <2>2, <2>3, <2>4, <2>5, HoldsChange
  <1> QED
    BY <1>3, <1>4, <1>5

---------------------------------------------------------------------------
(* What holds always.                                                      *)

\* A machine that was never used has no file, no entry, no link, no plan.
LEMMA DInit == Init => DInv
  <1> SUFFICES ASSUME Init PROVE DInv
    OBVIOUS
  <1>1. DOMAIN disk = {} /\ DOMAIN index = {} /\ IsFiniteSet({})
    BY FS_EmptySet DEF Init
  <1>2. FilesTyped /\ IndexTyped
    <2>1. disk \in [DOMAIN disk -> [start : Nat, snaps : SUBSET Nat, ok : BOOLEAN]]
      BY <1>1 DEF Init
    <2>2. index \in [DOMAIN index -> [start : Nat, snaps : SUBSET Nat, standing : Standings]]
      BY <1>1 DEF Init
    <2> QED
      BY <1>1, <2>1, <2>2 DEF FilesTyped, IndexTyped
  <1>3. EngineTyped
    BY DEF Init, EngineTyped
  <1>4. reader = IdleReader /\ reader.pc = "idle"
    BY DEF Init, IdleReader
  <1>5. ReaderTyped
    BY <1>4 DEF ReaderTyped, IdleReader
  <1>6. writer = IdleWriter /\ writer.pc = "idle" /\ writer.req = NoRequest
    BY IdleIs DEF Init
  <1>7. WriterTyped /\ PlansFit /\ PlansPlaced /\ DoomedAreBare
    BY <1>6, IdleIs DEF WriterTyped, PlansFit, PlansPlaced, DoomedAreBare, At
  <1>8. IndexCountsDisk /\ IndexIsAccurate /\ KnownAreChained
    BY <1>1 DEF IndexCountsDisk, IndexIsAccurate, KnownAreChained
  <1>9. RequestsAreOurs
    <2>1. pending = <<>>
      BY DEF Init
    <2> QED
      BY <1>6, <2>1 DEF RequestsAreOurs, Ours, NoRequest
  <1>10. LinkIsOurs
    BY DEF Init, LinkIsOurs
  <1> QED
    BY <1>2, <1>3, <1>5, <1>7, <1>8, <1>9, <1>10 DEF DInv

LEMMA DNext == DInv /\ [Next]_vars => DInv'
  <1> SUFFICES ASSUME DInv, [Next]_vars PROVE DInv'
    OBVIOUS
  <1>1. FilesTyped' /\ IndexTyped' /\ EngineTyped' /\ ReaderTyped'
    BY FilesStayTyped, IndexStaysTyped, EngineStaysTyped, ReaderStaysTyped
  <1>2. WriterTyped' /\ PlansFit' /\ IndexCountsDisk'
    BY WriterStaysTyped, CountsDisk
  <1>3. (RequestsAreOurs /\ LinkIsOurs)'
    BY RequestsStayOurs, LinksStayOurs
  <1>4. (IndexIsAccurate /\ PlansPlaced /\ DoomedAreBare /\ KnownAreChained)'
    BY StaysAccurate, PlansStayPlaced, DoomedStayBare, KnownStayChained
  <1> QED
    BY <1>1, <1>2, <1>3, <1>4 DEF DInv

\* Whatever the tree, the budget and the faults: the files, the index, and
\* what every thread knows of them at its stage fit together.
THEOREM TierHoldsTogether == Spec => []DInv
  <1> QED
    BY DInit, DNext, PTL DEF Spec

\* The state of the tier is well formed: files and entries are named after a
\* beginning of a conversation and cover a span of it that is not empty, with
\* snapshots inside (SegmentHeader, Store.index).
THEOREM TierIsWellTyped == Spec => []TypeOK
  <1>1. DInv => TypeOK
    <2> SUFFICES ASSUME DInv PROVE TypeOK
      OBVIOUS
    <2>1. FilesTyped /\ IndexTyped /\ EngineTyped
      BY DEF DInv
    <2>2. \A f \in DOMAIN index : index[f].standing \in {"ready", "demoted", "held"}
      BY <2>1 DEF IndexTyped, Standings
    <2>3. \A i \in DOMAIN pending : pending[i].slot \in Slots /\ pending[i].tokens \in Conversations
      <3> TAKE i \in DOMAIN pending
      <3>1. pending[i] \in Request
        BY <2>1 DEF EngineTyped
      <3> QED
        BY <3>1 DEF Request
    <2> QED
      BY <2>1, <2>2, <2>3 DEF TypeOK, FilesTyped, IndexTyped, EngineTyped, Spans
  <1> QED
    BY <1>1, TierHoldsTogether, PTL

\* No entry outlives its file and no file escapes the budget, although the
\* writer publishes and deletes files while the engine condemns some, and
\* whatever faults and crashes come between.
THEOREM EveryFileIsCounted == Spec => []IndexCountsDisk
  <1>1. DInv => IndexCountsDisk
    BY DEF DInv
  <1> QED
    BY <1>1, TierHoldsTogether, PTL

\* No slot is ever linked to another's conversation, but one that a hydration
\* took over while a write of what it held before was under way: the epoch is
\* asked before a link is made, and what is given up takes its requests with it
\* (unlink, link_written, note_hydrated).
THEOREM LinksAreOurs == Spec => []LinkIsOurs
  <1>1. DInv => LinkIsOurs
    BY DEF DInv
  <1> QED
    BY <1>1, TierHoldsTogether, PTL

\* The index says of every file what the file holds, but of those that a
\* refresh described, since the scan, from a reading the writer had overtaken.
THEOREM IndexTellsTheTruth == Spec => []IndexIsAccurate
  <1>1. DInv => IndexIsAccurate
    BY DEF DInv
  <1> QED
    BY <1>1, TierHoldsTogether, PTL

\* And no cut, rewrite, eviction or crash leaves a file without the one it
\* chains onto, but for one that went bad or whose header was not read, or for
\* what is in front of a file that the index describes as it was.
THEOREM NothingIsOrphaned == Spec => []ChainsComplete
  <1>1. DInv => ChainsComplete
    BY DEF DInv, KnownAreChained, Placed, ChainsComplete
  <1> QED
    BY <1>1, TierHoldsTogether, PTL

---------------------------------------------------------------------------
(* The room a plan counts on.                                              *)

\* A cut puts one segment more in front of whatever is behind the segment.
MayCut(f) ==
    \A g \in DOMAIN InView(disk), m \in 0..MaxDepth - 1 :
        Up(disk, g)[m] = f => RoomBehind(disk, ParentOf(disk, f), m + 2)

\* The two parts of a cut hold what the segment does that they are cut from.
CutHolds(f, upper, lower) ==
    /\ f \in DOMAIN disk /\ MayCut(f)
    /\ disk[f].start = upper.start
    /\ disk[f].snaps \subseteq upper.snaps \cup lower.snaps

\* What a put chains onto is there in full, and leaves room for it; a cut loses
\* nothing between its two puts, and a backfill adds to what is there.
Counts(w) ==
    LET h      == w.req.tokens
        put    == w.put
        parent == Upto(put.name, put.start)
    IN  /\ RoomBehind(disk, parent, 1)
        /\ put.role = "base" =>
            /\ put.start = w.boundary /\ RoomBehind(disk, parent, 2)
            /\ CutHolds(w.rest.name, put, w.rest)
        /\ put.role = "rest" =>
            /\ parent = Upto(h, w.at)
            /\ w.pc = "put" => parent \in DOMAIN disk /\ CutHolds(put.name, disk[parent], put)
        /\ put.role = "backfill" =>
            /\ put.name = Upto(h, w.at) /\ RoomBehind(disk, put.name, 1)
            /\ put.name \in DOMAIN disk /\ disk[put.name].start = put.start
            /\ disk[put.name].snaps \subseteq put.snaps
Reaches(w) ==
    LET h == w.req.tokens
    IN  /\ w.pc = "split" =>
            /\ w.path \in DOMAIN disk /\ MayCut(w.path)
            /\ disk[w.path].start = w.boundary
            /\ RoomBehind(disk, Upto(h, w.boundary), 2)
        /\ w.pc = "backfill" => RoomBehind(disk, Upto(h, w.at), 1)
        /\ w.pc \in {"put", "record"} => Counts(w)

\* As long as nothing goes bad on the disk and the index is in no doubt.
RInv == misread = {} /\ Rotted = {} => Reaches(writer)

LEMMA HeightIs ==
    ASSUME NEW tree, NEW g \in DOMAIN tree, NEW m \in 0..MaxDepth - 1
    PROVE  Height(tree, Up(tree, g)[m]) \in Nat /\ m + 1 <= Height(tree, Up(tree, g)[m])
  <1> DEFINE f == Up(tree, g)[m]
             S == {n + 1 : n \in {k \in 0..MaxDepth - 1 : \E x \in DOMAIN tree : Up(tree, x)[k] = f}}
  <1>1. MaxDepth \in Nat
    BY TreeConstantsOK DEF TreeConstantsOK
  <1>2. S \subseteq 0..MaxDepth /\ m + 1 \in S
    BY <1>1
  <1>3. Max(S) \in S /\ \A y \in S : y <= Max(S)
    <2> HIDE DEF S
    <2> QED
      BY <1>1, <1>2, MaxIs
  <1>4. Height(tree, f) = Max(S)
    BY DEF Height
  <1> HIDE DEF S, f
  <1>5. Max(S) \in 0..MaxDepth
    BY <1>2, <1>3
  <1> QED
    BY <1>2, <1>3, <1>4, <1>5 DEF f

\* Whatever is in view and known is known with everything up to there.
LEMMA WayIsKnown ==
    ASSUME DInv, misread = {}, Running, ~At("record"), NEW f \in DOMAIN index,
           NEW g \in DOMAIN InView(disk), NEW m \in 0..MaxDepth, Up(disk, g)[m] = f
    PROVE  g \in DOMAIN index /\ Up(index, g)[m] = f
  <1>1. /\ FilesTyped /\ IndexTyped /\ IndexCountsDisk /\ IndexIsAccurate /\ up # "down"
        /\ MaxDepth \in Nat
    BY TreeConstantsOK DEF DInv, Running, TreeConstantsOK
  <1>2. Tree(disk) /\ Tree(index) /\ f # Root /\ Root \notin DOMAIN disk
    BY <1>1, FilesAreTree, IndexIsTree DEF Tree
  <1>3. g \in DOMAIN disk /\ Chain(disk, g) \cap Unread = {} /\ g \in Seq(Nat)
    BY <1>2 DEF InView, Tree
  <1>4. \A n \in 0..MaxDepth : n < m => Up(disk, g)[n] \in DOMAIN disk
    <2> TAKE n \in 0..MaxDepth
    <2>1. SUFFICES ASSUME n < m, Up(disk, g)[n] \notin DOMAIN disk PROVE FALSE
      OBVIOUS
    <2>2. n + 1 \in 0..MaxDepth /\ n + 1 > 0 /\ (n + 1) - 1 = n /\ m \in (n + 1)..MaxDepth
      BY <1>1, <2>1
    <2>3. Up(disk, g)[n + 1] = Root
      BY <1>2, <1>3, <2>1, <2>2, EndedStays
    <2>4. Up(disk, g)[m] = Root
      BY <1>2, <1>3, <2>2, <2>3, EndedForGood
    <2> QED
      BY <1>2, <2>4
  <1>5. \A n \in 0..MaxDepth : n < m => /\ Up(disk, g)[n] \in DOMAIN index
                                        /\ SameThere(disk, index, Up(disk, g)[n])
    <2> TAKE n \in 0..MaxDepth
    <2> DEFINE x == Up(disk, g)[n]
    <2>1. SUFFICES ASSUME n < m PROVE x \in DOMAIN index /\ SameThere(disk, index, x)
      OBVIOUS
    <2>2. x \in DOMAIN disk /\ x # Root
      BY <1>2, <1>4, <2>1
    <2>3. x \notin Unread
      BY <1>3, <2>2 DEF Chain
    <2> HIDE DEF x
    <2>4. x \in DOMAIN index
      BY <1>1, <2>2, <2>3 DEF IndexCountsDisk
    <2> QED
      BY <1>1, <2>2, <2>4 DEF IndexIsAccurate, Describes, SameThere
  <1>6. m \in 0..m /\ 0 \in 0..MaxDepth
    BY <1>1
  <1>7. Up(index, g)[m] = f
    <2>1. SameBefore(disk, index, g, m)
      BY <1>5 DEF SameBefore
    <2>2. SameUpTo(disk, index, g, m)
      BY <1>2, <1>3, <2>1, UpSame
    <2> QED
      BY <1>6, <2>2 DEF SameUpTo
  <1>8. g \in DOMAIN index
    <2>1. Up(disk, g)[0] = g
      BY <1>2, <1>3, UpStarts
    <2>2. CASE m = 0
      BY <2>1, <2>2
    <2>3. CASE m # 0
      BY <1>5, <1>6, <2>1, <2>3
    <2> QED
      BY <2>2, <2>3
  <1> QED
    BY <1>7, <1>8

\* Room in the index is room on the disk.
LEMMA RoomIsThere ==
    ASSUME DInv, misread = {}, Running, ~At("record"), NEW f \in Seq(Nat), NEW k \in 0..MaxDepth,
           RoomBehind(index, f, k)
    PROVE  RoomBehind(disk, f, k)
  <1>1. /\ FilesTyped /\ IndexTyped /\ IndexCountsDisk /\ IndexIsAccurate /\ up # "down"
    BY DEF DInv, Running
  <1>2. Tree(disk) /\ Tree(index)
    BY <1>1, FilesAreTree, IndexIsTree
  <1>3. \A x \in DOMAIN index : x \in DOMAIN disk /\ disk[x].start = index[x].start
    BY <1>1 DEF IndexCountsDisk, IndexIsAccurate, Describes
  <1> QED
    BY <1>2, <1>3, RoomStays

LEMMA PlanReaches ==
    ASSUME DInv, misread = {}, NEW longer \in BOOLEAN, PlanWrite(longer)
    PROVE  Reaches(writer')
  <1> DEFINE located == Locate(index, History, longer)
             h == History
  <1>1. /\ WriterTyped /\ IndexTyped /\ FilesTyped /\ writer.pc = "locate" /\ writer \in Writers
        /\ Running /\ ~At("record") /\ IndexCountsDisk /\ IndexIsAccurate /\ up # "down"
    BY DEF DInv, PlanWrite, At, WriterTyped, Running
  <1>2. h \in Seq(Nat) /\ Len(h) \in Nat
    BY <1>1, RequestIs DEF History
  <1>3. located \in Standpoint(index, h) /\ located.depth <= MaxDepth
    BY <1>1, <1>2, IndexIsTree, LocateIs
  <1>4. MaxDepth \in Nat \ {0} /\ Tree(index) /\ Tree(disk)
    BY <1>1, IndexIsTree, FilesAreTree, TreeConstantsOK DEF TreeConstantsOK
  <1> HIDE DEF located
  <1> DEFINE boundary == located.boundary
             depth == located.depth
             tail == located.tail
             path == located.diverged
  <1>5. /\ boundary \in 0..Len(h) /\ boundary \in Nat /\ depth \in 0..MaxDepth /\ depth \in Nat
        /\ tail \in DOMAIN index \cup {Root} /\ tail = Upto(h, boundary)
        /\ path \in DOMAIN index \cup {Root}
        /\ depth > 0 => boundary > 0
        /\ RoomBehind(index, tail, MaxDepth - depth)
        /\ path # Root => ParentOf(index, path) = tail
    <2>1. MaxDepth \in Nat
      BY <1>4
    <2> QED
      BY <1>2, <1>3, <2>1 DEF Standpoint
  <1>6. tail \in Seq(Nat) /\ Len(tail) = boundary /\ (boundary > 0 => tail # Root)
    BY <1>2, <1>5, UptoIs
  <1> HIDE DEF boundary, depth, tail, path
  <1>7. CASE ~WorthWriting(located, Len(h))
    <2>1. writer' = IdleWriter
      BY <1>7 DEF PlanWrite, located
    <2> QED
      BY <2>1, IdleIs DEF Reaches
  <1>8. CASE WorthWriting(located, Len(h)) /\ CanSplit(index, located)
    <2>1. writer' = [writer EXCEPT !.pc = "split", !.path = located.diverged,
                                   !.at = located.at, !.boundary = located.boundary]
      BY <1>8 DEF PlanWrite, located
    <2>2. path # Root /\ depth + Height(index, path) < MaxDepth
      BY <1>8 DEF CanSplit, path, depth
    <2>3. /\ writer'.pc = "split" /\ writer'.path = path /\ writer'.boundary = boundary
          /\ writer'.req.tokens = h
      BY <1>1, <2>1 DEF Writers, path, boundary, History
    <2>4. path \in DOMAIN index /\ ParentOf(index, path) = tail
      BY <1>5, <2>2
    <2>5. path \in DOMAIN disk /\ disk[path].start = index[path].start
      BY <1>1, <2>4 DEF IndexCountsDisk, IndexIsAccurate, Describes
    <2>6. ParentOf(disk, path) = tail /\ disk[path].start = boundary
      <3>1. index[path].start = boundary
        BY <1>4, <1>6, <2>4, ParentIsShorter
      <3> QED
        BY <2>4, <2>5, <3>1 DEF ParentOf
    <2>7. ASSUME NEW k \in 0..MaxDepth, k <= MaxDepth - depth
          PROVE  RoomBehind(disk, tail, k)
      <3>1. MaxDepth - depth \in 0..MaxDepth /\ k \in 0..(MaxDepth - depth)
        BY <1>4, <1>5, <2>7
      <3>2. RoomBehind(index, tail, k)
        BY <1>4, <1>5, <1>6, <3>1, RoomForLess
      <3> QED
        BY <1>1, <1>6, <3>2, RoomIsThere
    <2>8. \A g \in DOMAIN index, m \in 0..MaxDepth - 1 :
             Up(index, g)[m] = path => m + 2 \in 0..MaxDepth /\ m + 2 <= MaxDepth - depth
      <3> TAKE g \in DOMAIN index, m \in 0..MaxDepth - 1
      <3>1. SUFFICES ASSUME Up(index, g)[m] = path
                     PROVE  m + 2 \in 0..MaxDepth /\ m + 2 <= MaxDepth - depth
        OBVIOUS
      <3>2. Height(index, path) \in Nat /\ m + 1 <= Height(index, path)
        BY <3>1, HeightIs
      <3> QED
        BY <1>4, <1>5, <2>2, <3>2
    <2>9. RoomBehind(disk, tail, 2)
      <3>1. 0 \in 0..MaxDepth - 1 /\ Up(index, path)[0] = path
        <4>1. path \in Seq(Nat)
          BY <1>4, <2>4 DEF Tree
        <4> QED
          BY <1>4, <4>1, UpStarts
      <3>2. 2 \in 0..MaxDepth /\ 2 <= MaxDepth - depth
        BY <2>4, <2>8, <3>1
      <3> QED
        BY <2>7, <3>2
    <2>10. MayCut(path)
      <3>1. SUFFICES ASSUME NEW g \in DOMAIN InView(disk), NEW m \in 0..MaxDepth - 1,
                            Up(disk, g)[m] = path
                     PROVE  RoomBehind(disk, tail, m + 2)
        BY <2>6 DEF MayCut
      <3>2. m \in 0..MaxDepth
        BY <1>4
      <3>3. g \in DOMAIN index /\ Up(index, g)[m] = path
        BY <1>1, <2>4, <3>1, <3>2, WayIsKnown
      <3>4. m + 2 \in 0..MaxDepth /\ m + 2 <= MaxDepth - depth
        BY <2>8, <3>3
      <3> QED
        BY <2>7, <3>4
    <2> QED
      BY <1>5, <2>3, <2>5, <2>6, <2>9, <2>10 DEF Reaches
  <1>9. CASE WorthWriting(located, Len(h)) /\ ~CanSplit(index, located)
    <2> DEFINE start == TailStart(index, located)
    <2>1. writer' = [IdleWriter EXCEPT !.pc = "backfill", !.req = writer.req, !.at = start]
      BY <1>9 DEF PlanWrite, BackfillAt, located
    <2>2. RoomBehind(index, Upto(h, start), 1) /\ Upto(h, start) \in Seq(Nat)
      <3>1. CASE depth + 1 > MaxDepth
        <4>1. depth = MaxDepth /\ depth > 0 /\ MaxDepth - depth = 0 /\ 0 \in 0..MaxDepth - 1
              /\ 0 + 1 = 1
          BY <1>4, <1>5, <3>1
        <4>2. tail \in DOMAIN index /\ start = index[tail].start
          BY <1>5, <1>6, <3>1, <4>1 DEF TailStart, tail, depth
        <4>3. RoomBehind(index, tail, 0)
          BY <1>5, <4>1
        <4>4. RoomBehind(index, ParentOf(index, tail), 1)
          BY <1>4, <4>1, <4>2, <4>3, RoomForChild
        <4>5. ParentOf(index, tail) = Upto(h, start) /\ ParentOf(index, tail) \in Seq(Nat)
          BY <1>2, <1>4, <1>5, <4>2, ParentOfPart, ParentIsShorter
        <4> QED
          BY <4>4, <4>5
      <3>2. CASE ~(depth + 1 > MaxDepth)
        <4>1. start = boundary
          BY <3>2 DEF TailStart, boundary, depth
        <4>2. MaxDepth - depth \in 0..MaxDepth /\ 1 \in 0..(MaxDepth - depth)
          BY <1>4, <1>5, <3>2
        <4>3. RoomBehind(index, tail, 1)
          BY <1>4, <1>5, <1>6, <4>2, RoomForLess
        <4> QED
          BY <1>5, <1>6, <4>1, <4>3
      <3> QED
        BY <3>1, <3>2
    <2> HIDE DEF start
    <2>3. RoomBehind(disk, Upto(h, start), 1)
      <3>1. 1 \in 0..MaxDepth
        BY <1>4
      <3> QED
        BY <1>1, <2>2, <3>1, RoomIsThere
    <2>4. writer'.pc = "backfill" /\ writer'.req.tokens = h /\ writer'.at = start
      BY <2>1 DEF IdleWriter, History
    <2> QED
      BY <2>3, <2>4 DEF Reaches
  <1> QED
    BY <1>7, <1>8, <1>9

LEMMA SplitReaches ==
    ASSUME DInv, Rotted = {}, Reaches(writer), ReadForSplit
    PROVE  disk' = disk /\ Reaches(writer')
  <1> DEFINE h == History
             path == writer.path
             at == writer.at
             file == disk[path]
             base == BasePut(file, at)
             rest == RestPut(file, path, at)
  <1>1. /\ writer.pc = "split" /\ writer \in Writers /\ Fits(writer) /\ FilesTyped
        /\ path \in DOMAIN disk /\ MayCut(path) /\ file.start = writer.boundary
        /\ RoomBehind(disk, Upto(h, writer.boundary), 2)
    BY DEF DInv, ReadForSplit, At, WriterTyped, PlansFit, Reaches, History
  <1>2. h \in Seq(Nat) /\ Len(h) \in Nat /\ at \in Nat
    BY <1>1, RequestIs DEF History, Writers
  <1>3. at \in 0..Len(h) /\ 0 < at
    BY <1>1, <1>2 DEF Fits, History
  <1>4. file.ok /\ file.start \in Nat /\ file.snaps \subseteq Nat
    BY <1>1 DEF FilesTyped
  <1>5. disk' = disk
    BY <1>4 DEF ReadForSplit
  <1>6. RoomBehind(disk, Upto(h, writer.boundary), 1)
    <2>1. 2 \in 0..MaxDepth /\ 1 \in 0..2
      BY <1>1, TreeConstantsOK DEF TreeConstantsOK, RoomBehind
    <2>2. Tree(disk) /\ Upto(h, writer.boundary) \in Seq(Nat)
      <3>1. writer.boundary \in 0..Len(h)
        BY <1>1, <1>2 DEF Fits, Writers, History
      <3> QED
        BY <1>1, <1>2, <3>1, FilesAreTree, UptoIs
    <2> QED
      BY <1>1, <2>1, <2>2, RoomForLess
  <1>7. CASE CutFits(file)
    <2>1. writer' = [writer EXCEPT !.pc = "put", !.path = Root, !.put = base, !.rest = rest]
      BY <1>1, <1>4, <1>7 DEF ReadForSplit
    <2>2. file.start < at
      BY <1>7 DEF CutFits
    <2>3. /\ base.name = Upto(h, at) /\ base.start = file.start /\ base.role = "base"
          /\ {s \in file.snaps : s <= at} \subseteq base.snaps
          /\ rest.name = path /\ rest.snaps = {s \in file.snaps : s > at}
      BY DEF BasePut, RestPut
    <2> HIDE DEF base, rest
    <2>4. /\ writer'.pc = "put" /\ writer'.put = base /\ writer'.rest = rest
          /\ writer'.boundary = writer.boundary /\ writer'.req = writer.req
      BY <1>1, <2>1 DEF Writers
    <2>5. Upto(base.name, base.start) = Upto(h, writer.boundary)
      <3>1. file.start \in 0..at
        BY <1>2, <1>4, <2>2
      <3> QED
        BY <1>1, <1>2, <1>3, <2>3, <3>1, UptoUpto
    <2>6. file.snaps \subseteq base.snaps \cup rest.snaps
      <3>1. \A s \in file.snaps : s <= at \/ s > at
        BY <1>2, <1>4
      <3> QED
        BY <2>3, <3>1
    <2>7. CutHolds(path, base, rest)
      BY <1>1, <2>3, <2>6 DEF CutHolds
    <2>8. Counts(writer')
      BY <1>1, <1>6, <2>3, <2>4, <2>5, <2>7 DEF Counts
    <2> QED
      BY <1>5, <2>4, <2>8 DEF Reaches
  <1>8. CASE ~CutFits(file)
    <2>1. BackfillAt(writer.boundary)
      BY <1>8 DEF ReadForSplit
    <2>2. writer'.pc = "backfill" /\ writer'.req = writer.req /\ writer'.at = writer.boundary
      BY <2>1 DEF BackfillAt, IdleWriter
    <2> QED
      BY <1>5, <1>6, <2>2 DEF Reaches, History
  <1> QED
    BY <1>7, <1>8

LEMMA BackfillReaches ==
    ASSUME DInv, Rotted = {}, Reaches(writer), Backfill
    PROVE  disk' = disk /\ Reaches(writer')
  <1> DEFINE h == History
             at == writer.at
             parent == Upto(h, at)
  <1>1. /\ writer.pc = "backfill" /\ writer \in Writers /\ Fits(writer) /\ FilesTyped
        /\ RoomBehind(disk, parent, 1) /\ Tree(disk)
    BY FilesAreTree DEF DInv, Backfill, At, WriterTyped, PlansFit, Reaches, History
  <1>2. disk' = disk
    BY <1>1 DEF Backfill, FilesTyped
  <1>3. PICK put : /\ writer' = [writer EXCEPT !.pc = "put", !.put = put]
                   /\ \/ put = TailPut(at)
                      \/ put = BackfillPut(parent) /\ at > 0 /\ parent \in DOMAIN disk
    BY DEF Backfill
  <1>4. writer'.pc = "put" /\ writer'.put = put /\ writer'.req = writer.req /\ writer'.at = at
    BY <1>1, <1>3 DEF Writers
  <1>5. CASE put = TailPut(at)
    <2>1. put.name = h /\ put.start = at /\ put.role = "tail"
      BY <1>5 DEF TailPut
    <2>2. Counts(writer')
      BY <1>1, <1>4, <2>1 DEF Counts
    <2> QED
      BY <1>2, <1>4, <2>2 DEF Reaches
  <1>6. CASE put = BackfillPut(parent) /\ at > 0 /\ parent \in DOMAIN disk
    <2>1. /\ put.name = parent /\ put.start = disk[parent].start /\ put.role = "backfill"
          /\ disk[parent].snaps \subseteq put.snaps
      BY <1>6 DEF BackfillPut
    <2>2. RoomBehind(disk, ParentOf(disk, parent), 1)
      <3>1. /\ 1 \in 0..MaxDepth /\ 0 \in 0..1 /\ 0 \in 0..MaxDepth - 1 /\ 0 + 1 = 1
            /\ parent \in Seq(Nat)
        BY <1>1, <1>6, TreeConstantsOK DEF TreeConstantsOK, Tree
      <3>2. RoomBehind(disk, parent, 0)
        BY <1>1, <3>1, RoomForLess
      <3> QED
        BY <1>1, <1>6, <3>1, <3>2, RoomForChild
    <2>3. Counts(writer')
      BY <1>1, <1>4, <1>6, <2>1, <2>2 DEF Counts, ParentOf, History
    <2> QED
      BY <1>2, <1>4, <2>3 DEF Reaches
  <1> QED
    BY <1>3, <1>5, <1>6

\* What follows a put that was done, or not, counts on what the put did.
LEMMA FollowReaches ==
    ASSUME NEW w \in Writers, w.pc \in {"put", "record"}, w.req = writer.req, PutFits(w),
           Tree(disk), Counts(w), NEW done \in BOOLEAN,
           done => /\ w.put.name \in DOMAIN disk
                   /\ disk[w.put.name].start = w.put.start /\ disk[w.put.name].snaps = w.put.snaps
    PROVE  Reaches(AfterPut(w, done))
  <1> DEFINE new == AfterPut(w, done)
             h == w.req.tokens
             put == w.put
             rest == w.rest
             parent == Upto(put.name, put.start)
  <1>1. /\ w.req \in Request /\ h \in Seq(Nat) /\ Len(h) \in Nat /\ w.at \in Nat
        /\ w.boundary \in Nat /\ put.role \in Roles /\ put.role # "none"
        /\ put.start \in Nat /\ put.start < Len(put.name)
    BY RequestIs DEF Writers, Put, PutFits, Spans
  <1>2. CASE put.role = "base"
    <2>1. /\ put.name = Upto(h, w.at) /\ w.at < Len(h) /\ rest.role = "rest"
          /\ Upto(rest.name, rest.start) = put.name
      BY <1>2 DEF PutFits
    <2>2. /\ put.start = w.boundary /\ RoomBehind(disk, parent, 2) /\ RoomBehind(disk, parent, 1)
          /\ CutHolds(rest.name, put, rest)
      BY <1>2 DEF Counts
    <2>3. CASE done
      <3>1. new = [w EXCEPT !.pc = "put", !.put = w.rest, !.rest = NoPut, !.boundary = 0]
        BY <1>2, <2>3 DEF AfterPut
      <3>2. new.pc = "put" /\ new.put = rest /\ new.req = w.req /\ new.at = w.at
        BY <3>1 DEF Writers
      <3> HIDE DEF new
      <3>3. RoomBehind(disk, put.name, 1)
        <4>1. 1 \in 0..MaxDepth - 1 /\ 1 + 1 = 2
          BY <2>2, TreeConstantsOK DEF TreeConstantsOK, RoomBehind
        <4>2. ParentOf(disk, put.name) = parent
          BY <2>3 DEF ParentOf
        <4> QED
          BY <2>2, <2>3, <4>1, <4>2, RoomForChild
      <3>4. CutHolds(rest.name, disk[put.name], rest)
        BY <2>2, <2>3 DEF CutHolds
      <3>5. Counts(new)
        BY <2>1, <2>3, <3>2, <3>3, <3>4 DEF Counts
      <3> QED
        BY <3>2, <3>5 DEF Reaches, new
    <2>4. CASE ~done
      <3>1. new = [IdleWriter EXCEPT !.pc = "backfill", !.req = w.req, !.fresh = w.fresh,
                                     !.at = w.boundary]
        BY <1>2, <2>4 DEF AfterPut
      <3>2. new.pc = "backfill" /\ new.req = w.req /\ new.at = w.boundary
        BY <3>1 DEF IdleWriter
      <3> HIDE DEF new
      <3>3. parent = Upto(h, w.boundary)
        <4>1. w.at \in 0..Len(h)
          BY <1>1, <2>1
        <4>2. Len(put.name) = w.at
          BY <1>1, <2>1, <4>1, UptoIs
        <4>3. put.start \in 0..w.at
          BY <1>1, <4>2
        <4> QED
          BY <1>1, <2>1, <2>2, <4>1, <4>3, UptoUpto
      <3> QED
        BY <2>2, <3>2, <3>3 DEF Reaches, new
    <2> QED
      BY <2>3, <2>4
  <1>3. CASE put.role = "rest"
    <2>1. new = [w EXCEPT !.pc = "backfill", !.put = NoPut]
      BY <1>3 DEF AfterPut
    <2>2. new.pc = "backfill" /\ new.req = w.req /\ new.at = w.at
      BY <2>1 DEF Writers
    <2>3. RoomBehind(disk, Upto(h, w.at), 1)
      BY <1>3 DEF Counts
    <2> QED
      BY <2>2, <2>3 DEF Reaches
  <1>4. CASE put.role = "backfill"
    <2>1. new = [w EXCEPT !.pc = "put", !.put = TailPut(w.at)]
      BY <1>4 DEF AfterPut
    <2>2. new.pc = "put" /\ new.req = w.req /\ new.put = TailPut(w.at)
      BY <2>1 DEF Writers
    <2>3. TailPut(w.at).name = h /\ TailPut(w.at).start = w.at /\ TailPut(w.at).role = "tail"
      BY DEF TailPut, History
    <2>4. RoomBehind(disk, Upto(h, w.at), 1)
      BY <1>4 DEF Counts
    <2> HIDE DEF new
    <2>5. Counts(new)
      BY <2>2, <2>3, <2>4 DEF Counts
    <2> QED
      BY <2>2, <2>5 DEF Reaches, new
  <1>5. CASE put.role = "tail"
    <2>1. new.pc \in {"link", "idle"}
      <3>1. CASE done
        <4>1. new = [w EXCEPT !.pc = "link", !.put = NoPut, !.at = 0]
          BY <1>5, <3>1 DEF AfterPut
        <4> QED
          BY <4>1 DEF Writers
      <3>2. CASE ~done
        <4>1. new = IdleWriter
          BY <1>5, <3>2 DEF AfterPut
        <4> QED
          BY <4>1 DEF IdleWriter
      <3> QED
        BY <3>1, <3>2
    <2> QED
      BY <2>1 DEF Reaches
  <1> QED
    BY <1>1, <1>2, <1>3, <1>4, <1>5 DEF Roles

\* What is put behind a name is behind what the name has behind it: the ways
\* that come by a longer name and go on to a shorter one go past it.
SameBut(a, b, name) == \A x : x # name => SameThere(a, b, x)
SameWayPast(a, b, name, g) ==
    \A n \in 0..MaxDepth : Up(a, g)[n] # name /\ Up(b, g)[n] = Up(a, g)[n]
LEMMA GoesPast ==
    ASSUME NEW a, Tree(a), NEW b, Tree(b), NEW name, NEW f \in DOMAIN a,
           SameBut(a, b, name),
           a[f].start < Len(name), Len(name) < Len(f), Len(name) \in Nat,
           NEW g \in Seq(Nat), NEW m \in 0..MaxDepth - 1, Up(a, g)[m] = f
    PROVE  SameWayPast(a, b, name, g)
  <1> DEFINE u == Up(a, g)
  <1>1. MaxDepth \in Nat \ {0} /\ m \in 0..MaxDepth /\ m + 1 \in 0..MaxDepth /\ m + 1 # 0
        /\ MaxDepth \in 0..MaxDepth /\ (m + 1) - 1 = m
    BY TreeConstantsOK DEF TreeConstantsOK
  <1>2. \A n \in 0..MaxDepth : Len(u[n]) \in Nat
    <2>1. u \in [0..MaxDepth -> Seq(Nat)]
      BY UpIs
    <2> HIDE DEF u
    <2> QED
      BY <2>1
  <1>3. \A n \in 0..MaxDepth, k \in 0..MaxDepth : n <= k => Len(u[k]) <= Len(u[n])
    <2> TAKE n \in 0..MaxDepth, k \in 0..MaxDepth
    <2>1. SUFFICES ASSUME n <= k PROVE Len(u[k]) <= Len(u[n])
      OBVIOUS
    <2>2. k \in n..MaxDepth
      BY <2>1
    <2> QED
      BY <2>2, UpShrinks
  <1>4. u[m + 1] = ParentOf(a, f)
    <2>1. u[m + 1] = IF u[(m + 1) - 1] \in DOMAIN a THEN ParentOf(a, u[(m + 1) - 1]) ELSE Root
      BY <1>1, UpIs
    <2> QED
      BY <1>1, <2>1
  <1>5. Len(u[m + 1]) < Len(name) /\ Len(u[m]) > Len(name)
    BY <1>4, ParentIsShorter
  <1>6. \A n \in 0..MaxDepth : u[n] # name
    <2> TAKE n \in 0..MaxDepth
    <2>1. CASE n <= m
      <3>1. Len(u[m]) <= Len(u[n])
        BY <1>1, <1>3, <2>1
      <3> HIDE DEF u
      <3>2. Len(u[n]) > Len(name)
        BY <1>1, <1>2, <1>5, <3>1
      <3> QED
        BY <3>2
    <2>2. CASE ~(n <= m)
      <3>1. m + 1 <= n
        BY <1>1, <2>2
      <3>2. Len(u[n]) <= Len(u[m + 1])
        BY <1>1, <1>3, <3>1
      <3> HIDE DEF u
      <3>3. Len(u[n]) < Len(name)
        BY <1>1, <1>2, <1>5, <3>2
      <3> QED
        BY <3>3
    <2> QED
      BY <2>1, <2>2
  <1>7. \A n \in 0..MaxDepth : n < MaxDepth => SameThere(a, b, u[n])
    BY <1>6 DEF SameBut
  <1>8. \A n \in 0..MaxDepth : Up(b, g)[n] = u[n]
    <2>1. SameBefore(a, b, g, MaxDepth)
      BY <1>7 DEF SameBefore
    <2>2. MaxDepth \in 0..MaxDepth
      BY <1>1
    <2>3. SameUpTo(a, b, g, MaxDepth)
      BY <2>1, <2>2, UpSame
    <2> QED
      BY <2>3 DEF SameUpTo
  <1> QED
    BY <1>6, <1>8 DEF SameWayPast

\* A file put under a name, in the tree of the files there are.
LEMMA PutIs ==
    ASSUME DInv, PutFile
    PROVE  LET put == writer.put
           IN  /\ Tree(disk) /\ Tree(disk') /\ writer.pc = "put" /\ PutFits(writer)
               /\ writer \in Writers
               /\ put.name \in Seq(Nat) /\ put.start \in Nat /\ put.start < Len(put.name)
               /\ Len(put.name) \in Nat
               /\ DOMAIN disk' = DOMAIN disk \cup {put.name}
               /\ disk'[put.name] = [start |-> put.start, snaps |-> put.snaps, ok |-> TRUE]
               /\ \A x \in DOMAIN disk : x # put.name => disk'[x] = disk[x]
               /\ Unread' = Unread /\ Rotted' = Rotted
  <1> DEFINE put == writer.put
  <1>1. /\ FilesTyped /\ Tree(disk) /\ writer \in Writers /\ writer.pc = "put" /\ PutFits(writer)
    BY FilesAreTree DEF DInv, WriterTyped, PlansFit, Fits, PutFile, At
  <1>2. /\ put.name \in Names /\ put.name \in Seq(Nat) \ {Root} /\ put.start \in Nat
        /\ put.start < Len(put.name) /\ Len(put.name) \in Nat
    BY <1>1, NamesAre DEF PutFits, Spans, Writers, Put
  <1>3. /\ DOMAIN disk' = DOMAIN disk \cup {put.name}
        /\ disk'[put.name] = [start |-> put.start, snaps |-> put.snaps, ok |-> TRUE]
        /\ \A x \in DOMAIN disk : x # put.name => disk'[x] = disk[x]
    BY DEF PutFile, With
  <1>4. Tree(disk')
    BY <1>1, <1>2, <1>3 DEF Tree
  <1>5. Unread' = Unread /\ Rotted' = Rotted
    BY FaultsStay DEF PutFile
  <1> QED
    BY <1>1, <1>2, <1>3, <1>4, <1>5

LEMMA PutReaches ==
    ASSUME DInv, RInv, misread = {}, Rotted = {}, PutFile
    PROVE  Reaches(writer)'
  <1> DEFINE h == History
             put == writer.put
             rest == writer.rest
             parent == Upto(put.name, put.start)
  <1>1. /\ Tree(disk) /\ Tree(disk') /\ writer.pc = "put" /\ PutFits(writer)
        /\ put.name \in Seq(Nat) /\ put.start \in Nat /\ put.start < Len(put.name)
        /\ Len(put.name) \in Nat
        /\ DOMAIN disk' = DOMAIN disk \cup {put.name}
        /\ disk'[put.name] = [start |-> put.start, snaps |-> put.snaps, ok |-> TRUE]
        /\ \A x \in DOMAIN disk : x # put.name => disk'[x] = disk[x]
        /\ Unread' = Unread /\ writer \in Writers
    BY PutIs
  <1>2. Counts(writer)
    BY <1>1 DEF RInv, Reaches
  <1>3. writer' = [writer EXCEPT !.pc = "record"]
    BY DEF PutFile, Goto
  <1>4. /\ writer'.pc = "record" /\ writer'.put = put /\ writer'.rest = rest
        /\ writer'.req = writer.req /\ writer'.at = writer.at /\ writer'.boundary = writer.boundary
    BY <1>1, <1>3 DEF Writers
  <1>5. parent \in Seq(Nat) /\ Len(parent) = put.start
    BY <1>1, UptoIs
  <1>6. ASSUME NEW k \in 0..MaxDepth, RoomBehind(disk, parent, k)
        PROVE  RoomBehind(disk', parent, k)
    <2>1. \A x \in DOMAIN disk : Len(x) <= Len(parent) =>
                x \in DOMAIN disk' /\ disk'[x].start = disk[x].start
      <3>1. \A x \in DOMAIN disk : Len(x) <= Len(parent) => x # put.name
        BY <1>1, <1>5
      <3> QED
        BY <1>1, <3>1
    <2> QED
      BY <1>1, <1>5, <1>6, <2>1, RoomStays
  <1>7. RoomBehind(disk', parent, 1) /\ (RoomBehind(disk, parent, 2) => RoomBehind(disk', parent, 2))
    <2>1. 1 \in 0..MaxDepth
      BY TreeConstantsOK DEF TreeConstantsOK
    <2>2. RoomBehind(disk, parent, 2) => 2 \in 0..MaxDepth
      BY TreeConstantsOK DEF TreeConstantsOK, RoomBehind
    <2> QED
      BY <1>2, <1>6, <2>1, <2>2 DEF Counts
  <1> HIDE DEF parent
  <1>8. CASE put.role = "base"
    <2> DEFINE path == rest.name
    <2>1. /\ put.start = writer.boundary /\ RoomBehind(disk, parent, 2)
          /\ path \in DOMAIN disk /\ MayCut(path) /\ disk[path].start = put.start
          /\ disk[path].snaps \subseteq put.snaps \cup rest.snaps
      BY <1>2, <1>8 DEF Counts, CutHolds, parent
    <2>2. Upto(path, rest.start) = put.name /\ rest.start < Len(path) /\ rest.start \in Nat
      BY <1>1, <1>8 DEF PutFits, Spans, Writers, Put
    <2>3. path \in Seq(Nat) /\ Len(path) \in Nat
      BY <1>1, <2>1 DEF Tree
    <2>4. Len(put.name) = rest.start /\ Len(put.name) < Len(path) /\ path # put.name
      <3>1. rest.start \in 0..Len(path)
        BY <2>2, <2>3
      <3> QED
        BY <2>2, <2>3, <3>1, UptoIs
    <2>5. path \in DOMAIN disk' /\ disk'[path] = disk[path]
      BY <1>1, <2>1, <2>4
    <2>6. ParentOf(disk', path) = parent /\ ParentOf(disk, path) = parent
      <3>1. put.start \in 0..rest.start /\ rest.start \in 0..Len(path)
        BY <1>1, <2>2, <2>3, <2>4
      <3>2. Upto(Upto(path, rest.start), put.start) = Upto(path, put.start)
        BY <2>3, <3>1, UptoUpto
      <3> QED
        BY <2>1, <2>2, <2>5, <3>2 DEF ParentOf, parent
    <2>7. MayCut(path)'
      <3>1. ASSUME NEW g \in (DOMAIN InView(disk))', NEW m \in 0..MaxDepth - 1,
                   Up(disk', g)[m] = path
            PROVE  RoomBehind(disk', parent, m + 2)
        <4>1. g \in DOMAIN disk' /\ Chain(disk', g) \cap Unread = {}
          BY <1>1 DEF InView
        <4>2. g \in Seq(Nat) /\ 0 \in 0..MaxDepth
          BY <1>1, <4>1, TreeConstantsOK DEF Tree, TreeConstantsOK
        <4>3. SameBut(disk', disk, put.name)
          BY <1>1 DEF SameThere, SameBut
        <4>4. \A n \in 0..MaxDepth : Up(disk', g)[n] # put.name /\ Up(disk, g)[n] = Up(disk', g)[n]
          <5>1. disk'[path].start < Len(put.name) /\ Len(put.name) < Len(path)
                /\ Len(put.name) \in Nat
            BY <1>1, <2>1, <2>4, <2>5
          <5>2. Tree(disk) /\ Tree(disk') /\ path \in DOMAIN disk'
            BY <1>1, <2>5
          <5>3. SameWayPast(disk', disk, put.name, g)
            BY <3>1, <4>2, <4>3, <5>1, <5>2, GoesPast
          <5> QED
            BY <5>3 DEF SameWayPast
        <4>5. g \in DOMAIN disk
          BY <1>1, <4>1, <4>2, <4>4, UpStarts
        <4>6. Chain(disk, g) = Chain(disk', g)
          BY <4>4 DEF Chain
        <4>7. g \in DOMAIN InView(disk)
          BY <4>1, <4>5, <4>6 DEF InView
        <4>8. m \in 0..MaxDepth /\ Up(disk, g)[m] = path
          BY <3>1, <4>4, TreeConstantsOK DEF TreeConstantsOK
        <4>9. RoomBehind(disk, parent, m + 2)
          BY <2>1, <2>6, <4>7, <4>8 DEF MayCut
        <4>10. m + 2 \in 0..MaxDepth
          BY <4>9, TreeConstantsOK DEF TreeConstantsOK, RoomBehind
        <4> QED
          BY <1>6, <4>9, <4>10
      <3> QED
        BY <1>4, <2>6, <3>1 DEF MayCut
    <2>8. CutHolds(path, put, rest)'
      BY <1>4, <2>1, <2>5, <2>7 DEF CutHolds
    <2>9. Counts(writer)'
      BY <1>4, <1>7, <1>8, <2>1, <2>8 DEF Counts, parent
    <2> QED
      BY <1>4, <2>9 DEF Reaches
  <1>9. CASE put.role = "rest"
    <2>1. parent = Upto(h, writer.at)
      BY <1>2, <1>9 DEF Counts, parent, History
    <2>2. Counts(writer)'
      BY <1>4, <1>7, <1>9, <2>1 DEF Counts, parent, History
    <2> QED
      BY <1>4, <2>2 DEF Reaches
  <1>10. CASE put.role = "backfill"
    <2>1. /\ put.name = Upto(h, writer.at) /\ RoomBehind(disk, put.name, 1)
          /\ put.name \in DOMAIN disk /\ disk[put.name].start = put.start
      BY <1>2, <1>10 DEF Counts, History
    <2>2. disk'[put.name].start = put.start /\ disk'[put.name].snaps = put.snaps
          /\ put.name \in DOMAIN disk'
      BY <1>1
    <2>3. \A x \in DOMAIN disk : x \in DOMAIN disk' /\ disk'[x].start = disk[x].start
      BY <1>1, <2>1, <2>2
    <2>4. RoomBehind(disk', put.name, 1)
      <3>1. 1 \in 0..MaxDepth
        BY TreeConstantsOK DEF TreeConstantsOK
      <3> QED
        BY <1>1, <2>1, <2>3, <3>1, RoomStays
    <2>5. Counts(writer)'
      BY <1>4, <1>7, <1>10, <2>1, <2>2, <2>4 DEF Counts, parent, History
    <2> QED
      BY <1>4, <2>5 DEF Reaches
  <1>11. CASE put.role = "tail"
    <2>1. Counts(writer)'
      BY <1>4, <1>7, <1>11 DEF Counts, parent
    <2> QED
      BY <1>4, <2>1 DEF Reaches
  <1>12. put.role \in Roles /\ put.role # "none"
    BY <1>1 DEF PutFits, Writers, Put
  <1> QED
    BY <1>8, <1>9, <1>10, <1>11, <1>12 DEF Roles

LEMMA ReachStays ==
    ASSUME disk' = disk, Growing, Reaches(writer')
    PROVE  Reaches(writer)'
  <1>1. \A f : MayCut(f) => MayCut(f)'
    <2> TAKE f
    <2>1. (DOMAIN InView(disk))' \subseteq DOMAIN InView(disk)
      BY DEF InView, Growing
    <2> QED
      BY <2>1 DEF MayCut
  <1>2. \A f, upper, lower : CutHolds(f, upper, lower) =>
            CutHolds(f, upper, lower)'
    BY <1>1 DEF CutHolds
  <1>3. Counts(writer') => Counts(writer)'
    BY <1>1, <1>2 DEF Counts, CutHolds
  <1> QED
    BY <1>1, <1>3 DEF Reaches

LEMMA SamePlanReaches ==
    ASSUME writer \in Writers, SamePlan, Reaches(writer)
    PROVE  Reaches(writer')
  <1>1. CASE writer' = writer
    BY <1>1
  <1>2. ASSUME NEW s, writer' = [writer EXCEPT !.req = NotCurrent(@, s)]
        PROVE  Reaches(writer')
    <2>1. writer.req \in Request \cup {NoRequest}
      BY DEF Writers
    <2> DEFINE req == NotCurrent(writer.req, s)
    <2>2. req.tokens = writer.req.tokens
      BY <2>1, NotCurrentIs
    <2>3. writer' = [writer EXCEPT !.req = req]
      BY <1>2
    <2> HIDE DEF req
    <2>4. /\ writer'.req = req /\ writer'.pc = writer.pc /\ writer'.path = writer.path
          /\ writer'.put = writer.put /\ writer'.rest = writer.rest /\ writer'.at = writer.at
          /\ writer'.boundary = writer.boundary
      BY <2>3 DEF Writers
    <2>5. Counts(writer) => Counts(writer')
      BY <2>2, <2>4 DEF Counts
    <2> QED
      BY <2>2, <2>4, <2>5 DEF Reaches
  <1> QED
    BY <1>1, <1>2 DEF SamePlan

LEMMA RNext ==
    ASSUME DInv, RInv, [Next]_vars
    PROVE  RInv'
  <1> SUFFICES ASSUME misread' = {}, Rotted' = {}
               PROVE  Reaches(writer)'
    BY DEF RInv
  <1>0. CASE \E faulty \in {{}} \cup {{f} : f \in DOMAIN disk} : Scan(faulty)
    <2>1. writer'.pc = "evict"
      BY <1>0, ScanIs
    <2> QED
      BY <2>1 DEF Reaches
  <1> SUFFICES ASSUME ~(\E faulty \in {{}} \cup {{f} : f \in DOMAIN disk} : Scan(faulty))
               PROVE  Reaches(writer)'
    BY <1>0
  <1>1. Growing /\ Rotted = {} /\ misread = {} /\ Reaches(writer)
    BY FaultsGrow, DoubtsStay DEF Growing, RInv
  <1>2. /\ writer \in Writers /\ Fits(writer) /\ FilesTyped /\ Tree(disk)
        /\ \A f \in DOMAIN disk : disk[f].ok
    BY <1>1, FilesAreTree DEF DInv, WriterTyped, PlansFit, FilesTyped
  <1>3. CASE Others
    <2>1. disk' = disk
      <3>1. ~ReadsRot
        BY <1>2 DEF ReadsRot
      <3>2. ~(\E f \in DOMAIN disk : Rot(f))
        BY FaultIs DEF Rot
      <3> QED
        BY <1>3, <3>1, <3>2 DEF Others, Engine, vars, Serve, Unlink, QueueWrite, ChooseStored,
               OpenFails, ReadNext, Refresh, TurnDown, NoteHydrated
    <2>2. Reaches(writer')
      BY <1>1, <1>2, <1>3, OthersAreHarmless, SamePlanReaches
    <2> QED
      BY <1>1, <2>1, <2>2, ReachStays
  <1>4. CASE \E longer \in BOOLEAN : PlanWrite(longer)
    <2>1. disk' = disk
      BY <1>4 DEF PlanWrite
    <2> QED
      BY <1>1, <1>4, <2>1, PlanReaches, ReachStays
  <1>5. CASE ReadForSplit
    BY <1>1, <1>5, SplitReaches, ReachStays
  <1>6. CASE Backfill
    BY <1>1, <1>6, BackfillReaches, ReachStays
  <1>7. CASE PutFile
    BY <1>1, <1>7, PutReaches
  <1>8. CASE RecordPut
    <2> DEFINE fresh == writer.fresh \cup {writer.put.name}
               w == [writer EXCEPT !.fresh = fresh]
    <2>1. writer' = AfterPut(w, TRUE) /\ writer.pc = "record" /\ disk' = disk
      BY <1>8 DEF RecordPut, At
    <2>2. PutFits(writer) /\ Counts(writer)
      BY <1>1, <1>2, <2>1 DEF Fits, Reaches
    <2>3. fresh \in SUBSET Names
      BY <1>2, <2>2 DEF Writers, Put, PutFits
    <2> HIDE DEF fresh
    <2>4. /\ w \in Writers /\ w.pc = "record" /\ w.req = writer.req /\ w.put = writer.put
          /\ w.rest = writer.rest /\ w.at = writer.at /\ w.boundary = writer.boundary
      BY <1>2, <2>1, <2>3 DEF Writers
    <2> HIDE DEF w
    <2>5. PutFits(w) /\ Counts(w)
      BY <2>1, <2>2, <2>4 DEF PutFits, Counts
    <2>6. /\ w.put.name \in DOMAIN disk
          /\ disk[w.put.name].start = w.put.start /\ disk[w.put.name].snaps = w.put.snaps
      <3>1. /\ writer.put.name \in DOMAIN disk
            /\ disk[writer.put.name] =
                  [start |-> writer.put.start, snaps |-> writer.put.snaps, ok |-> TRUE]
        BY <2>1 DEF DInv, PlansFit, At
      <3> QED
        BY <2>4, <3>1
    <2>7. Reaches(writer')
      BY <1>2, <2>1, <2>4, <2>5, <2>6, FollowReaches
    <2> QED
      BY <1>1, <2>1, <2>7, ReachStays
  <1>9. CASE PutFails
    <2>1. writer' = AfterPut(writer, FALSE) /\ writer.pc = "put" /\ disk' = disk
      BY <1>9 DEF PutFails, At
    <2>2. PutFits(writer) /\ Counts(writer)
      BY <1>1, <1>2, <2>1 DEF Fits, Reaches
    <2>3. Reaches(writer')
      BY <1>2, <2>1, <2>2, FollowReaches
    <2> QED
      BY <1>1, <2>1, <2>3, ReachStays
  <1>10. CASE \/ Claim \/ LinkWritten \/ NameSuperseded \/ Erase \/ WithinBudget \/ Crash
              \/ \E f \in writer.doomed : CondemnSuperseded(f)
              \/ \E f \in DOMAIN index : PickVictim(f)
              \/ \E faulty \in {{}} \cup {{f} : f \in DOMAIN disk} : Scan(faulty)
    <2>1. writer'.pc \in Unplanned
      BY <1>10, UnplannedSteps
    <2> QED
      BY <2>1 DEF Unplanned, Reaches
  <1> QED
    BY <1>3, <1>4, <1>5, <1>6, <1>7, <1>8, <1>9, <1>10, Steps

LEMMA RInit == Init => RInv
  BY DEF Init, RInv, Reaches, IdleWriter

---------------------------------------------------------------------------
(* What can be resumed.                                                    *)

\* A way that is there in full in another tree is the same way there.
LEMMA SameWay ==
    ASSUME NEW a, Tree(a), NEW b, Tree(b), NEW g \in DOMAIN a, Complete(a, g),
           \A x \in Chain(a, g) : x \in DOMAIN b /\ b[x].start = a[x].start
    PROVE  /\ \A n \in 0..MaxDepth : Up(b, g)[n] = Up(a, g)[n]
           /\ Chain(b, g) = Chain(a, g) /\ Complete(b, g) /\ g \in Chain(a, g)
  <1>1. /\ MaxDepth \in 0..MaxDepth /\ 0 \in 0..MaxDepth /\ g \in Seq(Nat) /\ g # Root
        /\ Root \notin DOMAIN a /\ Root \notin DOMAIN b
    BY TreeConstantsOK DEF TreeConstantsOK, Tree
  <1>2. /\ \A n \in 0..MaxDepth : Up(a, g)[n] # Root => Up(a, g)[n] \in Chain(a, g)
        /\ Chain(a, g) \subseteq DOMAIN a
    BY DEF Chain, Complete
  <1>3. \A n \in 0..MaxDepth : n < MaxDepth => SameThere(a, b, Up(a, g)[n])
    BY <1>1, <1>2 DEF SameThere
  <1>4. \A n \in 0..MaxDepth : Up(b, g)[n] = Up(a, g)[n]
    <2>1. SameBefore(a, b, g, MaxDepth)
      BY <1>3 DEF SameBefore
    <2>2. MaxDepth \in 0..MaxDepth /\ g \in Seq(Nat)
      BY <1>1
    <2>3. SameUpTo(a, b, g, MaxDepth)
      BY <2>1, <2>2, UpSame
    <2> QED
      BY <2>3 DEF SameUpTo
  <1>5. Chain(b, g) = Chain(a, g)
    BY <1>4 DEF Chain
  <1>6. g \in Chain(a, g)
    BY <1>1, <1>2, UpStarts
  <1> QED
    BY <1>1, <1>4, <1>5, <1>6 DEF Complete

LEMMA KeepsResumable ==
    ASSUME NEW a, Tree(a), NEW b, Tree(b), \A f \in DOMAIN b : b[f].ok,
           \A g \in Readable(a) : \A x \in Chain(a, g) :
                x \in DOMAIN b /\ b[x].start = a[x].start /\ a[x].snaps \subseteq b[x].snaps
    PROVE  Resumable(a) \subseteq Resumable(b)
  <1>1. ASSUME NEW g \in Readable(a)
        PROVE  g \in Readable(b) /\ a[g].snaps \subseteq b[g].snaps
    <2>1. g \in DOMAIN a /\ Complete(a, g)
      BY DEF Readable
    <2>2. Complete(b, g) /\ g \in Chain(a, g)
      BY <2>1, SameWay
    <2>3. g \in DOMAIN b /\ Chain(b, g) \subseteq DOMAIN b
      BY <2>2 DEF Complete
    <2> QED
      BY <2>2, <2>3 DEF Readable
  <1> QED
    BY <1>1 DEF Resumable

\* Where the files of a step that deletes none come from.
LEMMA DiskSteps ==
    ASSUME DInv, [Next]_vars, Rotted' = {}, disk' # disk, ~Deletes
    PROVE  PutFile \/ \E faulty \in {{}} \cup {{f} : f \in DOMAIN disk} : Scan(faulty)
  <1>1. \A f \in DOMAIN disk : disk[f].ok
    BY FaultsGrow DEF DInv, FilesTyped, Growing
  <1>2. /\ ~ReadsRot
        /\ ~(\E f \in DOMAIN disk : Rot(f))
    BY <1>1, FaultIs DEF ReadsRot, Rot
  <1>3. ReadForSplit \/ Backfill => disk' = disk
    BY <1>1 DEF ReadForSplit, Backfill
  <1> QED
    BY <1>2, <1>3
       DEF Next, Engine, Writer, Environment, vars, Serve, Unlink, QueueWrite, ChooseStored,
           OpenFails, ReadNext, Refresh, TurnDown, NoteHydrated, Claim, PlanWrite, RecordPut,
           PutFails, LinkWritten, NameSuperseded, CondemnSuperseded, PickVictim, Erase,
           WithinBudget, Crash, Deletes

\* Room at a place on the way is room at its beginning.
LEMMA RoomAlongTheWay ==
    ASSUME NEW tree, Tree(tree), NEW g \in Seq(Nat), NEW m \in 0..MaxDepth,
           RoomBehind(tree, Up(tree, g)[m], m),
           \A n \in 0..MaxDepth : n < m => Up(tree, g)[n] \in DOMAIN tree
    PROVE  Complete(tree, g)
  <1> DEFINE Good(k) == RoomBehind(tree, Up(tree, g)[m - k], m - k)
             Bad == {k \in 0..m : ~Good(k)}
  <1>1. MaxDepth \in Nat /\ m \in Nat /\ m - 0 = m /\ m - m = 0 /\ m \in 0..m
    BY TreeConstantsOK DEF TreeConstantsOK
  <1>2. Bad = {}
    <2>1. SUFFICES ASSUME Bad # {} PROVE FALSE
      OBVIOUS
    <2>2. PICK k \in Bad : \A j \in Bad : k <= j
      <3>1. Bad \subseteq Nat
        OBVIOUS
      <3> HIDE DEF Bad
      <3> QED
        BY <2>1, <3>1, LowestOf
    <2>3. k \in 0..m /\ ~Good(k) /\ k # 0
      BY <1>1, <2>2
    <2>4. k - 1 \in 0..m /\ ~(k <= k - 1) /\ m - (k - 1) = (m - k) + 1
          /\ m - k \in 0..MaxDepth - 1 /\ m - k \in 0..MaxDepth /\ m - k < m
          /\ (m - k) + 1 \in 0..MaxDepth /\ ((m - k) + 1) - 1 = m - k /\ (m - k) + 1 # 0
      BY <1>1, <2>3
    <2>5. Good(k - 1)
      BY <2>2, <2>4
    <2> DEFINE x == Up(tree, g)[m - k]
    <2>6. RoomBehind(tree, Up(tree, g)[(m - k) + 1], (m - k) + 1)
      BY <2>4, <2>5
    <2>7. x \in DOMAIN tree
      BY <2>4
    <2>8. Up(tree, g)[(m - k) + 1] = ParentOf(tree, x)
      <3>1. Up(tree, g)[(m - k) + 1] =
                IF Up(tree, g)[((m - k) + 1) - 1] \in DOMAIN tree
                THEN ParentOf(tree, Up(tree, g)[((m - k) + 1) - 1]) ELSE Root
        BY <2>4, UpIs
      <3> QED
        BY <2>4, <2>7, <3>1
    <2> HIDE DEF x
    <2>9. RoomBehind(tree, x, m - k)
      BY <2>4, <2>6, <2>7, <2>8, RoomForChild
    <2> QED
      BY <2>3, <2>9 DEF x
  <1>3. Good(m)
    <2> HIDE DEF Good
    <2> QED
      BY <1>1, <1>2
  <1>4. RoomBehind(tree, g, 0)
    BY <1>1, <1>3, UpStarts
  <1> QED
    BY <1>4, CompleteIs

\* The files in view, as a tree of their own.
LEMMA InViewIs ==
    ASSUME DInv
    PROVE  /\ Tree(InView(disk)) /\ DOMAIN InView(disk) \subseteq DOMAIN disk
           /\ \A f \in DOMAIN InView(disk) : InView(disk)[f] = disk[f]
           /\ Tree(disk)
  <1>1. Tree(disk)
    BY FilesAreTree DEF DInv
  <1> QED
    BY <1>1 DEF InView, Tree

\* Nothing is lost where one file is added, or one put over what it holds.
LEMMA PutOverLosesNothing ==
    ASSUME DInv, Rotted = {}, PutFile,
           LET put == writer.put
           IN  put.name \in DOMAIN disk =>
                  disk[put.name].start = put.start /\ disk[put.name].snaps \subseteq put.snaps
    PROVE  Resumable(InView(disk)) \subseteq Resumable(disk')
  <1> DEFINE put == writer.put
  <1>1. /\ Tree(disk') /\ DOMAIN disk' = DOMAIN disk \cup {put.name}
        /\ disk'[put.name] = [start |-> put.start, snaps |-> put.snaps, ok |-> TRUE]
        /\ \A x \in DOMAIN disk : x # put.name => disk'[x] = disk[x]
    BY PutIs
  <1>2. \A f \in DOMAIN disk' : disk'[f].ok
    BY <1>1 DEF DInv, FilesTyped
  <1>3. \A x \in DOMAIN disk :
            x \in DOMAIN disk' /\ disk'[x].start = disk[x].start /\ disk[x].snaps \subseteq disk'[x].snaps
    BY <1>1
  <1>4. \A g \in Readable(InView(disk)) : \A x \in Chain(InView(disk), g) : x \in DOMAIN InView(disk)
    BY DEF Readable, Complete
  <1> QED
    BY <1>1, <1>2, <1>3, <1>4, InViewIs, KeepsResumable

\* The second put of a cut: everything behind the segment finds its way by way
\* of the first, which holds the snapshots the second does not.
LEMMA CutLosesNothing ==
    ASSUME DInv, RInv, misread = {}, Rotted = {}, PutFile, writer.put.role = "rest"
    PROVE  Resumable(InView(disk)) \subseteq Resumable(disk')
  <1> DEFINE put == writer.put
             path == put.name
             base == Upto(path, put.start)
             p == ParentOf(disk, path)
  <1>1. /\ Tree(disk) /\ Tree(disk') /\ writer.pc = "put"
        /\ path \in Seq(Nat) /\ put.start \in Nat /\ put.start < Len(path) /\ Len(path) \in Nat
        /\ DOMAIN disk' = DOMAIN disk \cup {path}
        /\ disk'[path] = [start |-> put.start, snaps |-> put.snaps, ok |-> TRUE]
        /\ \A x \in DOMAIN disk : x # path => disk'[x] = disk[x]
    BY PutIs
  <1>2. /\ path \in DOMAIN disk /\ MayCut(path) /\ base \in DOMAIN disk
        /\ disk[path].start = disk[base].start
        /\ disk[path].snaps \subseteq disk[base].snaps \cup put.snaps
    BY <1>1 DEF RInv, Reaches, Counts, CutHolds
  <1>3. \A f \in DOMAIN disk' : disk'[f].ok
    BY <1>1 DEF DInv, FilesTyped
  <1>4. /\ base \in Seq(Nat) /\ Len(base) = put.start /\ base # path
        /\ disk[base].start \in 0..put.start /\ put.start \in 0..Len(path)
        /\ disk[base].snaps \subseteq 0..put.start
    <2>1. put.start \in 0..Len(path)
      BY <1>1
    <2>2. base \in Seq(Nat) /\ Len(base) = put.start
      BY <1>1, <2>1, UptoIs
    <2>3. /\ disk[base].start \in Nat /\ disk[base].start < Len(base)
          /\ disk[base].snaps \subseteq (disk[base].start + 1)..Len(base)
      BY <1>2 DEF DInv, FilesTyped, Spans
    <2>4. (disk[base].start + 1)..put.start \subseteq 0..put.start
      BY <1>1, <2>3
    <2> HIDE DEF base
    <2> QED
      BY <1>1, <2>1, <2>2, <2>3, <2>4
  <1>5. disk'[base] = disk[base] /\ base \in DOMAIN disk'
    BY <1>1, <1>2, <1>4
  <1>6. ParentOf(disk', path) = base /\ ParentOf(disk', base) = p
    <2>1. Upto(base, disk[base].start) = Upto(path, disk[base].start)
      BY <1>1, <1>4, UptoUpto
    <2> QED
      BY <1>1, <1>2, <1>5, <2>1 DEF ParentOf
  <1>7. p \in Seq(Nat) /\ Len(p) < Len(path)
    BY <1>1, <1>2, ParentIsShorter
  <1>8. MaxDepth \in Nat \ {0} /\ MaxDepth \in 0..MaxDepth /\ 0 \in 0..MaxDepth
    BY TreeConstantsOK DEF TreeConstantsOK
  <1> HIDE DEF base, p
  <1>9. ASSUME NEW m \in 0..MaxDepth - 1, RoomBehind(disk, p, m + 2)
        PROVE  RoomBehind(disk', path, m) /\ Complete(disk', base)
    <2>1. /\ m + 2 \in 0..MaxDepth /\ m + 1 \in 0..MaxDepth - 1 /\ m + 1 \in 0..MaxDepth
          /\ 0 \in 0..(m + 1) /\ (m + 1) + 1 = m + 2
      BY <1>8, <1>9 DEF RoomBehind
    <2>2. \A x \in DOMAIN disk : Len(x) <= Len(p) => x \in DOMAIN disk' /\ disk'[x].start = disk[x].start
      <3>1. Len(p) \in Nat
        BY <1>7
      <3>2. \A x \in DOMAIN disk : Len(x) <= Len(p) => x # path
        BY <1>1, <1>7, <3>1
      <3> QED
        BY <1>1, <3>2
    <2>3. RoomBehind(disk', p, m + 2)
      <3> DEFINE k == m + 2
      <3>1. k \in 0..MaxDepth /\ RoomBehind(disk, p, k)
        BY <1>9, <2>1
      <3>2. Tree(disk) /\ Tree(disk') /\ p \in Seq(Nat)
        BY <1>1, <1>7
      <3> HIDE DEF k
      <3>3. RoomBehind(disk', p, k)
        BY <2>2, <3>1, <3>2, RoomStays
      <3> QED
        BY <3>3 DEF k
    <2>4. RoomBehind(disk', base, m + 1)
      BY <1>1, <1>5, <1>6, <2>1, <2>3, RoomForChild
    <2>5. RoomBehind(disk', path, m)
      BY <1>1, <1>6, <2>4, RoomForChild
    <2>6. RoomBehind(disk', base, 0)
      BY <1>1, <1>4, <2>1, <2>4, RoomForLess
    <2> QED
      BY <2>5, <2>6, CompleteIs
  <1>10. ASSUME NEW g \in Readable(InView(disk))
         PROVE  /\ Complete(disk', g) /\ g \in DOMAIN disk'
                /\ g = path => Complete(disk', base)
    <2>1. /\ g \in DOMAIN InView(disk) /\ Complete(InView(disk), g)
          /\ Chain(InView(disk), g) \subseteq DOMAIN InView(disk)
      BY DEF Readable, Complete
    <2>2. /\ \A n \in 0..MaxDepth : Up(disk, g)[n] = Up(InView(disk), g)[n]
          /\ Complete(disk, g) /\ Chain(disk, g) = Chain(InView(disk), g)
      <3>1. \A x \in Chain(InView(disk), g) :
                x \in DOMAIN disk /\ disk[x].start = InView(disk)[x].start
        BY <2>1, InViewIs
      <3> QED
        BY <2>1, <3>1, InViewIs, SameWay
    <2>3. g \in DOMAIN disk /\ g \in DOMAIN disk' /\ g \in Seq(Nat)
      BY <1>1, <2>1, InViewIs DEF Tree
    <2>4. CASE path \notin Chain(disk, g)
      <3>1. \A x \in Chain(disk, g) : x \in DOMAIN disk' /\ disk'[x].start = disk[x].start
        BY <1>1, <2>2, <2>4 DEF Complete
      <3>2. Complete(disk', g) /\ g \in Chain(disk, g)
        BY <1>1, <2>2, <2>3, <3>1, SameWay
      <3> QED
        BY <2>3, <2>4, <3>2
    <2>5. CASE path \in Chain(disk, g)
      <3> DEFINE There == {n \in 0..MaxDepth : Up(disk, g)[n] = path}
      <3>1. PICK m \in There : \A n \in There : m <= n
        <4>1. There \subseteq Nat /\ There # {}
          BY <2>5 DEF Chain
        <4> HIDE DEF There
        <4> QED
          BY <4>1, LowestOf
      <3>2. m \in 0..MaxDepth /\ Up(disk, g)[m] = path
        BY <3>1
      <3>3. \A n \in 0..MaxDepth : n < m => Up(disk, g)[n] # path
        <4> TAKE n \in 0..MaxDepth
        <4>1. SUFFICES ASSUME n < m PROVE n \notin There
          OBVIOUS
        <4>2. ~(m <= n)
          BY <3>2, <4>1
        <4> QED
          BY <3>1, <4>2
      <3>4. m # MaxDepth
        <4>1. Up(disk, g)[MaxDepth] = Root
          BY <2>2 DEF Complete
        <4>2. path # Root
          BY <1>1, <1>2 DEF Tree
        <4> QED
          BY <3>2, <4>1, <4>2
      <3>5. m \in 0..MaxDepth - 1 /\ m \in 0..m
        BY <1>8, <3>2, <3>4
      <3>6. RoomBehind(disk, p, m + 2)
        BY <1>2, <2>1, <3>2, <3>5 DEF MayCut, p
      <3>7. RoomBehind(disk', path, m) /\ Complete(disk', base)
        BY <1>9, <3>5, <3>6
      <3>8. \A n \in 0..MaxDepth : n < m => SameThere(disk, disk', Up(disk, g)[n])
        BY <1>1, <3>3 DEF SameThere
      <3>9. \A n \in 0..m : Up(disk', g)[n] = Up(disk, g)[n]
        <4>1. Tree(disk) /\ Tree(disk')
          BY <1>1
        <4>2. g \in Seq(Nat) /\ m \in 0..MaxDepth
          BY <2>3, <3>2
        <4>3. SameBefore(disk, disk', g, m)
          BY <3>8 DEF SameBefore
        <4>4. SameUpTo(disk, disk', g, m)
          BY <4>1, <4>2, <4>3, UpSame
        <4> QED
          BY <4>4 DEF SameUpTo
      <3>10. \A n \in 0..MaxDepth : n < m => Up(disk', g)[n] \in DOMAIN disk'
        <4> TAKE n \in 0..MaxDepth
        <4>1. SUFFICES ASSUME n < m PROVE Up(disk', g)[n] \in DOMAIN disk'
          OBVIOUS
        <4>2. n \in 0..m /\ m \in n..MaxDepth
          BY <3>2, <4>1
        <4>3. Up(disk, g)[n] # Root
          <5>1. Up(disk, g)[n] = Root => Up(disk, g)[m] = Root
            BY <1>1, <2>3, <4>2, EndedForGood
          <5>2. path # Root
            BY <1>1, <1>2 DEF Tree
          <5> QED
            BY <3>2, <5>1, <5>2
        <4>4. Up(disk, g)[n] \in DOMAIN disk
          BY <2>2, <4>3 DEF Complete, Chain
        <4> QED
          BY <1>1, <3>9, <4>2, <4>4
      <3>11. Up(disk', g)[m] = path
        BY <3>2, <3>5, <3>9
      <3>12. Complete(disk', g)
        BY <1>1, <2>3, <3>2, <3>7, <3>10, <3>11, RoomAlongTheWay
      <3> QED
        BY <2>3, <3>7, <3>12
    <2> QED
      BY <2>4, <2>5
  <1>11. ASSUME NEW g \in DOMAIN disk', Complete(disk', g)
         PROVE  g \in Readable(disk')
    BY <1>3, <1>11 DEF Readable, Complete
  <1>12. SUFFICES ASSUME NEW g \in Readable(InView(disk)), NEW s \in InView(disk)[g].snaps
                  PROVE  Upto(g, s) \in Resumable(disk')
    BY DEF Resumable
  <1>13. g \in DOMAIN disk /\ s \in disk[g].snaps
    BY InViewIs DEF Readable
  <1>14. CASE g # path \/ s \in put.snaps
    <2>1. s \in disk'[g].snaps
      BY <1>1, <1>13, <1>14
    <2> QED
      BY <1>10, <1>11, <2>1 DEF Resumable
  <1>15. CASE g = path /\ s \in disk[base].snaps
    <2>1. base \in Readable(disk') /\ s \in disk'[base].snaps
      BY <1>5, <1>10, <1>11, <1>15
    <2>2. Upto(base, s) = Upto(g, s)
      BY <1>1, <1>4, <1>15, UptoUpto DEF base
    <2> QED
      BY <2>1, <2>2 DEF Resumable
  <1> QED
    BY <1>2, <1>13, <1>14, <1>15

\* What is on the way from something that is there in full is there in full.
LEMMA AlongIsComplete ==
    ASSUME NEW tree, Tree(tree), NEW g \in DOMAIN tree, Complete(tree, g), NEW x \in Chain(tree, g)
    PROVE  x \in DOMAIN tree /\ Complete(tree, x)
  <1> DEFINE u == Up(tree, g)
             Bad == {n \in 0..MaxDepth : u[n] # Root /\ ~Complete(tree, u[n])}
  <1>1. /\ MaxDepth \in Nat /\ g \in Seq(Nat) /\ Root \notin DOMAIN tree
        /\ Chain(tree, g) \subseteq DOMAIN tree
    BY TreeConstantsOK DEF TreeConstantsOK, Tree, Complete
  <1>2. Bad = {}
    <2>1. SUFFICES ASSUME Bad # {} PROVE FALSE
      OBVIOUS
    <2>2. PICK n \in Bad : \A k \in Bad : n <= k
      <3>1. Bad \subseteq Nat
        OBVIOUS
      <3> HIDE DEF Bad
      <3> QED
        BY <2>1, <3>1, LowestOf
    <2>3. n \in 0..MaxDepth /\ u[n] # Root /\ ~Complete(tree, u[n])
      BY <2>2
    <2>4. n # 0
      BY <1>1, <2>3, UpStarts
    <2>5. n - 1 \in 0..MaxDepth /\ ~(n <= n - 1)
      BY <1>1, <2>3, <2>4
    <2>6. u[n] = IF u[n - 1] \in DOMAIN tree THEN ParentOf(tree, u[n - 1]) ELSE Root
      BY <1>1, <2>3, <2>4, UpIs
    <2>7. u[n - 1] \in DOMAIN tree /\ u[n - 1] # Root
      BY <1>1, <2>3, <2>6
    <2>8. Complete(tree, u[n - 1])
      BY <2>2, <2>5, <2>7
    <2> HIDE DEF u, Bad
    <2> QED
      BY <2>3, <2>6, <2>7, <2>8, ParentIsComplete
  <1>3. PICK n \in 0..MaxDepth : x = u[n] /\ x # Root
    BY DEF Chain
  <1> QED
    BY <1>1, <1>2, <1>3

\* A scan deletes what is not linked up, and nothing that could be read.
LEMMA ScanLosesNothing ==
    ASSUME DInv, Rotted' = {}, NEW faulty \in {{}} \cup {{f} : f \in DOMAIN disk}, Scan(faulty)
    PROVE  Resumable(InView(disk)) \subseteq Resumable(disk')
  <1> DEFINE t == InView(disk)
             found == [f \in DOMAIN disk \ faulty |-> disk[f]]
  <1>1. \A f \in DOMAIN disk : disk[f].ok
    <2>1. Rotted \subseteq Rotted'
      <3>1. faulty # {} => \E f \in faulty : Fault("header", f)
        BY DEF Scan
      <3>2. faulty = {} => faults' = faults
        BY DEF Scan
      <3> QED
        BY <3>1, <3>2, FaultIs, FaultsStay DEF Growing
    <2> QED
      BY <2>1 DEF DInv, FilesTyped
  <1>2. {f \in DOMAIN disk : disk[f].ok} = DOMAIN disk
    BY <1>1
  <1>3. /\ DOMAIN disk' = {f \in DOMAIN found : Complete(found, f)} \cup Waiting(found, faulty)
                            \cup faulty
        /\ \A f \in DOMAIN disk' : disk'[f] = disk[f]
    BY <1>2 DEF Scan
  <1>4. /\ Tree(t) /\ Tree(disk) /\ DOMAIN t \subseteq DOMAIN disk
        /\ \A f \in DOMAIN t : t[f] = disk[f]
    BY InViewIs
  <1>5. /\ Tree(found) /\ DOMAIN found = DOMAIN disk \ faulty
        /\ \A f \in DOMAIN found : found[f] = disk[f]
    BY <1>4 DEF Tree
  <1>6. faulty \subseteq DOMAIN disk /\ Root \notin DOMAIN disk
    BY <1>4 DEF Tree
  <1>7. DOMAIN disk' \subseteq DOMAIN disk
    BY <1>3, <1>5, <1>6 DEF Waiting
  <1>8. Tree(disk') /\ \A f \in DOMAIN disk' : disk'[f].ok
    BY <1>1, <1>3, <1>4, <1>7 DEF Tree
  <1> HIDE DEF t, found
  <1>9. ASSUME NEW x \in DOMAIN t, Complete(t, x), x \notin faulty, Chain(found, x) \cap faulty = {}
        PROVE  Complete(found, x)
    <2>1. /\ x \in Seq(Nat) /\ Chain(t, x) \subseteq DOMAIN t /\ MaxDepth \in 0..MaxDepth
      BY <1>4, <1>9, TreeConstantsOK DEF Tree, Complete, TreeConstantsOK
    <2>2. \A n \in 0..MaxDepth : Up(t, x)[n] \in DOMAIN t \cup {Root}
      BY <2>1 DEF Chain
    <2>3. \A n \in 0..MaxDepth : Up(t, x)[n] \notin faulty =>
                SameThere(t, found, Up(t, x)[n])
      BY <1>4, <1>5, <1>6, <2>2 DEF SameThere
    <2> DEFINE Bad == {n \in 0..MaxDepth : Up(t, x)[n] \in faulty}
    <2>4. Bad = {}
      <3>1. SUFFICES ASSUME Bad # {} PROVE FALSE
        OBVIOUS
      <3>2. PICK n \in Bad : \A k \in Bad : n <= k
        <4>1. Bad \subseteq Nat
          OBVIOUS
        <4> HIDE DEF Bad
        <4> QED
          BY <3>1, <4>1, LowestOf
      <3>3. n \in 0..MaxDepth /\ Up(t, x)[n] \in faulty /\ n \in 0..n
        BY <3>2
      <3>4. \A k \in 0..MaxDepth : k < n => k \notin Bad
        <4>1. \A k \in 0..MaxDepth : k < n => ~(n <= k)
          BY <3>3
        <4> HIDE DEF Bad
        <4> QED
          BY <3>2, <4>1
      <3>5. \A k \in 0..MaxDepth : k < n => SameThere(t, found, Up(t, x)[k])
        BY <2>3, <3>4
      <3>6. Up(found, x)[n] = Up(t, x)[n]
        <4>1. \A k \in 0..n : Up(found, x)[k] = Up(t, x)[k]
          <5>1. Tree(t) /\ Tree(found)
            BY <1>4, <1>5
          <5>2. x \in Seq(Nat) /\ n \in 0..MaxDepth
            BY <2>1, <3>3
          <5>3. SameBefore(t, found, x, n)
            BY <3>5 DEF SameBefore
          <5>4. SameUpTo(t, found, x, n)
            BY <5>1, <5>2, <5>3, UpSame
          <5> QED
            BY <5>4 DEF SameUpTo
        <4> QED
          BY <3>3, <4>1
      <3>7. Up(found, x)[n] \in Chain(found, x)
        BY <1>6, <3>3, <3>6 DEF Chain
      <3> QED
        BY <1>9, <3>3, <3>6, <3>7
    <2>5. \A y \in Chain(t, x) : y \in DOMAIN found /\ found[y].start = t[y].start
      <3>1. \A y \in Chain(t, x) : y \notin faulty
        BY <2>4 DEF Chain
      <3> QED
        BY <1>4, <1>5, <2>1, <3>1
    <2> QED
      BY <1>4, <1>5, <1>9, <2>5, SameWay
  <1>10. ASSUME NEW x \in DOMAIN t, Complete(t, x)
         PROVE  x \in DOMAIN disk'
    <2>1. x \in faulty \/ x \in DOMAIN found
      BY <1>4, <1>5
    <2>2. CASE x \in faulty
      BY <1>3, <2>2
    <2>3. CASE x \in DOMAIN found /\ Chain(found, x) \cap faulty # {}
      BY <1>3, <2>3 DEF Waiting
    <2>4. CASE x \in DOMAIN found /\ Chain(found, x) \cap faulty = {}
      <3>1. x \notin faulty
        BY <1>5, <2>4
      <3>2. Complete(found, x)
        BY <1>9, <1>10, <2>4, <3>1
      <3> QED
        BY <1>3, <2>4, <3>2
    <2> QED
      BY <2>1, <2>2, <2>3, <2>4
  <1>11. ASSUME NEW g \in Readable(t), NEW x \in Chain(t, g)
         PROVE  x \in DOMAIN disk' /\ disk'[x].start = t[x].start /\ t[x].snaps \subseteq disk'[x].snaps
    <2>1. g \in DOMAIN t /\ Complete(t, g)
      BY DEF Readable
    <2>2. x \in DOMAIN t /\ Complete(t, x)
      BY <1>4, <2>1, AlongIsComplete
    <2>3. x \in DOMAIN disk' /\ disk'[x] = t[x]
      BY <1>3, <1>4, <1>10, <2>2
    <2> QED
      BY <2>3
  <1>12. Resumable(t) \subseteq Resumable(disk')
    BY <1>4, <1>8, <1>11, KeepsResumable
  <1> QED
    BY <1>12 DEF t

LEMMA StepLosesNothing ==
    ASSUME DInv, RInv, [Next]_vars
    PROVE  \/ disk' = disk
           \/ Resumable(InView(disk)) \subseteq Resumable(disk')
           \/ Deletes \/ WritesOver
           \/ Rotted' # {} \/ misread' # {}
  <1> SUFFICES ASSUME disk' # disk, ~Deletes, ~WritesOver, Rotted' = {}, misread' = {}
               PROVE  Resumable(InView(disk)) \subseteq Resumable(disk')
    OBVIOUS
  <1>1. Rotted = {}
    BY FaultsGrow DEF Growing
  <1>2. CASE \E faulty \in {{}} \cup {{f} : f \in DOMAIN disk} : Scan(faulty)
    BY <1>2, ScanLosesNothing
  <1>3. CASE PutFile
    <2>0. misread = {}
      BY <1>3 DEF PutFile
    <2>1. writer.pc = "put" /\ PutFits(writer) /\ writer \in Writers
      BY <1>3, PutIs
    <2>2. Counts(writer)
      BY <1>1, <2>0, <2>1 DEF RInv, Reaches
    <2>3. CASE writer.put.role = "rest"
      BY <1>1, <1>3, <2>0, <2>3, CutLosesNothing
    <2>4. CASE writer.put.role = "backfill"
      BY <1>1, <1>3, <2>2, <2>4, PutOverLosesNothing DEF Counts
    <2>5. CASE writer.put.role \in {"base", "tail"}
      <3>1. writer.put.name \notin DOMAIN disk
        BY <2>1, <2>5 DEF WritesOver, At
      <3> QED
        BY <1>1, <1>3, <3>1, PutOverLosesNothing
    <2>6. writer.put.role \in Roles /\ writer.put.role # "none"
      BY <2>1 DEF PutFits, Writers, Put
    <2> QED
      BY <2>3, <2>4, <2>5, <2>6 DEF Roles
  <1> QED
    BY <1>2, <1>3, DiskSteps

LEMMA StepIsResumable ==
    ASSUME DInv, RInv, [Next]_vars, At("record"), writer.put.role = "tail",
           writer'.pc = "link", writer.put.snaps # {}, Rotted = {}, misread = {}
    PROVE  Upto(History, Max(writer.put.snaps)) \in Resumable(disk')
  <1> DEFINE put == writer.put
             h == History
  <1>1. /\ writer \in Writers /\ writer.pc = "record" /\ PutFits(writer) /\ Counts(writer)
        /\ put.name \in DOMAIN disk /\ FilesTyped /\ Tree(disk)
        /\ disk[put.name] = [start |-> put.start, snaps |-> put.snaps, ok |-> TRUE]
    BY FilesAreTree DEF DInv, WriterTyped, PlansFit, Fits, RInv, Reaches, At
  <1>2. put.name = h
    BY <1>1 DEF PutFits, History
  <1>3. disk' = disk
    <2>1. writer'.pc \notin Unplanned /\ writer'.pc # writer.pc
      BY <1>1 DEF Unplanned
    <2>2. ~Others
      <3>1. SamePlan => writer'.pc = writer.pc
        BY <1>1 DEF SamePlan, Writers
      <3> QED
        BY <2>1, <3>1, OthersAreHarmless
    <2>3. RecordPut \/ PutFails \/ PutFile \/ ReadForSplit \/ Backfill
             \/ \E longer \in BOOLEAN : PlanWrite(longer)
      BY <2>1, <2>2, Steps, UnplannedSteps
    <2> QED
      BY <1>1, <2>3 DEF RecordPut, PutFails, PutFile, ReadForSplit, Backfill, PlanWrite, At
  <1>4. Complete(disk, put.name)
    <2>1. ParentOf(disk, put.name) = Upto(put.name, put.start)
      BY <1>1 DEF ParentOf
    <2>2. RoomBehind(disk, Upto(put.name, put.start), 1)
      BY <1>1 DEF Counts
    <2>3. 0 \in 0..MaxDepth - 1 /\ 0 + 1 = 1
      BY TreeConstantsOK DEF TreeConstantsOK
    <2>4. RoomBehind(disk, put.name, 0)
      BY <1>1, <2>1, <2>2, <2>3, RoomForChild
    <2> QED
      BY <2>4, CompleteIs
  <1>5. Max(put.snaps) \in put.snaps
    <2>1. /\ put.name \in Seq(Nat) /\ Len(put.name) \in Nat
          /\ put.start \in Nat /\ put.snaps \subseteq (put.start + 1)..Len(put.name)
      BY <1>1 DEF Tree, FilesTyped, Spans
    <2>2. put.snaps \subseteq 0..Len(put.name)
      BY <2>1
    <2> QED
      BY <2>1, <2>2, MaxIs
  <1>6. \A f \in DOMAIN disk : disk[f].ok
    BY <1>1 DEF FilesTyped
  <1>7. put.name \in Readable(disk)
    BY <1>1, <1>4, <1>6 DEF Readable, Complete
  <1> QED
    BY <1>1, <1>2, <1>3, <1>5, <1>7 DEF Resumable

---------------------------------------------------------------------------
LEMMA RAlways == Spec => []RInv
  BY RInit, RNext, TierHoldsTogether, PTL DEF Spec

\* As long as no file has gone bad, and no refresh since the scan has described
\* a file from a reading that the writer had overtaken: what a planned put
\* chains onto is there in full and leaves room for it below MAX_CHAIN_DEPTH, a
\* cut leaves room for one segment more in front of whatever is behind it, and
\* between the two puts of a cut nothing that the segment held is missing
\* (locate, split_segment, backfill_boundary, put_segment).
THEOREM PlansLeaveRoom ==
    Spec => [](Rotted = {} /\ misread = {} => Reaches(writer))
  <1>1. RInv => (Rotted = {} /\ misread = {} => Reaches(writer))
    BY DEF RInv
  <1> QED
    BY <1>1, RAlways, PTL

\* So no cut, backfill, crash or scan takes a history away that could be
\* resumed: only the budget, a longer tail and a verdict about contents do, or
\* a base or tail put over a file the writer has not found, or what is done
\* while the index may describe a file as it was.
THEOREM NothingIsLost == Spec => NothingLost
  <1>1. DInv /\ RInv /\ [Next]_vars =>
            [\/ disk' = disk
             \/ Resumable(InView(disk)) \subseteq Resumable(disk')
             \/ Deletes \/ WritesOver
             \/ Rotted' # {} \/ misread' # {}]_vars
    BY StepLosesNothing
  <1> QED
    BY <1>1, TierHoldsTogether, RAlways, PTL DEF Spec, NothingLost

\* And a tail that was recorded can be resumed at its deepest snapshot: what it
\* is chained onto is there down to its root, within MAX_CHAIN_DEPTH.  Unless a
\* file has gone bad, or the index may describe one as it was.
THEOREM WritesAreResumable == Spec => WrittenIsResumable
  <1>1. DInv /\ RInv /\ [Next]_vars =>
            [At("record") /\ writer.put.role = "tail" /\ writer'.pc = "link" /\ writer.put.snaps # {}
              => \/ Upto(History, Max(writer.put.snaps)) \in Resumable(disk')
                 \/ Rotted # {} \/ misread # {}]_vars
    BY StepIsResumable
  <1> QED
    BY <1>1, TierHoldsTogether, RAlways, PTL DEF Spec, WrittenIsResumable
=============================================================================
