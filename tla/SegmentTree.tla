---------------------------- MODULE SegmentTree ----------------------------
(***************************************************************************)
(* The tree of stored segments (src/serve/disk_tier.rs) as pure operators. *)
(*                                                                         *)
(* A segment is named by the hash of the whole history it ends at.  Here   *)
(* its name IS that history, which is what the hash stands for; the        *)
(* collisions the code guards against are left out.  A segment stores the  *)
(* span of its name after "start"; its parent is the segment named by what *)
(* comes before.  "snaps" are the positions its snapshots restore to.      *)
(*                                                                         *)
(* A tree is a function from names to segments: the files on disk, or the  *)
(* index of them, whose entries have a standing besides.                   *)
(***************************************************************************)
EXTENDS Naturals, SequencesExt

CONSTANTS
    MaxDepth,   \* MAX_CHAIN_DEPTH
    MinGrowth   \* DISK_MIN_GROWTH

ASSUME TreeConstantsOK == MaxDepth \in Nat \ {0} /\ MinGrowth \in Nat

\* The history of no tokens: the parent of a root, and where no name is meant.
Root == <<>>

Upto(h, pos) == SubSeq(h, 1, pos)
CommonLen(a, b) == Cardinality({n \in DOMAIN a \cap DOMAIN b : Upto(a, n) = Upto(b, n)})
\* They have something in common.
SameStart(a, b) == a # Root /\ b # Root /\ a[1] = b[1]

\* The name of a segment's parent.
ParentOf(tree, f) == Upto(f, tree[f].start)

\* Up(tree, f)[n] is the n-th name on the way from f to its root, Root once
\* the way has ended, there or at a name that is missing.
Up(tree, f) ==
    LET up[n \in 0..MaxDepth] ==
            IF n = 0 THEN f
            ELSE LET below == up[n - 1]
                 IN  IF below \in DOMAIN tree THEN ParentOf(tree, below) ELSE Root
    IN  up

\* Every name on that way, those that are missing included.
Chain(tree, f) == LET up == Up(tree, f) IN {up[n] : n \in 0..MaxDepth} \ {Root}

\* Nothing is missing between f and its root, and it is not too far away.
\* What Store::cumulative can assemble, and what a scan links up.
Complete(tree, f) ==
    Chain(tree, f) \subseteq DOMAIN tree /\ Up(tree, f)[MaxDepth] = Root

\* The segments that name "parent", whatever their standing.
Children(tree, parent) ==
    {f \in DOMAIN tree : f # Root /\ ParentOf(tree, f) = parent}
HasChildren(tree, f) == Children(tree, f) # {}

\* f and whatever is chained behind it.
Subtree(tree, f) == {g \in DOMAIN tree : f \in Chain(tree, g)}

\* How many segments deep the subtree of f reaches.
Height(tree, f) ==
    Max({n + 1 : n \in {m \in 0..MaxDepth - 1 :
                            \E g \in DOMAIN tree : Up(tree, g)[m] = f}})

\* The segments a walk may be built on, and those it reaches.
Ready(tree) == {f \in DOMAIN tree : tree[f].standing = "ready"}
Walked(tree) == {f \in DOMAIN tree : Complete(tree, f) /\ Chain(tree, f) \subseteq Ready(tree)}

SnapsOfChain(tree, f) == UNION {tree[g].snaps : g \in Chain(tree, f) \cap DOMAIN tree}

(***************************************************************************)
(* Where a history lies in the tree: how far whole segments cover it, how  *)
(* deep anything could resume it, the segment it leaves in the middle, and *)
(* the last of the covering ones.                                          *)
(***************************************************************************)

\* Of the children that match a history equally far, the name decides.  A
\* hash prefers no length: "longer" is what it happens to prefer.
Preferred(names, longer) ==
    CHOOSE f \in names : \A g \in names : IF longer THEN Len(g) <= Len(f) ELSE Len(f) <= Len(g)

\* The child to follow below the segments that cover h up to its boundary.
BestChild(tree, h, boundary, longer) ==
    LET ready  == {f \in Children(tree, Upto(h, boundary)) \cap Ready(tree) :
                        CommonLen(f, h) > boundary}
        shared == {CommonLen(f, h) : f \in ready}
    IN  IF ready = {} THEN Root
        ELSE Preferred({f \in ready : CommonLen(f, h) = Max(shared)}, longer)

Deeper(snaps, pos, sofar) == Max({s \in snaps : s <= pos} \cup {sofar})

\* One level of locate(): the segment that covers what comes next, or the end.
Descend(tree, h, at, longer) ==
    LET f       == BestChild(tree, h, at.boundary, longer)
        reached == CommonLen(f, h)
    IN  IF f = Root \/ at.boundary = Len(h) THEN [at EXCEPT !.ended = TRUE]
        ELSE IF reached < Len(f)
        THEN [at EXCEPT !.ended = TRUE, !.diverged = f, !.at = reached,
                        !.resumable = Deeper(tree[f].snaps, reached, @)]
        ELSE [at EXCEPT !.boundary = Len(f), !.depth = @ + 1, !.tail = f,
                        !.resumable = Deeper(tree[f].snaps, reached, @)]

Locate(tree, h, longer) ==
    LET nowhere == [boundary |-> 0, depth |-> 0, resumable |-> 0, tail |-> Root,
                    diverged |-> Root, at |-> 0, ended |-> FALSE]
        level[n \in 0..MaxDepth] ==
            IF n = 0 THEN nowhere
            ELSE LET before == level[n - 1]
                 IN  IF before.ended THEN before ELSE Descend(tree, h, before, longer)
    IN  level[MaxDepth]

WorthWriting(located, len) ==
    /\ located.boundary < len
    /\ located.resumable = 0 \/ len - located.resumable >= MinGrowth

(***************************************************************************)
(* What a write does to the tree.                                          *)
(***************************************************************************)

\* A slip: the level the cut adds is forgotten.
CanSplitAtTheCap(tree, located) ==
    /\ located.diverged # Root
    /\ located.depth + Height(tree, located.diverged) <= MaxDepth
\* Whether the segment the history leaves in the middle can be cut: the cut
\* puts whatever is chained behind it one level further from the root.
CanSplit(tree, located) ==
    /\ located.diverged # Root
    /\ located.depth + Height(tree, located.diverged) < MaxDepth

\* A slip: off by one at the cap.
TailStartPastTheCap(tree, located) ==
    IF located.depth > MaxDepth THEN tree[located.tail].start ELSE located.boundary
\* Where the new segment starts if nothing is cut: behind the covering ones,
\* or in place of the last of them, when the chain is at its depth cap.
TailStart(tree, located) ==
    IF located.depth + 1 > MaxDepth
    THEN tree[located.tail].start
    ELSE located.boundary

\* Tails of the same conversation that nothing chains onto any more.
Superseded(tree, h, fresh, linked) ==
    {f \in DOMAIN tree \ (fresh \cup linked) :
        /\ IsStrictPrefix(f, h)
        /\ Complete(tree, f)
        /\ ~HasChildren(tree, f)}

(***************************************************************************)
(* The chains that would serve a prompt, each with the position it would   *)
(* resume at; only the deepest such position is wanted.                    *)
(***************************************************************************)
ResumeAt(tree, f, prompt) ==
    LET cap == Min({CommonLen(f, prompt), Len(prompt) - 1})
    IN  Deeper(SnapsOfChain(tree, f), cap, 0)

Candidates(tree, prompt) ==
    LET reached  == {f \in Walked(tree) : CommonLen(f, prompt) > tree[f].start}
        deepest  == Max({ResumeAt(tree, f, prompt) : f \in reached} \cup {0})
    IN  {f \in reached : deepest > 0 /\ ResumeAt(tree, f, prompt) = deepest}

(***************************************************************************)
(* What a tree of files is worth: every history somebody could resume.     *)
(* A file with a chain that is too long, broken or unreadable gives none.  *)
(***************************************************************************)
Readable(files) ==
    {f \in DOMAIN files : Complete(files, f) /\ \A g \in Chain(files, f) : files[g].ok}
Resumable(files) == UNION {{Upto(f, s) : s \in files[f].snaps} : f \in Readable(files)}
=============================================================================
