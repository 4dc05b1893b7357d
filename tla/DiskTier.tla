----------------------------- MODULE DiskTier -----------------------------
(***************************************************************************)
(* The disk tier of the warm conversations (src/serve/disk_tier.rs): the   *)
(* tree of segment files, its index, and the two threads that share it.    *)
(* The engine thread looks up and reads chains, queues writes, links slots *)
(* to what they would come back from and unlinks them; the writer thread   *)
(* splits, rewrites, supersedes and evicts files behind its back.  One     *)
(* mutex guards the index, never across I/O: a step here is a critical     *)
(* section or one operation on one file.  Files survive a crash, nothing   *)
(* else does.                                                              *)
(*                                                                         *)
(* A write publishes a file by renaming it, so a file is there whole or    *)
(* not at all, and a crash inside leaves a .tmp that the scan sweeps.      *)
(*                                                                         *)
(* Left out: drafter planes and rows, which go where the tokens go; other  *)
(* checkpoints' files; collisions; the order of use, so that the budget    *)
(* may take any file it is allowed to take, not the oldest.                *)
(***************************************************************************)
EXTENDS SegmentTree

CONSTANTS
    Slots,          \* the engine's cache slots
    Conversations,  \* the histories a slot may come to hold
    Prompts,        \* the prompts that look for a stored conversation
    Snapshots,      \* Snapshots[h]: the sets of positions it may hold snapshots at
    Budget,         \* what the files may take; a token takes one
    Faults,         \* what may go wrong, with its file: <<"rot", f>>, its content goes
                    \* bad; <<"header", f>>, a scan cannot read its header; <<"write", f>>,
                    \* it cannot be written; <<"refused", f>>, the engine turns down the
                    \* image whose leaf it is
    MaxFaults       \* how much of it (bounds the model)

ASSUME TierConstantsOK ==
    /\ Conversations \subseteq Seq(Nat) \ {Root}
    /\ Prompts \subseteq Conversations
    /\ \A h \in Conversations : \A snaps \in Snapshots[h] : snaps \subseteq 1..Len(h)
    /\ Budget \in Nat
    /\ \A fault \in Faults : fault[1] \in {"rot", "header", "write", "refused"}
    /\ MaxFaults \in Nat

VARIABLES
    disk,     \* the segment files: name -> [start, snaps, ok]
    index,    \* Store.index: name -> [start, snaps, standing]
    links,    \* Store.links, Root for none
    holds,    \* the conversation in each of the engine's slots, Root for none
    pending,  \* Store.pending in the order of the stamps
    writer,   \* the writer thread and the request it has claimed
    reader,   \* the engine thread in the middle of a hydration
    up,       \* "down", "opening" (between scan and first pruning) or "up"
    faults,   \* what has gone wrong so far, and with which file
    misread,  \* history: the files whose entries a refresh has set, since the
              \* scan, to what the files did not hold any more
    taken     \* history: the slots that a hydration took over while a write
              \* of what they held before was under way

vars == <<disk, index, links, holds, pending, writer, reader, up, faults, misread, taken>>

NoRequest == [slot |-> 0, tokens |-> Root, snaps |-> {}, current |-> FALSE]
NoPut == [name |-> Root, start |-> 0, snaps |-> {}, role |-> "none"]
IdleWriter == [pc |-> "idle", req |-> NoRequest, path |-> Root, at |-> 0, boundary |-> 0,
               put |-> NoPut, rest |-> NoPut, fresh |-> {}, doomed |-> {}]
IdleReader == [pc |-> "idle", slot |-> 0, prompt |-> Root, leaf |-> Root, resume |-> 0,
               next |-> Root, read |-> [f \in {} |-> {}]]

Fault(kind, f) ==
    /\ <<kind, f>> \in Faults /\ Cardinality(faults) < MaxFaults
    /\ faults' = faults \cup {<<kind, f>>}
FaultsOf(kind) == {fault[2] : fault \in {x \in faults : x[1] = kind}}
Rotted == FaultsOf("rot")
Unread == FaultsOf("header")

Linked == {links[s] : s \in Slots} \ {Root}

\* Put a file, or its entry, under a name; take it away; the links to it.
With(f, x, g) == [y \in DOMAIN g \cup {f} |-> IF y = f THEN x ELSE g[y]]
Without(f, g) == [x \in DOMAIN g \ {f} |-> g[x]]
Demoted(tree, f) ==
    [g \in DOMAIN tree |->
        IF f \in DOMAIN tree /\ g \in Subtree(tree, f)
        THEN [tree[g] EXCEPT !.standing = "demoted"] ELSE tree[g]]
LinksWithout(f) == [s \in Slots |-> IF links[s] = f THEN Root ELSE links[s]]

\* condemn: the file goes, nothing is built on what is behind it, and its
\* entry and links go.  Between the first of these and the rest only an open
\* could tell, and that misses either way.
Condemn(f) ==
    /\ disk' = Without(f, disk)
    /\ index' = Without(f, Demoted(index, f))
    /\ links' = LinksWithout(f)

---------------------------------------------------------------------------
(* The engine thread.                                                      *)

EngineFree == up = "up" /\ reader.pc = "idle"

\* A job is served from slot s, whose conversation becomes h.  Resuming keeps
\* the link to what the slot held; starting over goes through Unlink first.
Serve(s, h) ==
    /\ EngineFree
    /\ holds[s] # h
    /\ holds[s] # Root => SameStart(holds[s], h)
    /\ holds' = [holds EXCEPT ![s] = h]
    /\ UNCHANGED <<disk, index, links, pending, writer, reader, up, faults, misread, taken>>

\* A slot gives its conversation up: trimmed, abandoned, or about to hold
\* another.  Every epoch a request of this slot was queued at is over.
NotCurrent(req, s) == [req EXCEPT !.current = @ /\ req.slot # s]
Unlink(s) ==
    /\ up = "up" /\ reader.pc \in {"idle", "composed"}
    /\ holds[s] # Root
    /\ holds' = [holds EXCEPT ![s] = Root]
    /\ links' = [links EXCEPT ![s] = Root]
    /\ pending' = [i \in DOMAIN pending |-> NotCurrent(pending[i], s)]
    /\ writer' = [writer EXCEPT !.req = NotCurrent(@, s)]
    /\ taken' = taken \ {s}
    /\ UNCHANGED <<disk, index, reader, up, faults, misread>>

\* page_out_live queues the conversation it paged out.  At most one request
\* a slot: the newest replaces the one before, and waits its turn anew.
OthersPending(s) ==
    LET older == {i \in DOMAIN pending : pending[i].slot = s}
    IN  IF older = {} THEN pending ELSE RemoveAt(pending, CHOOSE i \in older : TRUE)
QueueWrite(s, snaps) ==
    /\ up = "up" /\ reader.pc \in {"idle", "composed"}
    /\ holds[s] # Root /\ reader.slot # s
    /\ snaps # {}
    /\ \E longer \in BOOLEAN :
            WorthWriting(Locate(index, holds[s], longer), Len(holds[s]))
    /\ pending' = Append(OthersPending(s),
                         [slot |-> s, tokens |-> holds[s], snaps |-> snaps, current |-> TRUE])
    /\ UNCHANGED <<disk, index, links, holds, writer, reader, up, faults, misread, taken>>

\* A stored chain would resume the prompt deeper than any warm slot does.
\* "beat" is 0: what the warm slots offer only makes this happen less often.
\* The image is for a new slot or, in a full table, for the least recently used
\* one that is not live, whatever it holds: any slot, the order of use being
\* left out.
ChooseStored(s, prompt) ==
    /\ EngineFree
    /\ \E leaf \in Candidates(index, prompt) :
          reader' = [IdleReader EXCEPT !.pc = "reading", !.slot = s, !.prompt = prompt,
                        !.leaf = leaf, !.next = leaf, !.resume = ResumeAt(index, leaf, prompt)]
    /\ UNCHANGED <<disk, index, links, holds, pending, writer, up, faults, misread, taken>>

Miss == reader' = IdleReader
\* forget_stale, for a fault in front of the leaf.
ForgetStale(tree, linked) ==
    /\ index' = Demoted(tree, reader.leaf)
    /\ links' = [s \in Slots |-> IF linked[s] = reader.leaf THEN Root ELSE linked[s]]

\* The next file of the chain is not there, or cannot be opened.
OpenFails ==
    /\ reader.pc = "reading"
    /\ reader.next \notin DOMAIN disk
    /\ IF reader.next = reader.leaf THEN UNCHANGED <<index, links>>
       ELSE ForgetStale(index, links)
    /\ Miss
    /\ UNCHANGED <<disk, holds, pending, writer, up, faults, misread, taken>>

\* The next file is opened and read in full; it names the one in front of it.
\* A chain read to its root is composed, if it can still be resumed at the
\* position that was chosen: nothing here is shared, so this is no step of its
\* own.  A chain too long to be read does not come up: see WrittenIsResumable.
ReadNext ==
    /\ reader.pc = "reading"
    /\ reader.next \in DOMAIN disk /\ disk[reader.next].ok
    /\ LET f      == reader.next
           parent == ParentOf(disk, f)
           read   == With(f, [start |-> disk[f].start, snaps |-> disk[f].snaps], reader.read)
       IN  reader' =
               IF parent # Root THEN [reader EXCEPT !.read = read, !.next = parent]
               ELSE IF \E g \in DOMAIN read : reader.resume \in read[g].snaps
               THEN [reader EXCEPT !.pc = "composed", !.read = IdleReader.read, !.next = Root]
               ELSE [reader EXCEPT !.pc = "stale", !.read = read, !.next = Root]
    /\ UNCHANGED <<disk, index, links, holds, pending, writer, up, faults, misread, taken>>

\* What was read does not hold together: the file is deleted, if it is still
\* the one that was read, and the candidate is not built on.
ReadsRot ==
    /\ reader.pc = "reading"
    /\ reader.next \in DOMAIN disk /\ ~disk[reader.next].ok
    /\ disk' = Without(reader.next, disk)
    /\ LET f    == reader.next
           gone == Without(f, Demoted(index, f))
       IN  IF f = reader.leaf THEN index' = gone /\ links' = LinksWithout(f)
           ELSE ForgetStale(gone, LinksWithout(f))
    /\ Miss
    /\ UNCHANGED <<holds, pending, writer, up, faults, misread, taken>>

\* refresh: the chain is whole and of no use; the index learns what it held when
\* it was read.  The writer may have put another file under the name since; if
\* it is still to record that one, it will.
StillThere(f) ==
    disk[f].start = reader.read[f].start /\ disk[f].snaps = reader.read[f].snaps
Overtaken ==
    {f \in DOMAIN reader.read \cap DOMAIN index \cap DOMAIN disk :
        ~StillThere(f) /\ ~(writer.pc = "record" /\ f = writer.put.name)}
Refresh ==
    /\ reader.pc = "stale"
    /\ misread' = misread \cup Overtaken
    /\ index' = [f \in DOMAIN index |->
                    IF f \in DOMAIN reader.read
                    THEN [index[f] EXCEPT !.start = reader.read[f].start,
                                          !.snaps = reader.read[f].snaps]
                    ELSE index[f]]
    /\ Miss
    /\ UNCHANGED <<disk, links, holds, pending, writer, up, faults, taken>>

\* The engine turns the image down (set_unusable), or the job went away.
TurnDown ==
    /\ reader.pc = "composed"
    /\ \/ ForgetStale(index, links) /\ Fault("refused", reader.leaf)
       \/ UNCHANGED <<index, links, faults>>
    /\ Miss
    /\ UNCHANGED <<disk, holds, pending, writer, up, misread, taken>>

\* The image is installed over whatever the slot held and note_hydrated links
\* the slot to its tail; the prompt is then prefilled behind it.  No epoch ends
\* here: a write of what the slot held is current still.
Awaited(s) ==
    \/ \E i \in DOMAIN pending : pending[i].slot = s /\ pending[i].current
    \/ writer.req.slot = s /\ writer.req.current
NoteHydrated ==
    /\ reader.pc = "composed"
    /\ holds' = [holds EXCEPT ![reader.slot] = reader.prompt]
    /\ links' = [links EXCEPT ![reader.slot] = reader.leaf]
    /\ taken' = IF Awaited(reader.slot) THEN taken \cup {reader.slot} ELSE taken
    /\ Miss
    /\ UNCHANGED <<disk, index, pending, writer, up, faults, misread>>

---------------------------------------------------------------------------
(* The writer thread.                                                      *)

Running == up = "up"
At(pc) == writer.pc = pc
History == writer.req.tokens
Goto(pc) == writer' = [writer EXCEPT !.pc = pc]
BackfillAt(at) == writer' = [IdleWriter EXCEPT !.pc = "backfill", !.req = writer.req, !.at = at]

\* claim: the oldest pending request leaves the map.
Claim ==
    /\ Running /\ At("idle") /\ pending # <<>>
    /\ writer' = [IdleWriter EXCEPT !.pc = "locate", !.req = Head(pending)]
    /\ pending' = Tail(pending)
    /\ UNCHANGED <<disk, index, links, holds, reader, up, faults, misread, taken>>

\* write_one asks again whether to write at all, and plans.
PlanWrite(longer) ==
    LET located == Locate(index, History, longer)
    IN  /\ Running /\ At("locate")
        /\ IF ~WorthWriting(located, Len(History))
           THEN writer' = IdleWriter
           ELSE IF CanSplit(index, located)
           THEN writer' = [writer EXCEPT !.pc = "split", !.path = located.diverged,
                                !.at = located.at, !.boundary = located.boundary]
           ELSE BackfillAt(TailStart(index, located))
        /\ UNCHANGED <<disk, index, links, holds, pending, reader, up, faults, misread, taken>>

\* The two files of a split: the base under a new name, with the snapshot the
\* request took at the branch if there is none, and then the rest of the
\* segment under its old one.
BasePut(file, at) ==
    [name |-> Upto(History, at), start |-> file.start, role |-> "base",
     snaps |-> {s \in file.snaps : s <= at} \cup ({at} \cap writer.req.snaps)]
\* A slip: the rest keeps the snapshots that went with the base.
RestPutUncut(file, path, at) ==
    [name |-> path, start |-> at, role |-> "rest", snaps |-> file.snaps]
RestPut(file, path, at) ==
    [name |-> path, start |-> at, role |-> "rest", snaps |-> {s \in file.snaps : s > at}]

\* The file to be cut is read, and deleted if it does not hold together.  One
\* that is gone, or that the cut does not fit any longer, is left alone.
CutFits(file) == file.start < writer.at /\ writer.at < Len(History)
ReadForSplit ==
    LET path == writer.path
        file == disk[path]
    IN  /\ Running /\ At("split")
        /\ IF path \in DOMAIN disk /\ file.ok /\ CutFits(file)
           THEN writer' = [writer EXCEPT !.pc = "put", !.path = Root,
                               !.put = BasePut(file, writer.at), !.rest = RestPut(file, path, writer.at)]
           ELSE BackfillAt(writer.boundary)
        /\ IF path \in DOMAIN disk /\ ~file.ok THEN Condemn(path)
           ELSE UNCHANGED <<disk, index, links>>
        /\ UNCHANGED <<holds, pending, reader, up, faults, misread, taken>>

\* What follows a put, done or not.
TailPut(at) ==
    [name |-> History, start |-> at, role |-> "tail",
     snaps |-> {s \in writer.req.snaps : s > at}]
AfterPut(w, done) ==
    CASE w.put.role = "base" /\ done ->
            [w EXCEPT !.pc = "put", !.put = w.rest, !.rest = NoPut, !.boundary = 0]
      [] w.put.role = "base" /\ ~done ->
            [IdleWriter EXCEPT !.pc = "backfill", !.req = w.req, !.fresh = w.fresh, !.at = w.boundary]
      [] w.put.role = "rest" -> [w EXCEPT !.pc = "backfill", !.put = NoPut]
      [] w.put.role = "backfill" -> [w EXCEPT !.pc = "put", !.put = TailPut(w.at)]
      [] w.put.role = "tail" /\ done -> [w EXCEPT !.pc = "link", !.put = NoPut, !.at = 0]
      [] OTHER -> IdleWriter

\* put_segment replaces only a file whose history it can tell to be the same.
\* Only the writer adds entries, so asking and renaming are one step.
MayReplace(f) == f \in DOMAIN index => Complete(index, f)
PutFile ==
    LET put == writer.put
    IN  /\ Running /\ At("put") /\ MayReplace(put.name)
        /\ disk' = With(put.name, [start |-> put.start, snaps |-> put.snaps, ok |-> TRUE], disk)
        /\ Goto("record")
        /\ UNCHANGED <<index, links, holds, pending, reader, up, faults, misread, taken>>
\* A slip: the entry of a segment that is there already is left as it is.
EntryOnce(put) ==
    IF put.name \in DOMAIN index THEN index[put.name]
    ELSE [start |-> put.start, snaps |-> put.snaps, standing |-> "ready"]
Entry(put) == [start |-> put.start, snaps |-> put.snaps, standing |-> "ready"]
RecordPut ==
    /\ Running /\ At("record")
    /\ index' = With(writer.put.name, Entry(writer.put), index)
    /\ writer' = AfterPut([writer EXCEPT !.fresh = @ \cup {writer.put.name}], TRUE)
    /\ UNCHANGED <<disk, links, holds, pending, reader, up, faults, misread, taken>>

\* The name seems to be another conversation's, or the disk refuses the write.
PutFails ==
    /\ Running /\ At("put")
    /\ IF MayReplace(writer.put.name) THEN Fault("write", writer.put.name) ELSE UNCHANGED faults
    /\ writer' = AfterPut(writer, FALSE)
    /\ UNCHANGED <<disk, index, links, holds, pending, reader, up, misread, taken>>

\* backfill_boundary: the segment the tail will be chained onto is rewritten
\* with the request's snapshot at their boundary, if it has none there.
BackfillPut(parent) ==
    [name |-> parent, start |-> disk[parent].start, role |-> "backfill",
     snaps |-> disk[parent].snaps \cup {writer.at}]
Backfill ==
    LET at     == writer.at
        parent == Upto(History, at)
        read   == /\ at > 0 /\ at \in writer.req.snaps
                  /\ parent \in DOMAIN index /\ at \notin index[parent].snaps
                  /\ parent \in DOMAIN disk
        wanted == read /\ disk[parent].ok /\ at \notin disk[parent].snaps
    IN  /\ Running /\ At("backfill")
        /\ writer' = [writer EXCEPT !.pc = "put",
                          !.put = IF wanted THEN BackfillPut(parent) ELSE TailPut(at)]
        /\ IF read /\ ~disk[parent].ok THEN Condemn(parent) ELSE UNCHANGED <<disk, index, links>>
        /\ UNCHANGED <<holds, pending, reader, up, faults, misread, taken>>

\* A slip: the epoch is not asked.
LinkWrittenAnyway ==
    /\ Running /\ At("link")
    /\ links' = [links EXCEPT ![writer.req.slot] = History]
    /\ Goto("supersede")
    /\ UNCHANGED <<disk, index, holds, pending, reader, up, faults, misread, taken>>
\* The slot is linked to what was written for it, while it still holds the
\* conversation; then what the write made redundant is named.
LinkWritten ==
    /\ Running /\ At("link")
    /\ links' = IF writer.req.current THEN [links EXCEPT ![writer.req.slot] = History] ELSE links
    /\ Goto("supersede")
    /\ UNCHANGED <<disk, index, holds, pending, reader, up, faults, misread, taken>>
Condemning(doomed) ==
    writer' = [writer EXCEPT !.pc = IF doomed = {} THEN "evict" ELSE "condemn", !.doomed = doomed]
NameSuperseded ==
    /\ Running /\ At("supersede")
    /\ Condemning(Superseded(index, History, writer.fresh, Linked))
    /\ UNCHANGED <<disk, index, links, holds, pending, reader, up, faults, misread, taken>>
CondemnSuperseded(f) ==
    /\ Running /\ At("condemn") /\ f \in writer.doomed
    /\ Condemn(f)
    /\ Condemning(writer.doomed \ {f})
    /\ UNCHANGED <<holds, pending, reader, up, faults, misread, taken>>

\* enforce_budget: a victim is picked under the lock, and deleted outside it.
Bytes == MapThenSumSet(LAMBDA f : Len(f) - index[f].start, DOMAIN index)
\* A slip: what is chained onto a file does not keep it.
EvictableWithChildren ==
    {f \in DOMAIN index \ (writer.fresh \cup Linked) : index[f].standing # "held"}
Evictable ==
    {f \in DOMAIN index \ (writer.fresh \cup Linked) :
        index[f].standing # "held" /\ ~HasChildren(index, f)}
PickVictim(f) ==
    /\ At("evict") /\ Bytes > Budget /\ f \in Evictable
    /\ writer' = [writer EXCEPT !.pc = "erase", !.path = f]
    /\ UNCHANGED <<disk, index, links, holds, pending, reader, up, faults, misread, taken>>
\* A slip: the entry goes although the file would not.
EraseEntry ==
    /\ At("erase")
    /\ index' = Without(writer.path, index)
    /\ writer' = [writer EXCEPT !.pc = "evict", !.path = Root]
    /\ UNCHANGED <<disk, links, holds, pending, reader, up, faults, misread, taken>>
Erase ==
    /\ At("erase")
    /\ disk' = Without(writer.path, disk)
    /\ index' = Without(writer.path, index)
    /\ writer' = [writer EXCEPT !.pc = "evict", !.path = Root]
    /\ UNCHANGED <<links, holds, pending, reader, up, faults, misread, taken>>
WithinBudget ==
    /\ At("evict") /\ (Bytes <= Budget \/ Evictable = {})
    /\ writer' = IdleWriter
    /\ up' = "up"
    /\ UNCHANGED <<disk, index, links, holds, pending, reader, faults, misread, taken>>

---------------------------------------------------------------------------
(* Crashes, restarts, and files that go bad.                               *)

NoMemory ==
    /\ links' = [s \in Slots |-> Root]
    /\ holds' = [s \in Slots |-> Root]
    /\ pending' = <<>>
    /\ reader' = IdleReader

\* The process dies with whatever it had in memory.
Crash ==
    /\ up # "down"
    /\ up' = "down"
    /\ index' = [f \in {} |-> {}]
    /\ writer' = IdleWriter
    /\ taken' = {}
    /\ NoMemory
    /\ UNCHANGED <<disk, faults, misread>>

\* The scan.  "faulty" are files whose headers cannot be read this time: they
\* stay, and so does what waits behind them.  The rest is linked up from its
\* roots or deleted.
Scanned(found) == [f \in DOMAIN found |-> [start |-> found[f].start, snaps |-> found[f].snaps]]
Waiting(found, faulty) == {f \in DOMAIN found : Chain(found, f) \cap faulty # {}}
Scan(faulty) ==
    LET sound  == {f \in DOMAIN disk : disk[f].ok}
        found  == [f \in sound \ faulty |-> disk[f]]
        linked == {f \in DOMAIN found : Complete(found, f)}
        held   == Waiting(found, faulty)
    IN  /\ up = "down"
        /\ IF faulty = {} THEN UNCHANGED faults ELSE \E f \in faulty : Fault("header", f)
        /\ up' = "opening"
        /\ index' = [f \in linked \cup held |->
                        [start |-> disk[f].start, snaps |-> disk[f].snaps,
                         standing |-> IF f \in linked THEN "ready" ELSE "held"]]
        /\ disk' = [f \in linked \cup held \cup faulty |-> disk[f]]
        /\ writer' = [IdleWriter EXCEPT !.pc = "evict"]
        /\ misread' = {}
        /\ UNCHANGED <<links, holds, pending, reader, taken>>

\* The content of a file goes bad on the disk: not while it is being written.
Rot(f) ==
    /\ Fault("rot", f) /\ f \in DOMAIN disk
    /\ ~(At("record") /\ f = writer.put.name)
    /\ disk' = [disk EXCEPT ![f].ok = FALSE]
    /\ UNCHANGED <<index, links, holds, pending, writer, reader, up, misread, taken>>

---------------------------------------------------------------------------
Init ==
    /\ disk = [f \in {} |-> {}]
    /\ index = [f \in {} |-> {}]
    /\ links = [s \in Slots |-> Root]
    /\ holds = [s \in Slots |-> Root]
    /\ pending = <<>>
    /\ writer = IdleWriter
    /\ reader = IdleReader
    /\ up = "up"
    /\ faults = {}
    /\ misread = {}
    /\ taken = {}

Engine ==
    \/ \E s \in Slots :
        \/ Unlink(s)
        \/ \E h \in Conversations :
            Serve(s, h)
        \/ \E prompt \in Prompts : ChooseStored(s, prompt)
        \/ \E snaps \in Snapshots[holds[s]] : QueueWrite(s, snaps)
    \/ OpenFails \/ ReadNext \/ ReadsRot \/ Refresh \/ TurnDown \/ NoteHydrated

Writer ==
    \/ Claim \/ \E longer \in BOOLEAN : PlanWrite(longer)
    \/ ReadForSplit \/ PutFile \/ RecordPut \/ PutFails \/ Backfill
    \/ LinkWritten \/ NameSuperseded
    \/ \E f \in writer.doomed : CondemnSuperseded(f)
    \/ \E f \in DOMAIN index : PickVictim(f)
    \/ Erase \/ WithinBudget

Environment ==
    \/ Crash
    \/ \E faulty \in {{}} \cup {{f} : f \in DOMAIN disk} : Scan(faulty)
    \/ \E f \in DOMAIN disk : Rot(f)

Next == Engine \/ Writer \/ Environment
Spec == Init /\ [][Next]_vars

---------------------------------------------------------------------------
\* Names that may come up: what a conversation begins with.
Names == UNION {{Upto(h, n) : n \in 1..Len(h)} : h \in Conversations}

TypeOK ==
    /\ DOMAIN disk \subseteq Names /\ DOMAIN index \subseteq Names
    /\ links \in [Slots -> Names \cup {Root}]
    /\ holds \in [Slots -> Conversations \cup {Root}]
    /\ \A f \in DOMAIN disk : disk[f].start < Len(f) /\ disk[f].snaps \subseteq disk[f].start + 1..Len(f)
    /\ \A f \in DOMAIN index : index[f].start < Len(f) /\ index[f].standing \in {"ready", "demoted", "held"}
    /\ \A i \in DOMAIN pending : pending[i].slot \in Slots /\ pending[i].tokens \in Conversations

\* At every moment, so after a crash at any moment, what a file on disk chains
\* onto is on disk: nothing the writer or the budget does leaves rows with no
\* rows in front of them, which the next scan would delete.  Only a file that
\* went bad may leave such, or one whose header was not read, which the index
\* does not see (src/serve/disk_tier.rs:2000).  And where a refresh has set an
\* entry to what its file no longer held, what is in front of that file may be
\* taken for a tail that nothing chains onto, until the next scan.
Doubtful(p) == \E f \in misread : IsStrictPrefix(p, f)
ChainsComplete ==
    \A f \in DOMAIN disk \ Unread :
        LET parent == ParentOf(disk, f)
        IN  parent \in DOMAIN disk \cup {Root} \cup Rotted \/ Doubtful(parent)

\* A slot is linked to a file of the conversation it holds, and an empty slot
\* to none: a write that ends after its slot moved on protects nothing on that
\* slot's behalf (src/serve/disk_tier.rs:203, 1889).  Not of a slot that a
\* hydration took over while such a write was under way, until it is unlinked.
LinkIsOurs ==
    \A s \in Slots \ taken : links[s] # Root => SameStart(links[s], holds[s])

\* The claim of the source, of every slot: "anything already claimed by the
\* writer for this slot finishes without re-linking it", so that no file is
\* protected "on behalf of a slot that no longer holds it"
\* (src/serve/disk_tier.rs:1067, 207).
LinkIsAlwaysOurs ==
    \A s \in Slots : links[s] # Root => SameStart(links[s], holds[s])

\* The index counts what is on disk: no entry without a file, which a lookup
\* would choose in vain, and no file without an entry, which the budget would
\* not count (src/serve/disk_tier.rs:2271, 2324), although the writer publishes
\* and deletes files while the engine rejects them.  The scan leaves out only a
\* file it cannot read the header of.
IndexCountsDisk ==
    up # "down" => \A f \in (DOMAIN disk \ Unread) \cup DOMAIN index :
        f \in DOMAIN disk \cap DOMAIN index \/ (At("record") /\ f = writer.put.name)

\* And it says of a file what the file holds, so that what is written behind
\* it, cut out of it and deleted in front of it fits it.  Not of one that a
\* refresh has described as it was, since the scan.
Describes(f) ==
    \/ At("record") /\ f = writer.put.name
    \/ index[f].start = disk[f].start /\ index[f].snaps = disk[f].snaps
IndexIsAccurate ==
    up # "down" => \A f \in (DOMAIN disk \cap DOMAIN index) \ misread : Describes(f)

\* The claim of the source, of every file: a refresh is there to "bring the
\* index entries back in step with the files behind them" and tells "what the
\* chain holds now" (src/serve/disk_tier.rs:967).
IndexIsAlwaysAccurate ==
    up # "down" => \A f \in DOMAIN disk \cap DOMAIN index : Describes(f)

\* Whatever could be resumed from the disk can be resumed after the next step,
\* be it a cut, a rewrite, a crash or a scan (src/serve/disk_tier.rs:2000).
\* Only the budget, a longer tail, and a verdict about contents delete.  And
\* a base or a tail may be written, with fewer snapshots, over one of the same
\* history that the writer has not found: because the index does not build on
\* it, or because a split or a write that came to nothing left segments that
\* overlap, among which the name decides.  Nor is anything promised for what
\* lies behind a file a scan could not read: the index does not see it there.
\* Nor, from a refresh that described a file as it was until the next scan: a
\* cut counts the segments behind it by the index.
InView(files) ==
    [f \in {g \in DOMAIN files : Chain(files, g) \cap Unread = {}} |-> files[f]]
Deletes == At("erase") \/ At("condemn")
WritesOver == /\ At("put") /\ writer.put.role \in {"base", "tail"}
              /\ writer.put.name \in DOMAIN disk
NothingLost ==
    [][\/ disk' = disk
       \/ Resumable(InView(disk)) \subseteq Resumable(disk')
       \/ Deletes \/ WritesOver
       \/ Rotted' # {} \/ misread' # {}]_vars

\* When a tail has been written, its deepest snapshot can be resumed: it is
\* chained, within the depth cap, onto files that are all there.  Not after a
\* file went bad, nor while the index may describe one as it was.
WrittenIsResumable ==
    [][At("record") /\ writer.put.role = "tail" /\ writer'.pc = "link" /\ writer.put.snaps # {}
        => \/ Upto(History, Max(writer.put.snaps)) \in Resumable(disk')
           \/ Rotted # {} \/ misread # {}]_vars
=============================================================================
