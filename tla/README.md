# A verification development of xwen

xwen serves large language and image models from one machine: an HTTP server
in front of one inference thread per kind of model, a few one-shot commands
beside it, and a single accelerator whose memory holds one model at a time.
Its numerics are checked by parity tests against reference outputs. What
follows is about the rest: the queue, the warm conversations and their tier on
disk, the speculative round loop and the stream of events behind it, and the
exclusive slot for a resident model, where the interesting behaviour is in the
order of steps, in what fails half way, and in state that outlives a request.

Paths are relative to the repository (`src/serve/engine.rs` and so on).

## The system

| component | state it keeps | operations | with whom |
|---|---|---|---|
| job queue, `serve/queue.rs` | waiting jobs with their stamps, a closed flag, a condvar | push, take (sweep, choose), close, is_closed | HTTP handlers push, the engine thread takes, shutdown closes |
| server front, `serve/mod.rs`, `types.rs` | per request an event channel and a cancel token; the shutdown token | submit, drop of a handler, shutdown_signal and its watchdog | queue, engine through channels and tokens |
| language engine, `serve/engine.rs` | the loaded model, `dirty`, the lease, idle time | engine_loop, run_job, run_batch_job, reset, release | everything below |
| warm conversations, `engine.rs` (SlotManager, PrefixCache) | per slot: token history, ring snapshots, host image, drafter planes, agreement bound, use stamp; which slot is live | choose, fork, page out, page in, hydrate, rewind, restart, abandon, trim | KV cache and drafter of `generate.rs`, disk tier |
| generator, `generate.rs`, `kv_cache.rs` | KV cache, sliding-window rings, drafter cache | prefill, decode (plain or speculative), truncate, restore, export, import | engine |
| disk tier, `serve/disk_tier.rs`, `disk_cache.rs` | an index of chained segments, pending writes, links and epochs per slot, files | candidate, load, queue_write, writer thread (split, put, evict), scan, flush | engine thread and writer thread share it under a mutex; files survive the process |
| image engine, `serve/images.rs` | the loaded pipeline, a bounded queue, the lease | engine_loop, unload | lease |
| resident lease, `memory.rs` | per process: tickets, waiter count, owned, managed, reacquire_after; per machine: two file locks | acquire, should_yield, drop, admission | both engines, the commands, other processes |
| command line, `bin/xwen` | the lease | one-shot commands | lease |
| HTTP dialects, `openai.rs`, `anthropic.rs`, `native.rs` | the stream state of one reply | parse, render events | submit, event channel |
| models, kernels, tokenizers, checkpoints, downloads | weights, buffers, files | numerics, parsing | generator |
| Image Studio, `image-studio/` | configuration, sessions, a batch queue | a client of the server | HTTP |

What makes it hard:

* **Concurrency.** Handlers, the engine thread, the disk writer and the clock
  meet in the queue; threads and processes meet in the lease. No test in the
  repository interleaves them.
* **Partial failure.** A job can be abandoned, can fail or panic between any two
  of its writes to the one KV cache. The cache does not know whose rows it
  holds: only lengths are checked at run time, so a mistake gives a wrong answer
  and no error.
* **Stale plans.** Where a prompt resumes is decided before the paging that can
  evict what the decision rests on.
* **Time.** Queue timeouts against long jobs, aging against cheap jobs, the
  stand-back of a process that yields against another's polls.
* **Crashes.** Processes die with locks in hand, or between the two files of one
  operation; files rot, or cannot be read when the index is built.
* **Speculation.** Tokens are verified, and are in the caches, before they are
  reported; the report can be stopped anywhere, by a client that left, a
  deadline, a shutdown, a stop sequence or a cap, and the caches must follow.

What would make each component correct is stated below with the module that
models it; the full list of hazards, each at its line, is in `PROJECT.json`.

## Modules

| module | what it is |
|---|---|
| `JobQueue` | the queue with its handlers, the engine's side of it, shutdown, panic and time |
| `JobQueueProofs` | theorems about `JobQueue` |
| `PrefixCache` | pure operators: one conversation's history and snapshots, and the decisions taken from them |
| `ConversationSlots` | the warm conversations and one job's passage through them |
| `PrefixProofs` | lemmas about `PrefixCache`'s operators |
| `ConversationProofs` | theorems about `ConversationSlots` |
| `ResidentSlot` | the abstract promise: models are loaded into an empty machine |
| `ResidentLease` | how `memory.rs` and its users keep it |
| `ResidentLeaseTimed` | the same with polls and time, for liveness |
| `ResidentLeaseProofs` | theorems about `ResidentLease` |
| `SegmentTree` | pure operators: the tree of stored segments, lookups in it and the cuts it allows |
| `DiskTier` | the files, the index, the engine's side and the writer thread, crashes and faults |
| `DiskTierProofs` | lemmas about `SegmentTree`'s operators, theorems about `DiskTier` |
| `PlainDecode` | the abstract promise: one token drawn, one token reported |
| `Reply` | one generation: the speculative round loop, the emitter, the event channel, `Abandon` and the client |
| `PlainProofs` | theorems about `Reply`'s caches, and that it implements `PlainDecode` |
| `ReplyProofs` | theorems about `Reply`'s time and its stream of events |
| `MC...` | instances for TLC |

Operators whose comment begins with "A slip" are variants of the definition
after them with a bug somebody could plausibly write. They are not part of the
specifications; they show that each property can fail.

### JobQueue

`phase[r]` follows a request from its submission to the handler's answer;
`Queue` is `Inner.jobs`. Every critical section of `queue.rs` is one action:
`PushClosed`, `PushFull` and `PushAccepted` are the three ways out of `push`
(each but the first sweeps), `Pick` and `TakeNothing` the two outcomes of a
round of `take`, with the wait on the condvar between rounds. `Close` and
`CloseNotify` are two steps because `close` notifies after it has let go of the
lock; `Empty` is the `is_closed()` the loop asks after `take` returned `None`.
The condvar may wake the engine without a notification. A tick of `Tick` is any
span in which ages matter; ages saturate at the queue timeout, since the code
compares no further. The cost closure `hot` is any function from jobs to token
counts: the schedule's guarantees must not depend on it.

Correct means: nobody who waits is dropped (`OnlyTheGoneAreDropped`), nobody
who left is served and no expired job is (`TakesOnlyTheLiving`), no wakeup is
lost (`SleepsOnlyWhenIdle`), capacity is for the living
(`RefusedOnlyByTheLiving`), the aged are not overtaken (`AgedNeverOvertaken`),
so that nobody gets two requests in before one that has aged (`PassedOnlyOnce`;
`passed` is the history it is told by), everyone leaves (`EveryWaiterLeaves`),
shutdown arrives (`ShutdownReachesEngine`).

What ageing gives is counted in requests and not in time. A request that has
waited `age_limit` is passed by those ahead of it in age, each once; whether it
is served before `queue_timeout` depends on how long their jobs take, and the
code relates the two nowhere. As shipped (`config.rs:86-145`) the timeout covers
two prefills of the default context, 2640 s, where the queue holds 16 jobs, one
of which may run for more than 1700 s, and rates of 0 remove the job's deadline
altogether. So a patient client may well be told that its request expired, and
no property here says otherwise; that it is told is `EveryWaiterLeaves`.

### PrefixCache and ConversationSlots

What a cache, an image or a snapshot holds is modelled as the token sequence it
was computed from. That is more than the code knows, and it is the point:
`NeverWrongResume` says that the rows a prefill appends to are those of the
request's own prompt, which the code can only hope for. A snapshot is the
sequence its rings were computed from and its position the length of it.

A job is a chain of steps, cut wherever it can end early. `pc` is the place in
it: `dispatching` (the plan is made: `choose`, `fork_plan`, the stored
candidates), `paged_out`, `installed` (a slot was prepared for a fork or a
hydration), `dispatched`, `prefilling`, and back to `idle`, or `failed` when the
cache is left dirty, which `Reset` clears up. `PickJob` is `run_job` up to the
plan; `PageOut` is `page_out_live` with its trim; `ForkOff`, `InstallStored` and
`PageIn`, `StartFresh`, `ExtendLive`, `RestoreLive` and `RestartLive` are the
arms of the dispatch; `Settle` is the code after them, up to the planned stops;
`Prefill` is one chunk with the snapshot it may end in; `AbandonPrefill` and
`Decode` reconcile the history. `Fail` is a failing call anywhere in it,
`Panic` costs the model, `Unload` is the idle unload, the checkpoint swap and
the shutdown.

Abstracted: bytes. The budget of `trim_to_budget` is in bytes that depend on
architecture and payload, so a trim may empty any run of the least recently
used cold slots that the code's order allows, none included. Also: the position
of the reply's tokens in time, sampling, thinking budgets, grammar, events. The
disk tier is whatever images it could hold (`stored`), a read of one may fail,
a write may land or not; a write is bounded to one chain.

Correct means: `NeverWrongResume`; a cold slot's history and snapshots are
backed by its image (`ColdSlotsBacked`); between jobs the live history is what
the caches hold, and the retained image agrees as far as its bound says
(`LiveMatchesCache`); the plan survives the page-out (`PlanSurvivesPageOut`);
the run-time repair for a drifted length never runs (`NoDrift`); the snapshot
stops are sound (`StopsAhead`); a conversation that leaves the cache can come
back as deep as it was (`WhoLeavesStaysWarm`), and so can the source of a fork
(`ForkSparesItsSource`).

### ResidentLease

Each thread walks through `acquire`, the engine's use of the slot, and the
drop of the lease, one atomic operation, lock attempt or critical section at a
time. `ticketed`/`ahead` is the queue of tickets, `counted` the waiter count,
`sharing` and `probing` the two modes of the lock on `waiters.lock`, `owner` the
lock on `owner.lock`, `owned`, `managed` and `penalty` the process's flags and
the polling intervals left until `reacquire_after`. `Look` and `SwapOwned` are
two steps because the code reads the queue and the clock before it swaps the
flag. Server threads may give up waiting and yield to others; a command does
neither. `Crash` kills a process at any point, its locks go with it. The engines'
loops appear as `Decide` (the probe at the head), `StartJob`, `EndJob`, `NoJob`
and `Unload`; a model is in memory from the first to the last of these.

Three operations of `acquire` that nobody else can tell apart are merged in
`Grant`: the shared lock and the place in the queue are given up while the
thread already owns flag and lock, so no attempt of another succeeds whatever
it sees, and nobody probes. `Local` is the split of `Coordinator`s by process.

`ResidentSlot` is the promise: one variable, `model`, into which a thread loads
only when it is empty. `KeepsTheSlot` says that `ResidentLease` implements it,
under the identity mapping on `model`.

`ResidentLeaseTimed` adds polls. `polled` is who has looked since the last tick;
time passes only when every waiting thread has, and nobody is in the middle of
something that takes no time. So the stand-back of three intervals gives each
waiter several looks. This is the assumption that makes the code's comment true:
a thread asleep for longer than three polls may miss its chance.

### SegmentTree and DiskTier

A segment file is named by the hash of the whole history it ends at. In the
model its name *is* that history; what the file holds is the span after
`start`, and the segment it is chained onto is the one named by what comes
before. `disk` is the directory, `index`, `links` and `pending` are the fields
of `Store` under its mutex, `writer` the request the writer thread has claimed
with the place it is at, `reader` the engine thread in the middle of a
hydration, `holds` what each of the engine's slots contains. The epoch of a
request is kept as the one thing asked of it: whether it is still `current`.
The code never holds the mutex across I/O, so a step is one critical section or
one operation on one file; `PutFile` and `RecordPut`, for instance, are the
rename and the index entry behind it. Writes rename a finished file into place,
so a file is whole or absent.

The engine: `Serve`, `Unlink` and `QueueWrite` are what it tells the tier;
`ChooseStored`, `OpenFails`, `ReadNext`, `ReadsRot`, `Refresh`, `TurnDown` and
`NoteHydrated` are one hydration. The writer: `Claim`, `PlanWrite`,
`ReadForSplit`, the base and the rest of a cut and the tail as puts, `Backfill`,
`LinkWritten`, `NameSuperseded`, `CondemnSuperseded`, and `PickVictim` and `Erase`
for the budget. The environment: `Crash` at any moment, `Scan` at the next start,
`Rot` of a file, and three faults inside other steps: a header the scan cannot
read, a write that fails, an image the engine turns down. `MaxFaults` bounds
how many faults happen in a behaviour; crashes are not bounded.

Two steps of the engine are where the code promises more than it keeps, and
the model has them as they are. `ChooseStored` hydrates into any slot, whatever
it holds, as a full table makes it; `NoteHydrated` links it and ends no epoch.
`Refresh` sets what was read, whatever the writer did since. Two history
variables remember what follows: `taken`, the slots that a hydration took over
while a write of what they held was under way, until they are unlinked, and
`misread`, the files whose entries a refresh has set to what they no longer
held, until the next scan. What the code says of all slots and files
(`LinkIsAlwaysOurs`, `IndexIsAlwaysAccurate`) is refuted by `DiskTierRelink` and
`DiskTierHurried`; what holds of all others is in the passing run and proved.

Left out: drafter planes and rows (they go where the tokens
go), files of other checkpoints, hash collisions, the order of use (the budget
may take any file it is allowed to take), a delete that the file system
refuses, `deepest_shared` and `flush`, and the file container, which is parsing.

Correct means: at every moment, so after a crash at any moment, nothing lies on
disk with nothing in front of it (`ChainsComplete`); a slot is linked to a file of
the conversation it holds, but for the slots in `taken` (`LinkIsOurs`); index and
directory agree on what there is (`IndexCountsDisk`) and, but for the files in
`misread`, on what it holds (`IndexIsAccurate`); no step but a
deliberate deletion costs a history that could be resumed, a cut at the depth
cap, a crash inside it and the scan behind it included (`NothingLost`); and a
write that ends well has made its conversation resumable (`WrittenIsResumable`).
`ChainsComplete`, `NothingLost` and `WrittenIsResumable` except what lies in front
of a misread file, or the time while there is one: an entry set back to the start
it had before a cut makes the base of the cut look childless, so that the budget
may take it, and the chain behind it look a level shorter, so that a cut may pass
the cap. On the small instance TLC finds no such loss, not with four tokens of
budget either; the proofs need the exception, and it says what the code leaves
open.

### PlainDecode and Reply

`PlainDecode` is `decode_tokens`: the reply a seed determines is a stream of
tokens, reported one at a time until it is complete or somebody stops it. It polls
before each draw and not behind the token that completes the grammar or meets the
cap (`Ended`), so a complete reply is never a stopped one.

`Reply` is what runs instead when a drafter is attached, from `run_job`'s
dispatch to its return. `gen` is the generator: the rows of the target's cache
and of the drafter's, the penalty history, the number of draws, `n_past` and
`id_last`. A round is `PlainRound` or `VerifyRound` (whose drafts may be right
up to any point and wrong from there), then `Emit` and `Emitted` for each token,
then `Commit`, which cuts everything back to what was reported. `Draw` is the
point of the model: a draw is the next token of the reply only if the rows it
reads, the penalty history and the count of draws are those of the reply so far,
and `"off"` otherwise. Both loops are modelled: what a round gives the drafter
(`SyncRows`) is where `decode_loop_spec` and `decode_loop_mtp` differ.

A token is known by what it does to the emitter: text, text that may begin a
stop sequence, the rest of one, the markers of a tool call, the end of the reply
or of its grammar. `Accept`, `CloseSpan` and `WindDown` give the events it sends;
an event carries the tokens of the reply it brings the client. Whatever is text
goes through `PushAnswer`, which holds back what may grow into a stop sequence and
drops what follows a match: the span that never became a call as well, whether the
call's end, the next call's marker (`CloseSpan`) or the end of the reply
(`Healed`) closes it. `emitter` keeps the tokens of the open span and those the
filter holds. Sends are `outbox`:
`Deliver`, `Stall`, `GiveUp` and `Suppress` are the outcomes of
`send_until_interrupted` and of the latch behind it. `Reason` is
`Abandon::reason`, `ShouldStop` the predicate the loops poll. Time passes in a
blocked send, in a prefill and in a forward, and nowhere else. The client reads,
stalls for ever, or drops its receiver and its guard in either order.

Left out: reasoning blocks and the thinking budget, statistics, the pause
controller (a round may draft or not), errors of the device.

Correct means: the loop reports what plain decoding would report and ends where
it would end (`ImplementsPlain`); what it leaves in both caches is what was
reported, with a last token that was not forwarded at most (`SafeToResume`),
which is what `ConversationSlots` takes for granted of a decode; the client's
stream is one well-formed reply, no event before the tokens that stand before it,
with two exceptions named in it (`StreamIsWhole`; see the observations); whoever listens is told how
it ended (`ListenerIsAnswered`); an abandoned job holds the inference thread for
one send deadline at most (`WindDownBounded`), and any job lets go of it in the
end (`EngineGetsFree`).

## Runs

| run | question | bounds |
|---|---|---|
| `JobQueueSafety` | the queue's safety, panics and shutdown included | 3 requests, capacity 2, shortest-prefill, 2 costs, small timeouts; 2.9 million states |
| `JobQueueLiveness` | waiters leave, shutdown arrives | the engine's take without a timeout, so that only notifications wake it |
| `JobQueuePanic` | *violated*: waiters leave, if the engine thread may die | |
| `ConversationSlots` | all safety invariants of the conversations, and that forks and trims lose nothing | 1 or 3 slots, 3 jobs per load of the model, 3 prompts behind one system block, 3 replies, ring of 2, MTP drafter of 5; 265,000 states |
| `ConversationDisk` | the safety invariants with the disk tier and a full table | 2 slots, 2 jobs per load, ring of 1, DFlash drafter of 5; 3.1 million states |
| `ResidentLease` | safety of the lease, and that it implements `ResidentSlot` | 2 engines of a server, 1 command, crashes; 17,000 states |
| `ResidentLeaseTimed` | whoever waits is served | 2 servers of one engine each; 81,000 states |
| `DiskTier` | the tree, its index and its links, under crashes and one fault of any kind | 1 slot, a talk, its next turn, a fork of it and a conversation that shares nothing with them, depth cap 2, budget 3 tokens, at most 2 files once a fault has happened; 818,000 states |
| `DiskTierRelink` | *violated*: every slot is linked to what it holds | 2 slots, no faults |
| `DiskTierHurried` | *violated*: after a refresh the index says what the files hold | 1 slot, no faults |
| `Reply` | the round loop implements plain decoding; streams, answers, deadlines | 12 replies, cap 5, drafts of up to 3, target context 6, drafter context 4, channel of 1, deadlines of 2 ticks; 452,000 states |
| `ReplyRelabelled` | *violated*: a complete reply is not reported as cut | |

Why the bounds are enough. Queue: three requests are one that runs, one that is
overtaken and one that overtakes, and a request slot is used again, so an
overtaking can go on for ever; capacity 2 is below the number of requests, so
pushes are refused. Conversations: prompts extend and diverge from each other,
so that every arm of the dispatch is taken (the coverage of the
runs shows every action and every disjunct); with one slot a prompt that shares
nothing restarts it, two slots are the least in which a
swap can happen and fill the table in `ConversationDisk`, a third the least in
which a fork with a bystander can happen; the ring of
one or two makes `record` evict, a drafter shorter than the context makes it
lag. The model starts over after each unload, so histories are unbounded in the
number of loads, bounded (`MaxClock`) in the jobs of one. The lease: one holder
and two waiters, one of them local and one remote.

Disk tier: two levels are a tree with a cut, and a depth cap that is met by the
second turn; a budget of three tokens is less than the three conversations need
together, so files are evicted; the longest conversation has a snapshot at the
fork and at its end, the others at their end alone, so a cut meets a boundary
with and without a snapshot. The conversation that shares nothing is not stored
itself; it is what a slot may hold when a link to one of the others is wrong. In
the passing run there is one slot, which is every slot of the engine's in turn:
it is unlinked, served afresh and hydrated over, so what it holds, what it is
linked to and what is being written for it may be of different conversations. Two
slots, which `DiskTierRelink` has, would add links and requests that do not touch
each other. `FewFilesAfterFault` is a state constraint: once a fault has happened,
states with more than two files are not followed further, which is enough for the
base and the rest of a cut, of which each may have gone bad, be unread or unwritten; without
a fault nothing is cut off. Reply: the twelve streams meet the cap, an EOG, the end
of a grammar and a stop sequence, with text held back, a call that is closed, one
left open, and spans that never became calls: held back or matched, and followed by
the next call, by their own end or by the end of the reply; drafts of three are longer than
a drafter's room at its horizon and reach past the cap; a channel of one is full
after each event, so that every send can block.

Deadlock is checked in every run but those of `Reply`: a generation ends, and its
client may stay away.

## Fairness

* `JobQueue`: time passes; a handler inside `push` gets the mutex; the engine
  thread runs, and a job ends, since `job_deadline` bounds it; `close` reaches
  its notification. The condvar is owed to return only after a notification or
  at the deadline: a spurious wake-up is possible, not relied upon. No client
  is made to submit, hang up or read.
* `ResidentLeaseTimed`: threads run and jobs end (weak fairness per thread, of
  everything but asking for the slot and giving up); time never stops (strong,
  since a tick waits for the threads to settle); and registering on
  `waiters.lock` succeeds in the end (strong, since the probe that makes an
  attempt fail is an instant long and the attempt is repeated every interval).

* `Reply`: the engine's thread runs (weak fairness of its next step, a blocked
  send's retry included) and time passes (weak fairness of `Tick`). The client
  is owed nothing and owes nothing: it may never read again.

Liveness of the lease is checked for two processes of one engine each. Among
waiters in three processes the file locks order nobody, and a schedule in which
one of them always finds the slot taken satisfies every fairness the code
justifies; only the odds are against it. With two engines in one of two
processes the race of the third observation below, met at every change of
hands, lets the two pass the slot to each other past the other process for
ever. We state no property there.

## Disagreements between the code and its words

`PROJECT.json` lists them with the lines quoted, each with the run that shows it.

* `JobQueuePanic`: when the engine thread dies outside the per-job boundary, the
  requests in the queue are never answered, although the exit guard is there so
  that handlers get a clean error.
* `DiskTierRelink`: a hydration into a slot that is in use (the table is full)
  links the slot without ending its epoch. A write of the conversation that was
  in it, still under way, finds its epoch current and links the slot back. The
  budget then protects a file nobody holds, and not the one somebody does.
* `DiskTierHurried`: `refresh` is there to tell the index "what the chain holds
  now", and takes the lock after the reading. If the writer cut, rewrote or
  backfilled one of the files meanwhile, the index says what they held before,
  until the chain is read again or the next start.
* `ReplyRelabelled`: the speculative loops poll the stop predicate after the
  token that completes the grammar, before they ask whether it is complete. A
  deadline or shutdown stamped in that token's send makes a complete reply
  `MaxTokens`. Plain decoding asks in the other order, and the cap is guarded
  for this very reason.

## Observations

What the models show, and no run checks: it is either not promised in so many
words, or costs time or disk and no answer. Where a definition states the
property that fails, it is in the module, for whoever changes the code.

* The engine asks `is_closed()` after `take` has let go of the lock; a push and a
  close in between leave an accepted job in a queue nobody drains
  (`DrainedBeforeExit` in `JobQueue`; `engine.rs:948`).
* A conversation that came back from its image counts that image as safety when
  it is rewound, although the rewind gives it up: a fork into a free slot would
  have kept what is lost (`RewindCostsLittle` in `ConversationSlots`;
  `engine.rs:4663`).
* `reacquire_after` is read before `owned` is swapped. A local waiter that looked
  just before the lease was dropped takes the slot during its own process's
  stand-back (`YieldingProcessStandsBack` in `ResidentLease`; `memory.rs:274`).
* Text of a span that never became a call is given back through the stop filter.
  When the marker of the next call closes that span, what the filter holds is not
  let go: `feed_span` has flushed before the span was closed, not after. The events
  of the next call then reach the client before text that stands before them
  (`Late` in `Reply`; `engine.rs:3251-3257`), although "a call boundary settles it".
  The text comes later, and once.
* If that text holds a stop sequence, "the match and everything after it is dropped"
  (`engine.rs:4004`), but the next call is open all the same, and healing it at the
  end of the reply sends its marker as text (`BehindMatch`; `engine.rs:3257`, `3359`).
* A file whose header cannot be read at a scan stays on disk and is not in the
  index. If it is chained onto a segment, that segment counts as childless: it
  may be evicted, or cut past the depth cap, and the next scan that can read the
  file deletes it as an orphan (`disk_tier.rs:1412`). `Unread` marks these files
  in the properties.
* The victim of the budget is chosen under the lock and deleted outside it; a
  hydration may link a slot to it in between. The link then names nothing, which
  costs the next page-out its protection and no more (`disk_tier.rs:2278`).
* A tail may not be rewritten under a name that is in the index behind a
  condemned base: the index cannot tell that the history is the same, so the
  write is refused until the next start.
* After a crash between the two files of a cut, two segments overlap until a
  scan; a later base written under the same name may come without the snapshot
  at the branch that the first one carried. `WritesOver` names the case.
* The comment on `verify_keep` (`generate.rs:4242-4245`) says that the last
  emitted token is not kept. The code keeps the row of one token more than that
  when a round is cut short in the middle, and must: `SafeToResume` allows both.
* When a job is cancelled in the middle of a round, the token that completes the
  grammar may have been drawn and not reported; `hit_eog` is then true of a
  reply that lacks it. `decode_abandon_reason` looks at the cancellation first,
  so the client sees a cut reply, as it should.

## Proofs

`JobQueueProofs`, for every number of requests, capacity, costs and time bounds
that satisfy `ConstantsOK`:

* `TypeCorrect`: types. The lemma `SweepOnlyRemoves` says what a sweep leaves.
* `DroppedWereGone`: inductive with the types; the only steps into `dropped`
  are the sweep of an abandoned job, the dequeue check and the unwinding.
* `NoLostWakeup`: every push that is accepted and every close notifies, or owes
  the notification; the engine begins to wait only in the step that has just
  seen an empty and open queue.
* `AgedWaitsForEachOnce`. `passed` would admit anything but for `PassedAreYounger`:
  whoever was taken past an aged request and submits again is younger than it, until
  it has waited out its timeout and the next sweep drops it. By `NoStarvationByCost` no younger one is taken past it.
* `OnlyTheLivingRun`, `NoStarvationByCost`, `FullOfTheLiving`: action properties.
  `Pick` is the only step into `taken`; the second needs that among the survivors
  an oldest one exists, by well-founded induction on ages. `PushFull` is the only
  step into `overloaded`, and what it counts is what the sweep before it left.

`ResidentLeaseProofs`, for every number of threads and processes, under
`LeaseConstantsOK`:

* `IInv` ties locks and flags to the places of threads: the holder of
  `owner.lock` is the one thread between `LockOwner` and `Unlock`
  (`LockIsHeld`), the flag of a process is up exactly for its one thread between
  `SwapOwned` and `Disown` (`FlagIsHeld`), models are in memory between the
  grant and the unload (`ModelIsServed`), `managed` is set from the grant to
  `Demanage` (`ManagedWhileHeld`), and tickets, counts and shared locks belong
  to waiters (`WaitersWait`). None of the safety properties is inductive alone:
  `OneResident` says nothing of the thread that is about to load, and
  `LoadsAreManaged` holds only because the flag that lets the next local owner
  in comes down after `managed` does, which is `FlagIsHeld`.
* `OneAtATime`, `NoUnmanagedLoad`, `NothingLeftBehind`, `FlagHasAnOwner`,
  `LeaseTyped` follow from `IInv`; `SlotIsKept` is the refinement
  (`INSTANCE ResidentSlot WITH`): only `StartJob`, `Unload` and `Crash` change
  `model`, and `LoadsAlone` shows that the first finds it empty or its own.

`PlainProofs`, for all replies, caps, draft lengths, contexts and channels that
satisfy `ReplyConstantsOK`:

* `IInv` has a conjunct for each stretch of the loop. `Shape` are the types, and
  that what was reported is the beginning of the reply. `BeforeFirst` and
  `AfterFirst` are the caches before the first round. `BetweenRounds`: the
  target holds all that was reported but the last token, on which the next
  round is anchored, the drafter the same up to its context, and the penalty
  history and the count of draws are those of the reply. `WithinRound`: the
  commits are the next tokens of the reply (`Committed`), the rows of a plain
  round (`PlainRows`) or of a verified one (`VerifiedRows`) are right as far as
  there are commits, whatever the drafts behind them were, and a round is cut
  short only for a reason that ends the loop (`Emitting`). `Returned`: the
  caches at the end, and that a loop nobody stopped ended where plain decoding
  would. Without `Emitting` the next round could be anchored on a token that
  was rolled back: it is the invariant the comment at `generate.rs:3164`
  relies on "elsewhere".
* `WalkCommitsTheReply` is the heart of it: for any draft, the rows drawn up to
  the first that is not its draft are the next tokens of the reply. Were one of
  them wrong, the first wrong one would have been drawn on a right prefix.
* `ResumeIsSafe` follows from `IInv`; `SpeculationIsPlain` is the refinement
  (`INSTANCE PlainDecode WITH`): `FirstToken` and `Emit` report or stutter,
  `FirstSaid`, `StopAtPoll`, `Commit` and the abandonments return, the rest
  stutters (`StepRefines`).

`ReplyProofs`, under the same assumptions:

* `WindDownIsBounded`. The bound is not inductive. `TInv` adds the types of the job
  (`JobTyped`), that a send deadline is set only while a send is under way
  (`DeadlineIsOfASend`), that once the job is known to be over nothing takes time
  but sends (`OverIsOver`), and that each of these gives up within the shared
  budget (`BudgetIsShared`).
* `StreamStaysWhole`, `ListenerGetsItsEnd`, from `SInv`. A stream is judged by its
  neighbours (`Follows`), so the invariant ties its last event to the emitter: as
  long as no send has failed, what was sent together with what is about to be sent
  ends where the emitter stands, inside a call exactly if the emitter has named one
  (`Position`), and is terminal only when the job is finished; once a send has
  failed, what was delivered is a beginning of such a stream and stays so (`Sound`).
  That a terminal event tells the truth rests on `IInv` of `PlainProofs` (`done`
  only for a complete reply) and that nobody is told `cut` by a job that has no
  reason to stop rests on `CancelledFor`.
* What the events bring, and in which order, is `BInv`. The emitter keeps the tokens
  of an open span, which are the last ones of the reply from its marker on
  (`SpanFits`), and text the filter holds, which inside a call is `Late` text and
  nothing else; behind a match nothing is held and at most a marker is kept
  (`MatchFits`). What was sent, what is kept and nothing twice make up the reply
  (`Accounted`), and each event brings tokens whose predecessors have come, come
  with them, or are late (`InPlace`, `PlacedIn`). Each way of closing a span, by its
  own end, by the next marker or by the end of the reply, is a lemma about
  `PushAnswer`.
* The proof found a fault of the model before it found anything else: two cases of
  `Accept` overlapped (a call that opens inside a call), and in TLA+ nothing says
  which of two true cases is taken. They are disjoint now, as in
  `accept_tool_text`, where the order of the tests decides.

`ConversationProofs`, for all prompts, replies, contexts, drafters and numbers of
slots that satisfy `SlotConstantsOK`, with or without a disk tier:

* `CInv` (`Conserved`) says of every slot what it is (`Sound`), of a cold one that
  its image begins with its history and its snapshots lie along it (`Backed`), and
  of the live one that whenever there is one the rings were computed from the rows,
  the drafter holds a beginning of them, the snapshots lie along them, and the
  trusted part of the retained image is a beginning of both rows and history
  (`LiveMatched`). The rest is knowledge of the plan: `JobPlaced` says for each place
  of the job what is still true of the slot it names, since a plan is made two steps
  before it is carried out; `Planned` has one conjunct for each arm of the dispatch.
  `LiveIsNewest` is there for the trim: it empties slots from the least recently
  used, so that the slot just paged out comes last.
* None of the safety properties is inductive. `NeverWrongResume`, for one, speaks of
  rows during a prefill, and rests on what the images held when the plan was made,
  which rests on what was paged out into them, which is `LiveMatched`.
* `ResumesItsOwn`, `ColdStaysBacked`, `LiveStaysMatched`, `PlansSurvive`,
  `NeverDrifts`, `StopsStayAhead` and `WellTyped` are consequences. `LeavingStaysWarm`
  and `ForkKeepsBoth` are action properties: `PageOut`, `ForkOff`, `InstallStored`
  and the trims keep a snapshot as deep as the one somebody counts on.
* `PrefixProofs` has what these rest on: prefixes of a history are ordered, `Record`
  and `Push` keep a ring along a history and within its capacity, a rewind keeps the
  snapshots at or before its position, `SnapshotStops` lie ahead and apart.

`DiskTierProofs`, for all conversations, depth caps, budgets, slots and faults that
satisfy `TreeConstantsOK` and `TierConstantsOK`, through any number of crashes:

* `DInv` (`TierHoldsTogether`): the types; `PlansFit`, what the writer's plan says at
  each stage about the conversation it is for (a cut strictly inside its segment, a
  rest that follows its base, a put that is on disk between the rename and the
  index entry); `IndexCountsDisk` and `IndexIsAccurate`; that what the
  plan chains onto is still there (`PlansPlaced`), that what is about to be deleted
  has nothing behind it (`DoomedAreBare`), and that what the index knows is chained
  onto something (`KnownAreChained`). The writer plans under the lock and acts
  outside it, and the engine deletes behind its back: but only a file that went bad,
  which is why each of these ends in "or it is among the `Rotted`". The engine may
  also make the index wrong, by a refresh; then the writer counts children on a wrong
  tree, and "has nothing behind it" becomes "nothing but misread files" (`Bare`), "is
  there" becomes "is there, or a misread file lies behind it" (`Placed`, `Doubtful`).
  A doubt about one file is a doubt about all in front of it (`ParentIsInFront`), and
  goes only with the scan, which reads every header anew (`DoubtsStay`).
* None of the theorems has a hypothesis on the constants beyond those two
  assumptions, or on what the engine does between a reading and a refresh: what the
  code does not ensure is an exception inside the property, over `taken` and
  `misread`. `LinksAreOurs` rests on `RequestsAreOurs`: a request that is still
  current is of the conversation its slot holds, unless the slot is in `taken`.
  `IndexTellsTheTruth`, `NothingIsOrphaned`, `NothingIsLost` and `WritesAreResumable`
  hold in every behaviour, and say nothing of misread files.
* `NothingIsLost` and `WritesAreResumable`
  compare whole trees before and after a step. They rest on `PlansLeaveRoom`, which is
  about depth and is stated with its hypothesis: it holds as long as no file has gone
  bad and none is misread. `RoomBehind(tree, f, k)`:
  everything on the way from `f` to its root is there, and below `MAX_CHAIN_DEPTH`
  there is room for `k` segments more. A plan to append leaves room for 1 behind
  what it chains onto; a plan to cut room for 2 in front of the segment it cuts,
  and for one segment more in front of everything the index sees behind it
  (`MayCut`, what `Height` in `CanSplit` is for). Between the two puts of a cut the
  base and the rest to come hold all the snapshots of the segment (`CutHolds`). Room
  is claimed of the index and used of the disk, which is where `IndexCountsDisk` and
  `IndexIsAccurate` come in (`WayIsKnown`, `RoomIsThere`). Then a put over a file of
  the same span loses nothing (`PutOverLosesNothing`), the second put of a cut
  sends every way that came by the segment by its base (`CutLosesNothing`), and a
  scan keeps every file of a chain that is there in full, be it linked, held or
  itself unreadable (`ScanLosesNothing`).
* `LocateIs` is what can be said of a lookup without its result: it ends at a
  boundary the tree reaches from its root, with the room its depth leaves, and names
  a segment that leaves the history in its own middle. It rests on `Iterates`, that a walk of
  any number of steps exists, whose proof takes the first number of steps for which
  none would.

What stays with TLC. Liveness under fairness and `ENABLED` are out of the prover's
reach: `EveryWaiterLeaves`, `ShutdownReachesEngine`, `WaiterServed`,
`EngineGetsFree`. Everything else a run checks is a theorem.

## Not modelled, and the plan

In order of importance:

1. An abstract conversation cache (a set of resumable prefixes) that
   `ConversationSlots` implements; `CInv` has what the refinement needs.
2. `Shutdown`: the watchdog's grace against the writer's backlog and the
   engine's flush, composed with `JobQueue` and `DiskTier`.
3. The image engine's bounded queue and its swap plan; memory admission
   (`admit_settling`) as an extension of `ResidentLease`.
4. Image Studio's batch and storage, downloads under two processes.

Left out for good: numerics, parsing, templates and wire formats, logs, metrics
and the dashboard. They carry no protocol, and the repository's parity and
golden tests are the right tool for them. They are also most of the repository:
kernels and their dispatch, model graphs, checkpoint formats, downloads, command
lines and the tests inside each file. The parts with state and order, which
the modules cover, are a small share of its lines.
