--------------------------- MODULE ResidentLease ---------------------------
(***************************************************************************)
(* The slot for a resident model (src/memory.rs) and the threads that go   *)
(* through it: the language and the image engine of a server               *)
(* (src/serve/engine.rs and images.rs, engine_loop), which give the slot   *)
(* up to whoever waits, and one-shot commands (src/bin/xwen/main.rs),      *)
(* which keep it until they end.                                           *)
(*                                                                         *)
(* Between processes the slot is an exclusive flock on owner.lock; whoever *)
(* waits shares a lock on waiters.lock, which the holder probes with an    *)
(* exclusive attempt.  Within a process there is a queue of tickets, a     *)
(* count of the waiting, and a flag, owned, swapped before the flock is    *)
(* tried.  Each atomic operation, lock attempt and critical section that   *)
(* another thread or process can observe is one step.                      *)
(*                                                                         *)
(* A ticket's place is the set of local threads queued before it, the      *)
(* count of waiters the set of those counted.                              *)
(***************************************************************************)
EXTENDS Naturals

CONSTANTS
    Threads,
    Processes,
    ProcOf,     \* [Threads -> Processes]
    Servers,    \* the threads of servers, which yield; the others do not
    Penalty,    \* POLL * 3 in polling intervals
    MayCrash    \* processes may die

ASSUME LeaseConstantsOK ==
    /\ ProcOf \in [Threads -> Processes]
    /\ Servers \subseteq Threads
    /\ Penalty \in Nat
    /\ MayCrash \in BOOLEAN

VARIABLES
    pc,        \* where a thread is
    ticketed,  \* the threads in Coordinator.queue
    ahead,     \* for each of them, those queued before it
    counted,   \* the threads counted in Coordinator.waiters
    sharing,   \* the threads with a shared flock on waiters.lock
    probing,   \* the thread, in a set, with an exclusive flock on waiters.lock
    owner,     \* the thread, in a set, with the exclusive flock on owner.lock
    owned,     \* Coordinator.owned
    managed,   \* Coordinator.managed
    penalty,   \* polling intervals until Coordinator.reacquire_after
    model      \* the threads that hold model allocations

queueing == <<ticketed, ahead, counted>>
locks == <<sharing, probing, owner>>
flags == <<owned, managed, penalty>>
vars == <<pc, queueing, locks, flags, model>>

Waits == {"ticketed", "registering", "waiting", "eligible", "claiming", "granted", "leaving"}
Holds == {"deciding", "asking", "seen_alone", "kept", "working", "unloading", "dropping",
          "drop_asking", "drop_alone", "demanaging", "unlocking"}
Places == {"idle", "disowning"} \cup Waits \cup Holds

Local(t) == {u \in Threads : ProcOf[u] = ProcOf[t]}
Goto(t, here, there) == pc[t] = here /\ pc' = [pc EXCEPT ![t] = there]
-----------------------------------------------------------------------------
\* acquire().

\* A ticket, under the queue's mutex.
TakeTicket(t) ==
    /\ Goto(t, "idle", "ticketed")
    /\ ticketed' = ticketed \cup {t}
    /\ ahead' = [ahead EXCEPT ![t] = ticketed \cap Local(t)]
    /\ UNCHANGED <<counted, locks, flags, model>>

Count(t) ==
    /\ Goto(t, "ticketed", "registering")
    /\ counted' = counted \cup {t}
    /\ UNCHANGED <<ticketed, ahead, locks, flags, model>>

\* The shared lock fails while somebody probes, and is tried again.
Register(t) ==
    /\ Goto(t, "registering", "waiting")
    /\ probing = {}
    /\ sharing' = sharing \cup {t}
    /\ UNCHANGED <<queueing, probing, owner, flags, model>>

\* One look at the queue and the clock, and then the swap of the flag: what
\* was read may have changed.
Look(t) ==
    /\ Goto(t, "waiting", "eligible")
    /\ ahead[t] = {} /\ penalty[ProcOf[t]] = 0
    /\ UNCHANGED <<queueing, locks, flags, model>>

SwapOwned(t) ==
    /\ pc[t] = "eligible"
    /\ IF owned[ProcOf[t]]
       THEN pc' = [pc EXCEPT ![t] = "waiting"] /\ UNCHANGED owned
       ELSE /\ pc' = [pc EXCEPT ![t] = "claiming"]
            /\ owned' = [owned EXCEPT ![ProcOf[t]] = TRUE]
    /\ UNCHANGED <<queueing, locks, managed, penalty, model>>

\* A slip: the flag stays up when the owner's lock was not to be had.
LockOwnerFlagKept(t) ==
    /\ pc[t] = "claiming"
    /\ IF owner = {}
       THEN owner' = {t} /\ pc' = [pc EXCEPT ![t] = "granted"]
       ELSE pc' = [pc EXCEPT ![t] = "waiting"] /\ UNCHANGED owner
    /\ UNCHANGED <<queueing, sharing, probing, flags, model>>

\* A slip: an attempt that failed is taken for one that succeeded.
LockOwnerUnchecked(t) ==
    /\ Goto(t, "claiming", "granted")
    /\ owner' = owner \cup {t}
    /\ UNCHANGED <<queueing, sharing, probing, flags, model>>

LockOwner(t) ==
    /\ pc[t] = "claiming"
    /\ IF owner = {}
       THEN /\ owner' = {t}
            /\ pc' = [pc EXCEPT ![t] = "granted"]
            /\ UNCHANGED owned
       ELSE /\ owned' = [owned EXCEPT ![ProcOf[t]] = FALSE]
            /\ pc' = [pc EXCEPT ![t] = "waiting"]
            /\ UNCHANGED owner
    /\ UNCHANGED <<queueing, sharing, probing, managed, penalty, model>>

\* Waiting::drop, which every way out of acquire() runs.
Dequeued(t) ==
    /\ ticketed' = ticketed \ {t}
    /\ ahead' = [u \in Threads |-> IF u = t THEN {} ELSE ahead[u] \ {t}]
    /\ counted' = counted \ {t}

\* The locks on waiters.lock and the place in the queue are given up: nobody
\* else holds the slot, so nobody looks at them meanwhile.
Grant(t) ==
    /\ Goto(t, "granted", "kept")
    /\ sharing' = sharing \ {t}
    /\ Dequeued(t)
    /\ managed' = [managed EXCEPT ![ProcOf[t]] = TRUE]
    /\ UNCHANGED <<probing, owner, owned, penalty, model>>

\* The caller's cancel() fails: its client left, its deadline passed, the
\* server shuts down.  The ticket goes first; a slip forgets it.
GiveUpTicketKept(t) ==
    /\ pc[t] \in {"registering", "waiting"}
    /\ t \in Servers
    /\ pc' = [pc EXCEPT ![t] = "leaving"]
    /\ counted' = counted \ {t}
    /\ UNCHANGED <<ticketed, ahead, locks, flags, model>>

GiveUp(t) ==
    /\ pc[t] \in {"registering", "waiting"}
    /\ t \in Servers
    /\ pc' = [pc EXCEPT ![t] = "leaving"]
    /\ Dequeued(t)
    /\ UNCHANGED <<locks, flags, model>>

\* The file behind the shared lock is closed.
CloseIntent(t) ==
    /\ Goto(t, "leaving", "idle")
    /\ sharing' = sharing \ {t}
    /\ UNCHANGED <<queueing, probing, owner, flags, model>>
-----------------------------------------------------------------------------
\* The engines, with the slot in hand.

\* A job runs; its checkpoint is loaded first when it is not resident.
StartJob(t) ==
    /\ Goto(t, "kept", "working")
    /\ model' = model \cup {t}
    /\ UNCHANGED <<queueing, locks, flags>>

\* Back to the head of the loop, or on to a release: the job failed with the
\* model, or the command is over.
EndJob(t) ==
    /\ pc[t] = "working"
    /\ \E there \in (IF t \in Servers THEN {"deciding"} ELSE {}) \cup {"unloading"} :
          pc' = [pc EXCEPT ![t] = there]
    /\ UNCHANGED <<queueing, locks, flags, model>>

\* No job came: the loop starts over, or the idle time is up.  Nothing is
\* waited for in between that another thread could change.
NoJob(t) ==
    /\ t \in Servers
    /\ \E there \in {"deciding", "unloading"} : Goto(t, "kept", there)
    /\ UNCHANGED <<queueing, locks, flags, model>>

\* should_yield(): the local count first, then an exclusive attempt on
\* waiters.lock, given back at once.
CountWaiters(t, here, asking, yielding) ==
    /\ IF counted \cap Local(t) # {} THEN Goto(t, here, yielding) ELSE Goto(t, here, asking)
    /\ UNCHANGED <<queueing, locks>>

Alone == sharing = {} /\ probing = {}

AskWaiters(t, asking, alone, yielding) ==
    /\ IF Alone THEN Goto(t, asking, alone) /\ probing' = {t}
       ELSE Goto(t, asking, yielding) /\ UNCHANGED probing
    /\ UNCHANGED <<queueing, sharing, owner>>

EndProbe(t, alone, staying) ==
    /\ Goto(t, alone, staying)
    /\ probing' = {}
    /\ UNCHANGED <<queueing, sharing, owner, flags, model>>

\* The head of the loop: yield to whoever waits, or look for a job.
Decide(t) == CountWaiters(t, "deciding", "asking", "unloading") /\ UNCHANGED <<flags, model>>
Ask(t) == AskWaiters(t, "asking", "seen_alone", "unloading") /\ UNCHANGED <<flags, model>>
Stay(t) == EndProbe(t, "seen_alone", "kept")

\* A slip: the lease goes before the model.
UnloadLater(t) ==
    /\ Goto(t, "unloading", "dropping")
    /\ UNCHANGED <<queueing, locks, flags, model>>

\* release_residency, unload_images: drained, dropped, drained again.
Unload(t) ==
    /\ Goto(t, "unloading", "dropping")
    /\ model' = model \ {t}
    /\ UNCHANGED <<queueing, locks, flags>>

\* A slip: whoever yields may come back at once.
PenalizeNot(t) == UNCHANGED penalty

\* A slip: the intervals add up.
PenalizeOnTop(t) == penalty' = [penalty EXCEPT ![ProcOf[t]] = @ + Penalty]

\* A process that yields stands back for a few polling intervals.
Penalize(t) == penalty' = [penalty EXCEPT ![ProcOf[t]] = Penalty]

\* Lease::drop: one more probe, and then the flags and the lock, the local
\* flag last.
DropCount(t) ==
    /\ CountWaiters(t, "dropping", "drop_asking", "demanaging")
    /\ IF counted \cap Local(t) # {} THEN Penalize(t) ELSE UNCHANGED penalty
    /\ UNCHANGED <<owned, managed, model>>

DropAsk(t) ==
    /\ AskWaiters(t, "drop_asking", "drop_alone", "demanaging")
    /\ IF Alone THEN UNCHANGED penalty ELSE Penalize(t)
    /\ UNCHANGED <<owned, managed, model>>

DropStay(t) == EndProbe(t, "drop_alone", "demanaging")

Demanage(t) ==
    /\ Goto(t, "demanaging", "unlocking")
    /\ managed' = [managed EXCEPT ![ProcOf[t]] = FALSE]
    /\ UNCHANGED <<queueing, locks, owned, penalty, model>>

Unlock(t) ==
    /\ Goto(t, "unlocking", "disowning")
    /\ owner' = owner \ {t}
    /\ UNCHANGED <<queueing, sharing, probing, flags, model>>

Disown(t) ==
    /\ Goto(t, "disowning", "idle")
    /\ owned' = [owned EXCEPT ![ProcOf[t]] = FALSE]
    /\ UNCHANGED <<queueing, locks, managed, penalty, model>>
-----------------------------------------------------------------------------
\* A polling interval goes by.
Tick ==
    /\ penalty' = [p \in Processes |-> IF penalty[p] > 0 THEN penalty[p] - 1 ELSE 0]
    /\ UNCHANGED <<pc, queueing, locks, owned, managed, model>>

\* A process dies: killed, or aborted because its device would not drain.  The
\* kernel lets go of its locks; another process starts in its place.
Crash(p) ==
    LET lost == {t \in Threads : ProcOf[t] = p}
    IN  /\ MayCrash
        /\ pc' = [t \in Threads |-> IF t \in lost THEN "idle" ELSE pc[t]]
        /\ ticketed' = ticketed \ lost
        /\ ahead' = [t \in Threads |-> IF t \in lost THEN {} ELSE ahead[t]]
        /\ counted' = counted \ lost
        /\ sharing' = sharing \ lost
        /\ probing' = probing \ lost
        /\ owner' = owner \ lost
        /\ owned' = [owned EXCEPT ![p] = FALSE]
        /\ managed' = [managed EXCEPT ![p] = FALSE]
        /\ penalty' = [penalty EXCEPT ![p] = 0]
        /\ model' = model \ lost

Init ==
    /\ pc = [t \in Threads |-> "idle"]
    /\ ticketed = {} /\ counted = {}
    /\ ahead = [t \in Threads |-> {}]
    /\ sharing = {} /\ probing = {} /\ owner = {}
    /\ owned = [p \in Processes |-> FALSE]
    /\ managed = [p \in Processes |-> FALSE]
    /\ penalty = [p \in Processes |-> 0]
    /\ model = {}

Acquire(t) == TakeTicket(t) \/ Count(t) \/ Register(t) \/ Look(t) \/ SwapOwned(t)
                \/ LockOwner(t) \/ Grant(t) \/ GiveUp(t) \/ CloseIntent(t)
Use(t) == StartJob(t) \/ EndJob(t) \/ NoJob(t) \/ Decide(t) \/ Ask(t) \/ Stay(t)

\* A slip: the local flag is taken down first and managed last.
DisownFirst(t) ==
    /\ Goto(t, "demanaging", "unlocking")
    /\ owned' = [owned EXCEPT ![ProcOf[t]] = FALSE]
    /\ UNCHANGED <<queueing, locks, managed, penalty, model>>
DemanageLast(t) ==
    /\ Goto(t, "disowning", "idle")
    /\ managed' = [managed EXCEPT ![ProcOf[t]] = FALSE]
    /\ UNCHANGED <<queueing, locks, owned, penalty, model>>
ReleaseFlagFirst(t) == Unload(t) \/ DropCount(t) \/ DropAsk(t) \/ DropStay(t)
                         \/ DisownFirst(t) \/ Unlock(t) \/ DemanageLast(t)

Release(t) == Unload(t) \/ DropCount(t) \/ DropAsk(t) \/ DropStay(t)
                \/ Demanage(t) \/ Unlock(t) \/ Disown(t)

Act == \E t \in Threads : Acquire(t) \/ Use(t) \/ Release(t)
Next == Act \/ Tick \/ \E p \in Processes : Crash(p)

Spec == Init /\ [][Next]_vars
-----------------------------------------------------------------------------
TypeOK ==
    /\ pc \in [Threads -> Places]
    /\ ahead \in [Threads -> SUBSET Threads]
    /\ ticketed \subseteq Threads /\ counted \subseteq Threads
    /\ sharing \subseteq Threads /\ probing \subseteq Threads
    /\ owner \subseteq Threads /\ model \subseteq Threads
    /\ owned \in [Processes -> BOOLEAN] /\ managed \in [Processes -> BOOLEAN]
    /\ penalty \in [Processes -> 0..Penalty]

\* No two threads of the machine hold a model, through every release, crash and
\* change of hands: the next model is loaded when the last one is gone.
OneResident == \A t, u \in model : t = u

\* Whoever loads a model does so with managed set, or the load would go ahead
\* without asking for memory (model.rs): the thread that lets go never clears
\* the flag of the one that comes next.
LoadsAreManaged == \A t \in model : managed[ProcOf[t]]

\* Only threads that wait are seen waiting.  A ticket, a count or a shared lock
\* left behind would stop every later thread of the process, or make every
\* holder unload its model for nobody.
NoGhostWaiters ==
    \A t \in ticketed \cup counted \cup sharing : pc[t] \in Waits

\* The local flag is up only for a thread that is on its way to the slot, has
\* it, or is about to take the flag down.
OwnedHasAnOwner ==
    \A p \in Processes : owned[p] =>
        \E t \in Threads : ProcOf[t] = p /\ pc[t] \in {"claiming", "granted", "disowning"} \cup Holds

\* "A yielding process waits through several polling intervals so existing
\* cross-process waiters can acquire before its next local request"
\* (memory.rs, Lease::drop): it does not claim the slot before they are over.
YieldingProcessStandsBack ==
    [][\A t \in Threads : pc[t] = "eligible" /\ pc'[t] = "claiming"
          => penalty[ProcOf[t]] = 0]_vars

\* The promise, ResidentSlot, is kept.
Slot == INSTANCE ResidentSlot WITH Threads <- Threads, model <- model
KeepsTheSlot == Slot!Spec
=============================================================================
