------------------------ MODULE ResidentLeaseProofs ------------------------
(***************************************************************************)
(* What ResidentLease guarantees for any number of threads and processes:  *)
(* the slot is exclusive, a model is only in memory under it, managed is   *)
(* set for whoever may load, and nothing of a thread is left behind.       *)
(*                                                                         *)
(* The invariant ties the locks and flags to the places of the threads:    *)
(* who holds the flock on owner.lock is between LockOwner and Unlock, the  *)
(* flag of a process is up for the one thread between SwapOwned and the    *)
(* flag's end, a model is in memory between the grant and the unload.      *)
(* OneResident alone is not inductive: nothing in it says that a thread    *)
(* which starts a job is the one with the lock.                            *)
(***************************************************************************)
EXTENDS ResidentLease, TLAPS

Served == {"deciding", "asking", "seen_alone", "kept", "working", "unloading"}
Managing == Served \cup {"dropping", "drop_asking", "drop_alone", "demanaging"}
Locking == {"granted"} \cup Holds
Claiming == {"claiming", "disowning"} \cup Locking

LockIsHeld ==
    /\ \A t \in Threads : t \in owner <=> pc[t] \in Locking
    /\ \A t, u \in owner : t = u

FlagIsHeld ==
    /\ \A t \in Threads : pc[t] \in Claiming => owned[ProcOf[t]]
    /\ \A p \in Processes : owned[p] => \E t \in Threads : ProcOf[t] = p /\ pc[t] \in Claiming
    /\ \A t, u \in Threads :
          ProcOf[t] = ProcOf[u] /\ pc[t] \in Claiming /\ pc[u] \in Claiming => t = u

ModelIsServed == \A t \in model : pc[t] \in Served

ManagedWhileHeld == \A t \in Threads : pc[t] \in Managing => managed[ProcOf[t]]

WaitersWait ==
    /\ \A t \in ticketed \cup counted : pc[t] \in Waits \ {"leaving"}
    /\ \A t \in sharing : pc[t] \in Waits

IInv == TypeOK /\ LockIsHeld /\ FlagIsHeld /\ ModelIsServed /\ ManagedWhileHeld /\ WaitersWait
-----------------------------------------------------------------------------
LEMMA Initially == Init => IInv
  BY LeaseConstantsOK
  DEF Init, IInv, TypeOK, LockIsHeld, FlagIsHeld, ModelIsServed, ManagedWhileHeld, WaitersWait,
      Places, Waits, Holds, Locking, Claiming, Served, Managing

LEMMA Acquiring == ASSUME IInv, NEW t \in Threads, Acquire(t) PROVE IInv'
<1> USE LeaseConstantsOK
    DEF IInv, TypeOK, LockIsHeld, FlagIsHeld, ModelIsServed, ManagedWhileHeld, WaitersWait,
        Places, Waits, Holds, Locking, Claiming, Served, Managing, Goto, queueing, locks, flags
<1>1. CASE TakeTicket(t)
  BY <1>1 DEF TakeTicket, Local
<1>2. CASE Count(t)
  BY <1>2 DEF Count
<1>3. CASE Register(t)
  BY <1>3 DEF Register
<1>4. CASE Look(t)
  BY <1>4 DEF Look
<1>5. CASE SwapOwned(t)
  <2>1. CASE owned[ProcOf[t]]
    BY <1>5, <2>1 DEF SwapOwned
  <2>2. CASE ~ owned[ProcOf[t]]
    <3>1. /\ pc' = [pc EXCEPT ![t] = "claiming"] /\ owned' = [owned EXCEPT ![ProcOf[t]] = TRUE]
          /\ UNCHANGED <<queueing, locks, managed, penalty, model>>
      BY <1>5, <2>2 DEF SwapOwned
    <3>2. TypeOK'
      BY <3>1
    <3>3. FlagIsHeld'
      BY <2>2, <3>1
    <3>4. LockIsHeld' /\ ModelIsServed' /\ ManagedWhileHeld' /\ WaitersWait'
      BY <1>5, <3>1 DEF SwapOwned
    <3> QED
      BY <3>2, <3>3, <3>4
  <2> QED
    BY <2>1, <2>2
<1>6. CASE LockOwner(t)
  <2>1. CASE owner = {}
    <3>1. /\ pc' = [pc EXCEPT ![t] = "granted"] /\ owner' = {t}
          /\ UNCHANGED <<queueing, sharing, probing, flags, model>>
      BY <1>6, <2>1 DEF LockOwner
    <3>2. LockIsHeld'
      BY <2>1, <3>1
    <3>3. TypeOK' /\ FlagIsHeld' /\ ModelIsServed' /\ ManagedWhileHeld' /\ WaitersWait'
      BY <1>6, <3>1 DEF LockOwner
    <3> QED
      BY <3>2, <3>3
  <2>2. CASE owner # {}
    <3>1. /\ pc' = [pc EXCEPT ![t] = "waiting"] /\ owned' = [owned EXCEPT ![ProcOf[t]] = FALSE]
          /\ UNCHANGED <<queueing, locks, managed, penalty, model>>
      BY <1>6, <2>2 DEF LockOwner
    <3>2. FlagIsHeld'
      BY <1>6, <3>1 DEF LockOwner
    <3>3. TypeOK' /\ LockIsHeld' /\ ModelIsServed' /\ ManagedWhileHeld' /\ WaitersWait'
      BY <1>6, <3>1 DEF LockOwner
    <3> QED
      BY <3>2, <3>3
  <2> QED
    BY <2>1, <2>2
<1>7. CASE Grant(t)
  BY <1>7 DEF Grant, Dequeued
<1>8. CASE GiveUp(t)
  BY <1>8 DEF GiveUp, Dequeued
<1>9. CASE CloseIntent(t)
  BY <1>9 DEF CloseIntent
<1> QED
  BY <1>1, <1>2, <1>3, <1>4, <1>5, <1>6, <1>7, <1>8, <1>9 DEF Acquire

LEMMA Using == ASSUME IInv, NEW t \in Threads, Use(t) PROVE IInv'
<1> USE LeaseConstantsOK
    DEF IInv, TypeOK, LockIsHeld, FlagIsHeld, ModelIsServed, ManagedWhileHeld, WaitersWait,
        Places, Waits, Holds, Locking, Claiming, Served, Managing, Goto, queueing, locks, flags
<1>1. CASE StartJob(t)
  BY <1>1 DEF StartJob
<1>2. CASE EndJob(t)
  BY <1>2 DEF EndJob
<1>3. CASE NoJob(t)
  BY <1>3 DEF NoJob
<1>4. CASE Decide(t)
  BY <1>4 DEF Decide, CountWaiters
<1>5. CASE Ask(t)
  BY <1>5 DEF Ask, AskWaiters
<1>6. CASE Stay(t)
  BY <1>6 DEF Stay, EndProbe
<1> QED
  BY <1>1, <1>2, <1>3, <1>4, <1>5, <1>6 DEF Use

LEMMA Releasing == ASSUME IInv, NEW t \in Threads, Release(t) PROVE IInv'
<1> USE LeaseConstantsOK
    DEF IInv, TypeOK, LockIsHeld, FlagIsHeld, ModelIsServed, ManagedWhileHeld, WaitersWait,
        Places, Waits, Holds, Locking, Claiming, Served, Managing, Goto, queueing, locks, flags
<1>1. CASE Unload(t)
  BY <1>1 DEF Unload
<1>2. CASE DropCount(t)
  BY <1>2 DEF DropCount, CountWaiters, Penalize
<1>3. CASE DropAsk(t)
  BY <1>3 DEF DropAsk, AskWaiters, Penalize
<1>4. CASE DropStay(t)
  BY <1>4 DEF DropStay, EndProbe
<1>5. CASE Demanage(t)
  BY <1>5 DEF Demanage
<1>6. CASE Unlock(t)
  BY <1>6 DEF Unlock
<1>7. CASE Disown(t)
  BY <1>7 DEF Disown
<1> QED
  BY <1>1, <1>2, <1>3, <1>4, <1>5, <1>6, <1>7 DEF Release

LEMMA Crashing == ASSUME IInv, NEW p \in Processes, Crash(p) PROVE IInv'
<1> USE LeaseConstantsOK DEF IInv, TypeOK
<1>1. TypeOK'
  BY DEF Crash, Places
<1>2. LockIsHeld'
  BY DEF Crash, LockIsHeld, Locking, Holds
<1>3. FlagIsHeld'
  BY DEF Crash, FlagIsHeld, Claiming, Locking, Holds
<1>4. ModelIsServed' /\ ManagedWhileHeld' /\ WaitersWait'
  BY DEF Crash, ModelIsServed, ManagedWhileHeld, WaitersWait, Managing, Served, Waits
<1> QED
  BY <1>1, <1>2, <1>3, <1>4

LEMMA Ticking == ASSUME IInv, Tick PROVE IInv'
<1>1. TypeOK'
  BY LeaseConstantsOK DEF IInv, TypeOK, Tick, queueing, locks
<1> QED
  BY <1>1 DEF IInv, Tick, queueing, locks, LockIsHeld, FlagIsHeld, ModelIsServed,
              ManagedWhileHeld, WaitersWait

LEMMA Stuttering == IInv /\ UNCHANGED vars => IInv'
  BY DEF vars, queueing, locks, flags, IInv, TypeOK, LockIsHeld, FlagIsHeld, ModelIsServed,
         ManagedWhileHeld, WaitersWait

LEMMA Inductive == Spec => []IInv
<1>1. IInv /\ [Next]_vars => IInv'
  BY Acquiring, Using, Releasing, Crashing, Ticking, Stuttering DEF Next, Act
<1> QED
  BY Initially, <1>1, PTL DEF Spec
-----------------------------------------------------------------------------
\* Every variable keeps its type.
THEOREM LeaseTyped == Spec => []TypeOK
<1>1. IInv => TypeOK
  BY DEF IInv
<1> QED
  BY Inductive, <1>1, PTL

\* No two threads of the machine hold a model: each that does has the one lock.
THEOREM OneAtATime == Spec => []OneResident
<1>1. IInv => OneResident
  BY DEF IInv, TypeOK, LockIsHeld, ModelIsServed, OneResident, Served, Locking, Holds
<1> QED
  BY Inductive, <1>1, PTL

\* Nobody loads a model in a process that is not managed: the flag that lets
\* its next owner in is taken down after managed.
THEOREM NoUnmanagedLoad == Spec => []LoadsAreManaged
<1>1. IInv => LoadsAreManaged
  BY DEF IInv, TypeOK, ModelIsServed, ManagedWhileHeld, LoadsAreManaged, Managing
<1> QED
  BY Inductive, <1>1, PTL

\* A thread that does not wait is not seen waiting, however it left.
THEOREM NothingLeftBehind == Spec => []NoGhostWaiters
<1>1. IInv => NoGhostWaiters
  BY DEF IInv, WaitersWait, NoGhostWaiters
<1> QED
  BY Inductive, <1>1, PTL

\* The flag of a process is never up for nobody.
THEOREM FlagHasAnOwner == Spec => []OwnedHasAnOwner
<1>1. IInv => OwnedHasAnOwner
  BY DEF IInv, FlagIsHeld, OwnedHasAnOwner, Claiming, Locking
<1> QED
  BY Inductive, <1>1, PTL
-----------------------------------------------------------------------------
\* A step that loads a model loads it into an empty machine.
LEMMA LoadsAlone ==
    ASSUME IInv, NEW t \in Threads, pc[t] = "kept"
    PROVE  model \in {{}, {t}}
  BY DEF IInv, TypeOK, LockIsHeld, ModelIsServed, Served, Locking, Holds

LEMMA StepKeepsTheSlot == IInv /\ [Next]_vars => [Slot!Next]_model
<1> SUFFICES ASSUME IInv, [Next]_vars, model' # model PROVE Slot!Next
  OBVIOUS
<1>1. ASSUME NEW t \in Threads, StartJob(t) PROVE Slot!Next
  <2>1. model' = model \cup {t} /\ model \in {{}, {t}}
    BY <1>1, LoadsAlone DEF StartJob, Goto
  <2>2. Slot!Load(t)
    BY <2>1 DEF Slot!Load
  <2> QED
    BY <2>2 DEF Slot!Next
<1>2. ASSUME NEW t \in Threads, Unload(t) PROVE Slot!Next
  <2>1. model' = model \ {t} /\ model = {t}
    BY <1>2 DEF Unload, Goto, IInv, TypeOK, LockIsHeld, ModelIsServed, Served, Locking, Holds
  <2>2. Slot!Unload(t)
    BY <2>1 DEF Slot!Unload
  <2> QED
    BY <2>2 DEF Slot!Next
<1>3. ASSUME NEW p \in Processes, Crash(p) PROVE Slot!Next
  <2>1. \A t, u \in model : t = u
    BY DEF IInv, TypeOK, LockIsHeld, ModelIsServed, Served, Locking, Holds
  <2>2. model' = {}
    BY <1>3, <2>1 DEF Crash
  <2> QED
    BY <2>2 DEF Slot!Next, Slot!Vanish
<1>4. ASSUME NEW t \in Threads, Acquire(t) PROVE FALSE
  BY <1>4 DEF Acquire, TakeTicket, Count, Register, Look, SwapOwned, LockOwner, Grant, GiveUp,
              CloseIntent
<1>5. ASSUME NEW t \in Threads, Use(t), ~ StartJob(t) PROVE FALSE
  BY <1>5 DEF Use, EndJob, NoJob, Decide, Ask, Stay, EndProbe
<1>6. ASSUME NEW t \in Threads, Release(t), ~ Unload(t) PROVE FALSE
  BY <1>6 DEF Release, DropCount, DropAsk, DropStay, Demanage, Unlock, Disown, EndProbe
<1>7. CASE Tick
  BY <1>7 DEF Tick
<1>8. CASE UNCHANGED vars
  BY <1>8 DEF vars
<1> QED
  BY <1>1, <1>2, <1>3, <1>4, <1>5, <1>6, <1>7, <1>8 DEF Next, Act

\* ResidentLease implements ResidentSlot: for the machine there is one slot,
\* and a model enters it when the last one is gone.
THEOREM SlotIsKept == Spec => KeepsTheSlot
<1>1. Init => Slot!Init
  BY DEF Init, Slot!Init
<1> QED
  BY Inductive, <1>1, StepKeepsTheSlot, PTL DEF Spec, KeepsTheSlot, Slot!Spec
=============================================================================
