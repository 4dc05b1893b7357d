--------------------------- MODULE JobQueueProofs ---------------------------
(***************************************************************************)
(* What holds of JobQueue for every number of clients, every capacity, and *)
(* every pair of time bounds.                                              *)
(***************************************************************************)
EXTENDS JobQueue, WellFoundedInduction, TLAPS

-----------------------------------------------------------------------------
\* The queue after a sweep is what survived it: nobody joins.
LEMMA SweepOnlyRemoves ==
    ASSUME TypeOK, NEW r \in Requests
    PROVE  /\ Sweep(r) \in Phases
           /\ Sweep(r) = "queued" <=> r \in Survivors
           /\ phase[r] # "queued" => Sweep(r) = phase[r]
           /\ Sweep(r) \notin {"queued", "taken", phase[r]} =>
                 (Sweep(r) = "dropped" /\ r \in hungUp) \/ Sweep(r) = "expired"
<1> USE DEF Survivors, Abandoned, Expired, Queue
<1>1. phase[r] \in Phases
    BY DEF TypeOK
<1>2. CASE phase[r] # "queued"
    BY <1>1, <1>2 DEF Sweep
<1>3. CASE phase[r] = "queued" /\ r \in Survivors
    BY <1>1, <1>3 DEF Sweep
<1>4. CASE r \in Abandoned
    BY <1>4 DEF Sweep, Phases, Outcomes
<1>5. CASE r \in Expired
    BY <1>5 DEF Sweep, Phases, Outcomes
<1> QED
    BY <1>1, <1>2, <1>3, <1>4, <1>5 DEF Sweep

\* choose() picks one of those it was given.
LEMMA ChosenOfThem == \A S, hot : Choices(S, hot) \subseteq S
BY DEF Choices, Oldest, Cheapest

\* Every variable keeps its type.
THEOREM TypeCorrect == Spec => []TypeOK
<1>1. Init => TypeOK
    <2> SUFFICES ASSUME Init PROVE TypeOK
        OBVIOUS
    <2>1. phase \in [Requests -> Phases]
        BY DEF Init, Phases
    <2>2. /\ age \in [Requests -> 0..QueueTimeout] /\ left \in 0..TakeTimeout
          /\ passed \in [Requests -> SUBSET Requests]
        BY ConstantsOK DEF ConstantsOK, Init
    <2> QED
        BY <2>1, <2>2 DEF Init, TypeOK, EngineAt
<1>2. TypeOK /\ [Next]_vars => TypeOK'
    <2> SUFFICES ASSUME TypeOK, [Next]_vars PROVE TypeOK'
        OBVIOUS
    <2> USE ConstantsOK DEF ConstantsOK
    <2>1. CASE \E r \in Requests : Handler(r)
        <3>1. PICK r \in Requests : Handler(r)
            BY <2>1
        <3>2. CASE Submit(r) \/ PushClosed(r) \/ HangUp(r)
            BY <3>2 DEF TypeOK, Submit, PushClosed, HangUp, Phases, Outcomes
        <3>5. CASE Answer(r)
            BY <3>5 DEF TypeOK, Answer, Phases, Outcomes
        <3>3. CASE PushFull(r)
            BY <3>3, SweepOnlyRemoves DEF TypeOK, PushFull, Phases, Outcomes
        <3>4. CASE PushAccepted(r)
            BY <3>4, SweepOnlyRemoves DEF TypeOK, PushAccepted, Notify, Phases, Outcomes
        <3> QED
            BY <3>1, <3>2, <3>3, <3>4, <3>5 DEF Handler, Push
    <2>2. CASE Pick
        <3>1. \A q \in Requests : phase'[q] \in {"taken", Sweep(q)}
            BY <2>2 DEF Pick, Choices, Oldest, Cheapest
        <3>2. phase' \in [Requests -> Phases]
            BY <2>2, <3>1, SweepOnlyRemoves DEF Pick, Phases
        <3>3. passed' \in [Requests -> SUBSET Requests]
            BY <2>2, ChosenOfThem DEF Pick, TypeOK, Survivors, Queue
        <3> QED
            BY <2>2, <3>2, <3>3 DEF Pick, TypeOK, EngineAt
    <2>3. CASE TakeNothing
        BY <2>3, SweepOnlyRemoves DEF TypeOK, TakeNothing, EngineAt
    <2>4. CASE Take
        BY <2>4 DEF TypeOK, Take, EngineAt
    <2>10. CASE WakeUp \/ Empty
        BY <2>10 DEF TypeOK, WakeUp, Empty, EngineAt
    <2>9. CASE Dequeue \/ Finish
        <3>1. phase' \in [Requests -> Phases]
            BY <2>9 DEF TypeOK, Dequeue, Finish, Phases, Outcomes
        <3> QED
            BY <2>9, <3>1 DEF TypeOK, Dequeue, Finish, EngineAt
    <2>5. CASE Panic
        BY <2>5, SweepOnlyRemoves DEF TypeOK, Panic, EngineAt, Phases, Outcomes
    <2>6. CASE ExitGuard \/ Server
        BY <2>6 DEF TypeOK, ExitGuard, Server, Shutdown, Close, CloseNotify, Notify, EngineAt
    <2>7. CASE Tick
        <3>1. \A r \in Requests : Older(r) \in 0..QueueTimeout
            BY DEF TypeOK, Older
        <3> QED
            BY <2>7, <3>1 DEF TypeOK, Tick
    <2>8. CASE UNCHANGED vars
        BY <2>8 DEF TypeOK, vars
    <2> QED
        BY <2>1, <2>2, <2>3, <2>4, <2>5, <2>6, <2>7, <2>8, <2>9, <2>10
           DEF Next, Act, Engine
<1> QED
    BY <1>1, <1>2, PTL DEF Spec
-----------------------------------------------------------------------------
\* The sweep and the dequeue check never drop, without a word, a request that
\* someone still waits for (queue.rs, sweep; engine.rs, the dequeue check).
THEOREM DroppedWereGone == Spec => []OnlyTheGoneAreDropped
<1>1. Init => OnlyTheGoneAreDropped
    BY DEF Init, OnlyTheGoneAreDropped
<1>2. TypeOK /\ OnlyTheGoneAreDropped /\ [Next]_vars => OnlyTheGoneAreDropped'
    <2> SUFFICES ASSUME TypeOK, OnlyTheGoneAreDropped, [Next]_vars
                 PROVE  OnlyTheGoneAreDropped'
        OBVIOUS
    <2> USE DEF OnlyTheGoneAreDropped
    <2>1. CASE \E r \in Requests : Handler(r)
        <3>1. PICK r \in Requests : Handler(r)
            BY <2>1
        <3>2. CASE Submit(r) \/ PushClosed(r) \/ HangUp(r) \/ Answer(r)
            BY <3>2 DEF TypeOK, Submit, PushClosed, HangUp, Answer
        <3>3. CASE PushFull(r) \/ PushAccepted(r)
            BY <3>3, SweepOnlyRemoves DEF TypeOK, PushFull, PushAccepted
        <3> QED
            BY <3>1, <3>2, <3>3 DEF Handler, Push
    <2>2. CASE Pick
        <3>1. \A q \in Requests : phase'[q] \in {"taken", Sweep(q)}
            BY <2>2 DEF Pick, Choices, Oldest, Cheapest
        <3> QED
            BY <2>2, <3>1, SweepOnlyRemoves DEF Pick
    <2>3. CASE TakeNothing
        BY <2>3, SweepOnlyRemoves DEF TakeNothing
    <2>4. CASE Dequeue
        BY <2>4 DEF TypeOK, Dequeue
    <2>5. CASE Take \/ WakeUp \/ Empty \/ Finish
        BY <2>5 DEF Take, WakeUp, Empty, Finish
    <2>6. CASE Panic \/ ExitGuard
        BY <2>6 DEF Panic, ExitGuard
    <2>7. CASE Server \/ Tick
        BY <2>7 DEF Server, Shutdown, Close, CloseNotify, Tick
    <2>8. CASE UNCHANGED vars
        BY <2>8 DEF vars
    <2> QED
        BY <2>1, <2>2, <2>3, <2>4, <2>5, <2>6, <2>7, <2>8 DEF Next, Act, Engine
<1> QED
    BY <1>1, <1>2, TypeCorrect, PTL DEF Spec

\* No wakeup is lost: the engine waits un-notified only on an empty queue that
\* is open, or whose close() is about to notify (queue.rs, take and close).
THEOREM NoLostWakeup == Spec => []SleepsOnlyWhenIdle
<1>1. Init => SleepsOnlyWhenIdle
    BY DEF Init, SleepsOnlyWhenIdle
<1>2. TypeOK /\ SleepsOnlyWhenIdle /\ [Next]_vars => SleepsOnlyWhenIdle'
    <2> SUFFICES ASSUME TypeOK, SleepsOnlyWhenIdle, [Next]_vars
                 PROVE  SleepsOnlyWhenIdle'
        OBVIOUS
    <2> USE DEF SleepsOnlyWhenIdle
    <2>1. CASE \E r \in Requests : Handler(r)
        <3>1. PICK r \in Requests : Handler(r)
            BY <2>1
        <3>2. CASE Submit(r) \/ PushClosed(r) \/ HangUp(r) \/ Answer(r)
            BY <3>2 DEF TypeOK, Submit, PushClosed, HangUp, Answer, Queue
        <3>3. CASE PushFull(r)
            <4>1. Queue' \subseteq Queue
                BY <3>3, SweepOnlyRemoves DEF PushFull, Queue, Survivors
            <4> QED
                BY <3>3, <4>1 DEF PushFull
        <3>4. CASE PushAccepted(r)
            BY <3>4 DEF PushAccepted, Notify
        <3> QED
            BY <3>1, <3>2, <3>3, <3>4 DEF Handler, Push
    <2>2. CASE TakeNothing
        <3>1. Queue' = {}
            BY <2>2, SweepOnlyRemoves DEF TakeNothing, Queue, Survivors
        <3> QED
            BY <2>2, <3>1 DEF TakeNothing
    <2>3. CASE Take \/ Pick \/ WakeUp \/ Empty \/ Dequeue \/ Finish \/ Panic \/ ExitGuard
        BY <2>3 DEF Take, Pick, WakeUp, Empty, Dequeue, Finish, Panic, ExitGuard
    <2>4. CASE Server \/ Tick
        BY <2>4 DEF Server, Shutdown, Close, CloseNotify, Notify, Tick, Queue
    <2>5. CASE UNCHANGED vars
        BY <2>5 DEF vars, Queue
    <2> QED
        BY <2>1, <2>2, <2>3, <2>4, <2>5 DEF Next, Act, Engine
<1> QED
    BY <1>1, <1>2, TypeCorrect, PTL DEF Spec
-----------------------------------------------------------------------------
\* Of the jobs that survive a sweep some job is the oldest, although nothing
\* bounds their number: their ages are naturals below the timeout.
LEMMA OldestExists ==
    ASSUME TypeOK, NEW S, S \subseteq Requests, S # {}
    PROVE  Oldest(S) # {}
<1> DEFINE Youth(r) == QueueTimeout - age[r]
<1> DEFINE T == {Youth(r) : r \in S}
<1>1. T \subseteq Nat /\ T # {}
    BY ConstantsOK DEF ConstantsOK, TypeOK
<1>2. PICK x \in T : \A y \in T : ~(<<y, x>> \in OpToRel(<, Nat))
    BY <1>1, WFMin, NatLessThanWellFounded
<1>3. \A y \in T : ~(y < x)
    BY <1>1, <1>2 DEF OpToRel
<1>4. PICK r \in S : x = Youth(r)
    OBVIOUS
<1>5. \A q \in S : age[q] <= age[r]
    <2> SUFFICES ASSUME NEW q \in S PROVE age[q] <= age[r]
        OBVIOUS
    <2>1. ~(Youth(q) < Youth(r))
        BY <1>3, <1>4
    <2>2. age[q] \in Nat /\ age[r] \in Nat /\ QueueTimeout \in Nat
        BY ConstantsOK DEF ConstantsOK, TypeOK
    <2> QED
        BY <2>1, <2>2
<1> QED
    BY <1>5 DEF Oldest

\* A job that is chosen while an aged one waits is older than every aged one.
LEMMA AgingDecides ==
    ASSUME TypeOK, NEW S, S \subseteq Requests, NEW hot, NEW r \in Choices(S, hot),
           NEW q \in S, age[q] >= AgeLimit
    PROVE  age[q] <= age[r]
<1>1. PICK o \in Oldest(S) : TRUE
    BY OldestExists
<1>2. o \in S /\ age[q] <= age[o]
    BY <1>1 DEF Oldest
<1>3. age[o] >= AgeLimit
    BY <1>2, ConstantsOK DEF ConstantsOK, TypeOK
<1>4. o \in Aged(Oldest(S))
    BY <1>1, <1>3 DEF Aged
<1>5. Choices(S, hot) = Oldest(S)
    BY <1>4 DEF Choices
<1> QED
    BY <1>2, <1>5 DEF Oldest

\* What a picked job is: one of the survivors of the sweep, by the policy.
LEMMA PickedFromSurvivors ==
    ASSUME TypeOK, [Next]_vars, NEW r \in Requests,
           phase[r] = "queued", phase'[r] = "taken"
    PROVE  \E hot : /\ r \in Choices(Survivors, hot)
                    /\ \A q \in Requests : phase'[q] = "queued" => q \in Survivors
<1>1. CASE Pick
    <2>0. PICK hot \in [Survivors -> HotTokens] : \E p \in Choices(Survivors, hot) :
             phase' = [q \in Requests |-> IF q = p THEN "taken" ELSE Sweep(q)]
        BY <1>1 DEF Pick
    <2>1. PICK p \in Choices(Survivors, hot) :
             phase' = [q \in Requests |-> IF q = p THEN "taken" ELSE Sweep(q)]
        BY <2>0
    <2>2. Sweep(r) # "taken"
        BY DEF Sweep
    <2>3. r = p
        BY <2>1, <2>2
    <2> QED
        BY <2>1, <2>3, SweepOnlyRemoves
<1>2. CASE ~Pick
    <2>1. Sweep(r) # "taken"
        BY DEF Sweep
    <2>2. ~(\E p \in Requests : Handler(p))
        BY <2>1 DEF TypeOK, Handler, Push, Submit, PushClosed, PushFull, PushAccepted,
                    HangUp, Answer
    <2>3. ~(Take \/ TakeNothing \/ WakeUp \/ Empty \/ Dequeue \/ Finish)
        BY <2>1 DEF TypeOK, Take, TakeNothing, WakeUp, Empty, Dequeue, Finish
    <2>4. ~(Panic \/ ExitGuard \/ Server \/ Tick \/ UNCHANGED vars)
        BY <2>1 DEF Panic, ExitGuard, Server, Shutdown, Close, CloseNotify, Tick, vars
    <2> QED
        BY <1>2, <2>2, <2>3, <2>4 DEF Next, Act, Engine
<1> QED
    BY <1>1, <1>2

\* The engine takes only jobs whose client is there and that are not too old.
THEOREM OnlyTheLivingRun == Spec => TakesOnlyTheLiving
<1>1. TypeOK /\ [Next]_vars =>
        \A r \in Requests : phase[r] = "queued" /\ phase'[r] = "taken" =>
            r \notin hungUp /\ age[r] < QueueTimeout
    <2> SUFFICES ASSUME TypeOK, [Next]_vars, NEW r \in Requests,
                        phase[r] = "queued", phase'[r] = "taken"
                 PROVE  r \notin hungUp /\ age[r] < QueueTimeout
        OBVIOUS
    <2>1. r \in Survivors
        BY PickedFromSurvivors DEF Choices, Oldest, Cheapest
    <2> QED
        BY <2>1, ConstantsOK DEF ConstantsOK, TypeOK, Survivors, Abandoned, Expired
<1> QED
    BY <1>1, TypeCorrect, PTL DEF Spec, TakesOnlyTheLiving

\* The starvation guard of choose(): no job is taken past an older one that
\* has waited age_limit.
THEOREM NoStarvationByCost == Spec => AgedNeverOvertaken
<1>1. TypeOK /\ [Next]_vars =>
        \A r \in Requests : phase[r] = "queued" /\ phase'[r] = "taken" =>
            \A q \in Queue : phase'[q] = "queued" /\ age[q] >= AgeLimit => age[q] <= age[r]
    <2> SUFFICES ASSUME TypeOK, [Next]_vars, NEW r \in Requests,
                        phase[r] = "queued", phase'[r] = "taken",
                        NEW q \in Queue, phase'[q] = "queued", age[q] >= AgeLimit
                 PROVE  age[q] <= age[r]
        OBVIOUS
    <2>1. PICK hot : /\ r \in Choices(Survivors, hot)
                     /\ \A p \in Requests : phase'[p] = "queued" => p \in Survivors
        BY PickedFromSurvivors
    <2>2. q \in Survivors /\ Survivors \subseteq Requests
        BY <2>1 DEF Queue, Survivors
    <2> QED
        BY <2>1, <2>2, AgingDecides
<1> QED
    BY <1>1, TypeCorrect, PTL DEF Spec, AgedNeverOvertaken

\* What makes an aged request's place in the queue final: whoever was taken past
\* it and comes again is younger, until the request has waited so long that the
\* next sweep drops it.
NewIsYoung == \A q \in Requests : phase[q] = "idle" => age[q] = 0
FreshIsUnpassed == \A r \in Requests : phase[r] \in {"idle", "stamped"} => passed[r] = {}
Outranks(r, q) ==
    phase[q] \in {"idle", "stamped", "queued"} => age[q] < age[r] \/ age[r] = QueueTimeout
PassedAreYounger ==
    \A r \in Requests : \A q \in passed[r] :
        phase[r] = "queued" => age[r] >= AgeLimit /\ Outranks(r, q)

THEOREM PassedStayYounger == Spec => [](NewIsYoung /\ FreshIsUnpassed /\ PassedAreYounger)
<1> DEFINE Inv == NewIsYoung /\ FreshIsUnpassed /\ PassedAreYounger
<1> USE DEF NewIsYoung, FreshIsUnpassed, PassedAreYounger, Outranks
<1>1. Init => Inv
    BY DEF Init
<1>2. TypeOK /\ Inv /\ [Next]_vars => Inv'
    <2> SUFFICES ASSUME TypeOK, Inv, [Next]_vars PROVE Inv'
        OBVIOUS
    <2> USE ConstantsOK DEF ConstantsOK
    <2>1. CASE \E r \in Requests : Handler(r)
        <3>1. PICK r \in Requests : Handler(r)
            BY <2>1
        <3>2. CASE Submit(r) \/ PushClosed(r) \/ HangUp(r)
            BY <3>2 DEF TypeOK, Submit, PushClosed, HangUp
        <3>3. CASE Answer(r)
            BY <3>3 DEF TypeOK, Answer
        <3>4. CASE PushFull(r)
            BY <3>4, SweepOnlyRemoves DEF TypeOK, PushFull, Survivors, Queue
        <3>5. CASE PushAccepted(r)
            BY <3>5, SweepOnlyRemoves DEF TypeOK, PushAccepted, Survivors, Queue
        <3> QED
            BY <3>1, <3>2, <3>3, <3>4, <3>5 DEF Handler, Push
    <2>2. CASE Pick
        <3>1. PICK p \in Survivors :
                 /\ phase' = [q \in Requests |-> IF q = p THEN "taken" ELSE Sweep(q)]
                 /\ passed' = [q \in Requests |->
                                 IF q \in Aged(Survivors) \ {p} THEN passed[q] \cup {p} ELSE {}]
                 /\ age' = age
            BY <2>2, ChosenOfThem DEF Pick
        <3>2. \A q \in Requests : phase'[q] \in {"idle", "stamped", "queued"} =>
                 q # p /\ phase'[q] = phase[q]
            BY <3>1, SweepOnlyRemoves
        <3>3. NewIsYoung' /\ FreshIsUnpassed'
            BY <3>1, <3>2 DEF Aged, Survivors, Queue
        <3>4. PassedAreYounger'
            <4> SUFFICES ASSUME NEW r \in Requests, NEW q \in passed'[r], phase'[r] = "queued"
                         PROVE  age'[r] >= AgeLimit /\ Outranks(r, q)'
                OBVIOUS
            <4>1. r \in Aged(Survivors) /\ q \in passed[r] \cup {p} /\ q \in Requests
                BY <3>1 DEF TypeOK, Survivors, Queue
            <4>2. CASE q = p
                BY <3>1, <4>1, <4>2 DEF Aged
            <4>3. CASE q \in passed[r]
                BY <3>1, <3>2, <4>1, <4>3 DEF Aged
            <4> QED
                BY <4>1, <4>2, <4>3
        <3> QED
            BY <3>3, <3>4
    <2>3. CASE TakeNothing
        BY <2>3, SweepOnlyRemoves DEF TypeOK, TakeNothing
    <2>4. CASE Take \/ WakeUp \/ Empty
        BY <2>4 DEF Take, WakeUp, Empty
    <2>5. CASE Dequeue \/ Finish
        BY <2>5 DEF TypeOK, Dequeue, Finish
    <2>6. CASE Panic
        BY <2>6, SweepOnlyRemoves DEF TypeOK, Panic
    <2>7. CASE ExitGuard \/ Server
        BY <2>7 DEF ExitGuard, Server, Shutdown, Close, CloseNotify
    <2>8. CASE Tick
        BY <2>8 DEF TypeOK, Tick, Older
    <2>9. CASE UNCHANGED vars
        BY <2>9 DEF vars
    <2> QED
        BY <2>1, <2>2, <2>3, <2>4, <2>5, <2>6, <2>7, <2>8, <2>9 DEF Next, Act, Engine
<1> QED
    BY <1>1, <1>2, TypeCorrect, PTL DEF Spec

\* An aged request waits for no more jobs than there are other handlers,
\* whatever arrives and whatever the hot cache makes cheap (queue.rs, choose).
THEOREM AgedWaitsForEachOnce == Spec => PassedOnlyOnce
<1>1. TypeOK /\ PassedAreYounger /\ [Next]_vars =>
        \A r \in Requests : phase[r] = "queued" /\ phase'[r] = "taken" =>
            \A q \in Queue : phase'[q] = "queued" /\ age[q] >= AgeLimit => r \notin passed[q]
    <2> SUFFICES ASSUME TypeOK, PassedAreYounger, [Next]_vars, NEW r \in Requests,
                        phase[r] = "queued", phase'[r] = "taken",
                        NEW q \in Queue, phase'[q] = "queued", age[q] >= AgeLimit,
                        r \in passed[q]
                 PROVE  FALSE
        OBVIOUS
    <2>1. PICK hot : /\ r \in Choices(Survivors, hot)
                     /\ \A p \in Requests : phase'[p] = "queued" => p \in Survivors
        BY PickedFromSurvivors
    <2>2. q \in Survivors /\ Survivors \subseteq Requests
        BY <2>1 DEF Queue, Survivors
    <2>3. age[q] <= age[r]
        BY <2>1, <2>2, AgingDecides
    <2>4. age[q] # QueueTimeout
        BY <2>2, ConstantsOK DEF ConstantsOK, Survivors, Abandoned, Expired
    <2>5. age[r] < age[q]
        BY <2>2, <2>4 DEF PassedAreYounger, Outranks, Queue
    <2>6. age[q] \in Nat /\ age[r] \in Nat
        BY <2>2 DEF TypeOK
    <2> QED
        BY <2>3, <2>5, <2>6
<1> QED
    BY <1>1, TypeCorrect, PassedStayYounger, PTL DEF Spec, PassedOnlyOnce

\* A client is turned away only by a queue full of jobs somebody waits for:
\* what was cancelled or has expired is swept before the capacity is compared
\* (queue.rs, push).
THEOREM FullOfTheLiving == Spec => RefusedOnlyByTheLiving
<1>1. TypeOK /\ [Next]_vars =>
        \A r \in Requests : phase[r] # "overloaded" /\ phase'[r] = "overloaded" =>
            Cardinality({q \in Requests : /\ phase'[q] = "queued"
                                          /\ q \notin hungUp
                                          /\ age[q] < QueueTimeout}) >= Capacity
    <2> DEFINE Living == {q \in Requests : /\ phase'[q] = "queued"
                                           /\ q \notin hungUp
                                           /\ age[q] < QueueTimeout}
    <2>0. SUFFICES ASSUME TypeOK, [Next]_vars, NEW r \in Requests,
                          phase[r] # "overloaded", phase'[r] = "overloaded"
                   PROVE  Cardinality(Living) >= Capacity
        OBVIOUS
    <2>1. Sweep(r) # "overloaded"
        BY <2>0 DEF Sweep
    <2>2. PICK p \in Requests : PushFull(p)
        <3>1. CASE \E p \in Requests : Handler(p)
            BY <2>0, <2>1, <3>1 DEF TypeOK, Handler, Push, Submit, PushClosed, PushAccepted,
                                    HangUp, Answer
        <3>2. ~Pick
            BY <2>0, <2>1 DEF Pick
        <3>3. ~(Take \/ TakeNothing \/ WakeUp \/ Empty \/ Dequeue \/ Finish)
            BY <2>0, <2>1 DEF TypeOK, Take, TakeNothing, WakeUp, Empty, Dequeue, Finish
        <3>4. ~(Panic \/ ExitGuard \/ Server \/ Tick \/ UNCHANGED vars)
            BY <2>0, <2>1 DEF Panic, ExitGuard, Server, Shutdown, Close, CloseNotify, Tick, vars
        <3> QED
            BY <2>0, <3>1, <3>2, <3>3, <3>4 DEF Next, Act, Engine
    <2>3. /\ phase' = [q \in Requests |-> IF q = p THEN "overloaded" ELSE Sweep(q)]
          /\ phase[p] = "stamped" /\ Cardinality(Survivors) >= Capacity
        BY <2>2 DEF PushFull
    <2>4. \A q \in Requests : phase'[q] = "queued" <=> q \in Survivors
        BY <2>0, <2>3, SweepOnlyRemoves DEF Survivors, Queue
    <2>5. \A q \in Survivors : q \in Requests /\ q \notin hungUp /\ age[q] < QueueTimeout
        BY <2>0, ConstantsOK DEF ConstantsOK, TypeOK, Survivors, Abandoned, Expired, Queue
    <2>6. Living = Survivors
        BY <2>4, <2>5
    <2> QED
        BY <2>3, <2>6
<1> QED
    BY <1>1, TypeCorrect, PTL DEF Spec, RefusedOnlyByTheLiving
=============================================================================
