------------------------------ MODULE JobQueue ------------------------------
(***************************************************************************)
(* The queue between the HTTP handlers and the engine thread               *)
(* (src/serve/queue.rs), with the two parties that use it: a handler       *)
(* submits a request and waits for its answer, the engine thread takes one *)
(* job at a time until the queue is closed (src/serve/engine.rs,           *)
(* engine_loop).                                                           *)
(*                                                                         *)
(* Every operation under the queue's mutex is one action.  Time is         *)
(* discrete: age[r] counts the ticks since request r was stamped with      *)
(* Instant::now(), saturating at QueueTimeout, past which the code no      *)
(* longer tells two ages apart.  Requests stamped within one tick are not  *)
(* ordered, so where the code breaks a tie by arrival either may be picked.*)
(* A request slot is used again once its answer was read, so behaviours    *)
(* are infinite and a request can be overtaken for ever.                   *)
(***************************************************************************)
EXTENDS Naturals, FiniteSets

CONSTANTS
    Requests,      \* request slots of the HTTP handlers
    Capacity,      \* settings.queue_capacity
    QueueTimeout,  \* SchedulePolicy.queue_timeout, in ticks
    AgeLimit,      \* SchedulePolicy.age_limit, in ticks
    Schedule,      \* SchedulePolicy.schedule: "fifo" or "shortest_prefill"
    PromptTokens,  \* [Requests -> Nat]: Queued.prompt_tokens
    HotTokens,     \* the values the engine's hot closure may return
    TakeTimeout,   \* the timeout handed to take(), in ticks
    Bounded,       \* FALSE: take() is called with no timeout
    MayClose,      \* the server may shut down
    MayPanic       \* the engine thread may panic outside its per-job boundary

ASSUME ConstantsOK ==
    /\ Capacity \in Nat \ {0}
    /\ QueueTimeout \in Nat \ {0}
    /\ AgeLimit \in Nat \ {0}
    /\ Schedule \in {"fifo", "shortest_prefill"}
    /\ PromptTokens \in [Requests -> Nat]
    /\ HotTokens \subseteq Nat
    /\ TakeTimeout \in Nat
    /\ {Bounded, MayClose, MayPanic} \subseteq BOOLEAN

VARIABLES
    phase,       \* what became of the request in each slot
    age,         \* ticks since Queued.submitted
    hungUp,      \* slots whose cancel fired or whose receiver was dropped
    engine,      \* where the engine thread is
    left,        \* ticks until the deadline of the running take()
    woken,       \* the condvar was notified while the engine waited on it
    closed,      \* Inner.closed
    notifyOwed,  \* close() set the flag and has not notified yet
    shutdown,    \* the server's shutdown token has fired
    passed       \* history: passed[r], the slots whose requests were taken while
                 \* the one in r had waited age_limit and stayed behind

vars == <<phase, age, hungUp, engine, left, woken, closed, notifyOwed, shutdown, passed>>

Outcomes == {"served", "expired", "dropped", "overloaded", "engine_gone"}
Phases == {"idle", "stamped", "queued", "taken", "running"} \cup Outcomes
EngineAt == {"polling", "selecting", "waiting", "came_back_empty", "dequeued",
             "busy", "unwinding", "exited", "dead"}

\* Inner.jobs.
Queue == {r \in Requests : phase[r] = "queued"}

\* What a sweep drops silently, what it drops with an error event, and, below,
\* what it keeps.
Abandoned == Queue \cap hungUp
Expired == {r \in Queue \ hungUp : age[r] >= QueueTimeout}

\* Slips for the mutants: expiry is forgotten, and an expired job goes silently.
SurvivorsExpired == Queue \ Abandoned
SweepSilently(r) == IF r \in Abandoned \cup Expired THEN "dropped" ELSE phase[r]

Survivors == Queue \ (Abandoned \cup Expired)

Sweep(r) == IF r \in Abandoned THEN "dropped"
            ELSE IF r \in Expired THEN "expired"
            ELSE phase[r]

Oldest(S) == {r \in S : \A q \in S : age[q] <= age[r]}

\* The prefill a job really needs: prompt_tokens.saturating_sub(hot(job)).
Cost(r, hot) == IF hot[r] >= PromptTokens[r] THEN 0 ELSE PromptTokens[r] - hot[r]

Cheapest(S, hot) ==
    {r \in S : \A q \in S : \/ Cost(r, hot) < Cost(q, hot)
                            \/ Cost(r, hot) = Cost(q, hot) /\ age[q] <= age[r]}

Aged(S) == {r \in S : age[r] >= AgeLimit}

\* A slip: no age lets a job past the cheaper ones.
ChoicesWithoutAging(S, hot) == IF Schedule = "fifo" THEN Oldest(S) ELSE Cheapest(S, hot)

\* The jobs choose() may pick from the survivors S.
Choices(S, hot) ==
    IF \/ Schedule = "fifo"
       \/ Aged(Oldest(S)) # {}
    THEN Oldest(S)
    ELSE Cheapest(S, hot)

\* A slip: nobody is notified.
NotifyNobody == woken' = woken

Notify == woken' = (woken \/ engine = "waiting")
-----------------------------------------------------------------------------
\* The handlers.

\* submit() makes the event channel and stamps the submission: a fresh age.
Submit(r) ==
    /\ phase[r] = "idle"
    /\ phase' = [phase EXCEPT ![r] = "stamped"]
    /\ UNCHANGED <<age, hungUp, engine, left, woken, closed, notifyOwed, shutdown, passed>>

\* push(), some time later: the mutex may have been held by someone else.
PushClosed(r) ==
    /\ phase[r] = "stamped" /\ closed
    /\ phase' = [phase EXCEPT ![r] = "engine_gone"]
    /\ UNCHANGED <<age, hungUp, engine, left, woken, closed, notifyOwed, shutdown, passed>>

\* A slip: the capacity is compared before the sweep.
PushFullUnswept(r) ==
    /\ phase[r] = "stamped" /\ ~closed
    /\ Cardinality(Queue) >= Capacity
    /\ phase' = [phase EXCEPT ![r] = "overloaded"]
    /\ UNCHANGED <<age, hungUp, engine, left, woken, closed, notifyOwed, shutdown, passed>>

PushFull(r) ==
    /\ phase[r] = "stamped" /\ ~closed
    /\ Cardinality(Survivors) >= Capacity
    /\ phase' = [q \in Requests |-> IF q = r THEN "overloaded" ELSE Sweep(q)]
    /\ UNCHANGED <<age, hungUp, engine, left, woken, closed, notifyOwed, shutdown, passed>>

PushAccepted(r) ==
    /\ phase[r] = "stamped" /\ ~closed
    /\ Cardinality(Survivors) < Capacity
    /\ phase' = [q \in Requests |-> IF q = r THEN "queued" ELSE Sweep(q)]
    /\ Notify
    /\ UNCHANGED <<age, hungUp, engine, left, closed, notifyOwed, shutdown, passed>>

\* The client goes away: the handler's future is dropped, which fires its
\* CancelGuard and closes the event channel.
HangUp(r) ==
    /\ phase[r] \in {"queued", "taken", "running"}
    /\ hungUp' = hungUp \cup {r}
    /\ UNCHANGED <<phase, age, engine, left, woken, closed, notifyOwed, shutdown, passed>>

\* The handler has answered its client; the slot is ready for a request with
\* a channel and a stamp of its own.
Answer(r) ==
    /\ phase[r] \in Outcomes
    /\ phase' = [phase EXCEPT ![r] = "idle"]
    /\ age' = [age EXCEPT ![r] = 0]
    /\ hungUp' = hungUp \ {r}
    /\ passed' = [passed EXCEPT ![r] = {}]
    /\ UNCHANGED <<engine, left, woken, closed, notifyOwed, shutdown>>
-----------------------------------------------------------------------------
\* The engine thread.

\* A slip: the deadline is a tick late.
TakeLate ==
    /\ engine = "polling"
    /\ engine' = "selecting"
    /\ left' = TakeTimeout + 1
    /\ UNCHANGED <<phase, age, hungUp, woken, closed, notifyOwed, shutdown, passed>>

\* The call of take(): the deadline is measured from here.
Take ==
    /\ engine = "polling"
    /\ engine' = "selecting"
    /\ left' = TakeTimeout
    /\ UNCHANGED <<phase, age, hungUp, woken, closed, notifyOwed, shutdown, passed>>

\* choose() found a job.
Pick ==
    /\ engine = "selecting"
    /\ \E hot \in [Survivors -> HotTokens] : \E r \in Choices(Survivors, hot) :
          /\ phase' = [q \in Requests |-> IF q = r THEN "taken" ELSE Sweep(q)]
          /\ passed' = [q \in Requests |->
                           IF q \in Aged(Survivors) \ {r} THEN passed[q] \cup {r} ELSE {}]
    /\ engine' = "dequeued"
    /\ UNCHANGED <<age, hungUp, left, woken, closed, notifyOwed, shutdown>>

\* A slip: an empty queue that is closed is waited on like any other.
TakeNothingDeaf ==
    /\ engine = "selecting"
    /\ Survivors = {}
    /\ phase' = [q \in Requests |-> Sweep(q)]
    /\ engine' = IF Bounded /\ left = 0 THEN "came_back_empty" ELSE "waiting"
    /\ woken' = FALSE
    /\ UNCHANGED <<age, hungUp, left, closed, notifyOwed, shutdown, passed>>

\* choose() found nothing, and take() gives up or waits.
TakeNothing ==
    /\ engine = "selecting"
    /\ Survivors = {}
    /\ phase' = [q \in Requests |-> Sweep(q)]
    /\ engine' = IF closed \/ (Bounded /\ left = 0) THEN "came_back_empty" ELSE "waiting"
    /\ woken' = FALSE
    /\ UNCHANGED <<age, hungUp, left, closed, notifyOwed, shutdown, passed>>

\* The condvar lets the engine go: notified, timed out, or spuriously.
WakeUp ==
    /\ engine = "waiting"
    /\ engine' = "selecting"
    /\ woken' = FALSE
    /\ UNCHANGED <<phase, age, hungUp, left, closed, notifyOwed, shutdown, passed>>

\* take() returned None: the engine asks is_closed(), outside the lock take()
\* held, and leaves its loop or polls again.
Empty ==
    /\ engine = "came_back_empty"
    /\ engine' = IF closed THEN "exited" ELSE "polling"
    /\ UNCHANGED <<phase, age, hungUp, left, woken, closed, notifyOwed, shutdown, passed>>

\* The dequeue check, then the job: a job nobody waits for is dropped.
Dequeue ==
    /\ engine = "dequeued"
    /\ \E r \in Requests :
          /\ phase[r] = "taken"
          /\ IF shutdown \/ r \in hungUp
             THEN /\ phase' = [phase EXCEPT ![r] = "dropped"]
                  /\ engine' = "polling"
             ELSE /\ phase' = [phase EXCEPT ![r] = "running"]
                  /\ engine' = "busy"
    /\ UNCHANGED <<age, hungUp, left, woken, closed, notifyOwed, shutdown, passed>>

\* The job ends, one way or another: its event channel is closed.
Finish ==
    /\ engine = "busy"
    /\ phase' = [r \in Requests |-> IF phase[r] = "running" THEN "served" ELSE phase[r]]
    /\ engine' = "polling"
    /\ UNCHANGED <<age, hungUp, left, woken, closed, notifyOwed, shutdown, passed>>

\* A panic outside the per-job boundary: in the cost closure (under the queue
\* lock, after the sweep) or on the way between two jobs.  The unwinding drops
\* the job at hand.
Panic ==
    /\ MayPanic
    /\ engine \in {"selecting", "dequeued", "busy", "came_back_empty"}
    /\ phase' = [r \in Requests |->
                   IF phase[r] \in {"taken", "running"} THEN "dropped"
                   ELSE IF engine = "selecting" THEN Sweep(r) ELSE phase[r]]
    /\ engine' = "unwinding"
    /\ UNCHANGED <<age, hungUp, left, woken, closed, notifyOwed, shutdown, passed>>

\* EngineExitGuard, dropped last on either way out of engine_loop.
ExitGuard ==
    /\ engine = "unwinding"
    /\ engine' = "dead"
    /\ closed' = TRUE
    /\ UNCHANGED <<phase, age, hungUp, left, woken, notifyOwed, shutdown, passed>>
-----------------------------------------------------------------------------
\* The server and time.

\* shutdown_signal fires the token and closes the queue; close() sets the
\* flag under the lock and notifies after it has let go of it.
Shutdown ==
    /\ MayClose /\ ~shutdown
    /\ shutdown' = TRUE
    /\ UNCHANGED <<phase, age, hungUp, engine, left, woken, closed, notifyOwed, passed>>

Close ==
    /\ shutdown /\ ~closed
    /\ closed' = TRUE
    /\ notifyOwed' = TRUE
    /\ UNCHANGED <<phase, age, hungUp, engine, left, woken, shutdown, passed>>

CloseNotify ==
    /\ notifyOwed
    /\ notifyOwed' = FALSE
    /\ Notify
    /\ UNCHANGED <<phase, age, hungUp, engine, left, closed, shutdown, passed>>

Older(r) == IF phase[r] \in {"stamped", "queued"} /\ age[r] < QueueTimeout
            THEN age[r] + 1 ELSE age[r]

Tick ==
    /\ age' = [r \in Requests |-> Older(r)]
    /\ left' = IF left > 0 THEN left - 1 ELSE 0
    /\ UNCHANGED <<phase, hungUp, engine, woken, closed, notifyOwed, shutdown, passed>>
-----------------------------------------------------------------------------
Init ==
    /\ phase = [r \in Requests |-> "idle"]
    /\ age = [r \in Requests |-> 0]
    /\ hungUp = {}
    /\ engine = "polling"
    /\ left = 0
    /\ woken = FALSE
    /\ closed = FALSE
    /\ notifyOwed = FALSE
    /\ shutdown = FALSE
    /\ passed = [r \in Requests |-> {}]

Push(r) == PushClosed(r) \/ PushFull(r) \/ PushAccepted(r)
Handler(r) == Submit(r) \/ Push(r) \/ HangUp(r) \/ Answer(r)
Engine == Take \/ Pick \/ TakeNothing \/ WakeUp \/ Empty \/ Dequeue \/ Finish
Server == Shutdown \/ Close \/ CloseNotify

\* Everything but the passing of time.
Act == (\E r \in Requests : Handler(r)) \/ Engine \/ Panic \/ ExitGuard \/ Server
Next == Act \/ Tick

Spec == Init /\ [][Next]_vars

\* The condvar owes the engine a return only for a notification or a deadline.
WokenUp == WakeUp /\ (woken \/ (Bounded /\ left = 0))

\* Time passes; a handler in the middle of push() gets the lock; the engine
\* thread runs, and a job ends (job_deadline bounds it); close() gets to its
\* notify.  No client has to submit, hang up or read its answer, and the
\* server need not shut down.
Fairness ==
    /\ WF_vars(Tick)
    /\ \A r \in Requests : WF_vars(Push(r))
    /\ WF_vars(Take \/ Pick \/ TakeNothing \/ WokenUp \/ Empty \/ Dequeue \/ Finish \/ ExitGuard)
    /\ WF_vars(Close) /\ WF_vars(CloseNotify)

FairSpec == Spec /\ Fairness
-----------------------------------------------------------------------------
TypeOK ==
    /\ phase \in [Requests -> Phases]
    /\ age \in [Requests -> 0..QueueTimeout]
    /\ hungUp \subseteq Requests
    /\ engine \in EngineAt
    /\ left \in 0..TakeTimeout
    /\ {woken, closed, notifyOwed, shutdown} \subseteq BOOLEAN
    /\ passed \in [Requests -> SUBSET Requests]

\* A request whose channel is closed without a word is one whose client left
\* first, or one the server let go of while shutting down or dying: the sweep
\* and the dequeue check never drop a request someone still waits for.
OnlyTheGoneAreDropped ==
    \A r \in Requests : phase[r] = "dropped" =>
        r \in hungUp \/ shutdown \/ engine \in {"unwinding", "dead"}

\* The engine sleeps on the condvar, with no notification on its way, only
\* when the queue is empty and open: no push and no close falls between the
\* last look at the queue and the wait.
SleepsOnlyWhenIdle ==
    engine = "waiting" /\ ~woken => Queue = {} /\ (closed => notifyOwed)

\* The starvation guard of choose(): no job is taken while one that has waited
\* age_limit and is older stays behind; and the pick that aging forces is the
\* oldest of all, so aging never reorders (the comment of choose()).
AgedNeverOvertaken ==
    [][\A r \in Requests : phase[r] = "queued" /\ phase'[r] = "taken" =>
          \A q \in Queue : phase'[q] = "queued" /\ age[q] >= AgeLimit => age[q] <= age[r]]_vars

\* So aging bounds what a request waits for, whatever arrives and whatever the
\* cached prefixes make cheap: once it has waited age_limit, no handler gets a
\* second request in before it.  (How long those jobs take is another matter.)
PassedOnlyOnce ==
    [][\A r \in Requests : phase[r] = "queued" /\ phase'[r] = "taken" =>
          \A q \in Queue : phase'[q] = "queued" /\ age[q] >= AgeLimit => r \notin passed[q]]_vars

\* What the engine takes is wanted and fresh: its client is there, and it has
\* not outlived the queue timeout.
TakesOnlyTheLiving ==
    [][\A r \in Requests : phase[r] = "queued" /\ phase'[r] = "taken" =>
          r \notin hungUp /\ age[r] < QueueTimeout]_vars

\* A client is told that the server is overloaded only by a queue full of
\* requests that could still be served: cancelled and expired entries never
\* pin capacity while a long job keeps the engine away.
RefusedOnlyByTheLiving ==
    [][\A r \in Requests : phase[r] # "overloaded" /\ phase'[r] = "overloaded" =>
          Cardinality({q \in Requests : /\ phase'[q] = "queued"
                                        /\ q \notin hungUp
                                        /\ age[q] < QueueTimeout}) >= Capacity]_vars

\* Whoever is in the queue leaves it: taken, told that it waited too long, or
\* dropped because its client left.
EveryWaiterLeaves == \A r \in Requests : phase[r] = "queued" ~> phase[r] # "queued"

\* A shutdown reaches the engine thread wherever it is.
ShutdownReachesEngine == closed ~> engine \in {"exited", "dead"}

\* What the queue's documentation says of close(): jobs already queued still
\* come out of take(), so the engine leaves an empty queue behind.
DrainedBeforeExit == engine = "exited" => Queue = {}
=============================================================================
