------------------------- MODULE ResidentLeaseTimed -------------------------
(***************************************************************************)
(* ResidentLease with the one fact about time its fairness rests on: who   *)
(* waits looks again every polling interval (memory.rs, POLL), and what is *)
(* neither a wait nor a job takes no time to speak of.  So a process that  *)
(* stands back for Penalty intervals gives every other waiter several      *)
(* looks at a slot that is free.                                           *)
(***************************************************************************)
EXTENDS ResidentLease

VARIABLE polled  \* the waiting threads that looked since the last tick

tvars == <<vars, polled>>

Polling == {"registering", "waiting"}
Lasting == Polling \cup {"idle", "kept", "working"}

\* A look that finds the thread's turn has not come.
PollInVain(t) ==
    /\ t \notin polled
    /\ \/ pc[t] = "waiting" /\ (ahead[t] # {} \/ penalty[ProcOf[t]] > 0)
       \/ pc[t] = "registering" /\ probing # {}
    /\ polled' = polled \cup {t}
    /\ UNCHANGED vars

\* A wait begins with a look, and a failed attempt ends in another wait.
Polled ==
    polled' = {t \in Threads : pc'[t] \in Polling /\ (t \in polled \/ pc'[t] # pc[t])}

TimedAct == Act /\ Polled

TimedTick ==
    /\ \A t \in Threads : pc[t] \in Lasting /\ (pc[t] \in Polling => t \in polled)
    /\ Tick
    /\ polled' = {}

TimedInit == Init /\ polled = {}
TimedNext == TimedAct \/ TimedTick \/ \E t \in Threads : PollInVain(t)

\* What a thread does of its own accord once it is on its way: everything but
\* asking for the slot and giving up.
Onward(t) ==
    /\ \/ Count(t) \/ Look(t) \/ SwapOwned(t) \/ LockOwner(t) \/ Grant(t) \/ CloseIntent(t)
       \/ Use(t) \/ Release(t)
    /\ Polled
Registers(t) ==
    /\ Register(t)
    /\ Polled

\* Threads run, jobs end, time never stops; and a probe, which is over at once, does
\* not meet every attempt to register.
Fairness ==
    /\ SF_tvars(TimedTick)
    /\ \A t \in Threads : /\ WF_tvars(Onward(t))
                          /\ WF_tvars(PollInVain(t))
                          /\ SF_tvars(Registers(t))

TimedSpec == TimedInit /\ [][TimedNext]_tvars /\ Fairness

\* Whoever waits for the slot gets it or gives up: a server that has work
\* without end hands it over between two jobs, and does not take it back before
\* the other had its chance.
WaiterServed ==
    \A t \in Threads : pc[t] = "waiting" ~> pc[t] \in {"kept", "leaving"}
=============================================================================
