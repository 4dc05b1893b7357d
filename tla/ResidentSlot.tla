---------------------------- MODULE ResidentSlot ----------------------------
(***************************************************************************)
(* What memory.rs promises the machine: one slot for a resident model.     *)
(* Whoever holds model allocations holds them alone, and they are gone     *)
(* before anybody else's appear.                                           *)
(***************************************************************************)
CONSTANT Threads
VARIABLE model  \* the threads that hold model allocations

Init == model = {}
Load(t) == model = {} /\ model' = {t}
Unload(t) == model = {t} /\ model' = {}
\* A process dies and takes its models with it.
Vanish == model' = {}
Next == (\E t \in Threads : Load(t) \/ Unload(t)) \/ Vanish
Spec == Init /\ [][Next]_model
=============================================================================
