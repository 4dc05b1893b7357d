----------------------------- MODULE MCJobQueue -----------------------------
(***************************************************************************)
(* Small instances of JobQueue: three clients over a queue of one or two,  *)
(* prompts of different lengths, and a hot cache that may reverse them.    *)
(***************************************************************************)
EXTENDS JobQueue

CONSTANTS r1, r2, r3

MCRequests == {r1, r2, r3}
MCTwoRequests == {r1, r2}
MCPromptTokens == [r \in Requests |-> IF r = r1 THEN 3 ELSE IF r = r2 THEN 2 ELSE 1]
MCHotTokens == {0, 2}
=============================================================================
