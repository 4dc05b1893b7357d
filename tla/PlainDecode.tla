---------------------------- MODULE PlainDecode ----------------------------
(***************************************************************************)
(* Plain decoding (src/generate.rs, decode_tokens): one token drawn, one   *)
(* token reported, until the reply is complete or somebody stops it.  It   *)
(* is what the speculative loop promises to decode under the same seed.    *)
(*                                                                         *)
(* The reply a seed and a prompt determine is a stream of tokens, each     *)
(* known by what it does: "eog" ends the reply and is never reported,      *)
(* "last" completes the grammar the reply is constrained to.               *)
(***************************************************************************)
EXTENDS Naturals, Sequences

CONSTANTS
    Streams,   \* the replies the sampler may be about to draw
    MaxNew     \* the cap on tokens, max_new

VARIABLES
    stream,    \* the reply this seed draws
    text,      \* the tokens reported so far
    over,      \* whether the loop has returned
    cut        \* ... because its stop predicate fired

vars == <<stream, text, over, cut>>

\* The loop leaves off by itself behind a token it reported: the cap, or a
\* completed grammar.
Ended(t) == Len(t) = MaxNew \/ (t # <<>> /\ t[Len(t)] = "last")
\* Nothing more would be reported: it has left off, or draws an EOG next.
Complete(s, t) == Ended(t) \/ s[Len(t) + 1] = "eog"

Init == stream \in Streams /\ text = <<>> /\ over = FALSE /\ cut = FALSE

Report ==
    /\ ~over /\ ~Complete(stream, text)
    /\ text' = Append(text, stream[Len(text) + 1])
    /\ UNCHANGED <<stream, over, cut>>

Finish ==
    /\ ~over /\ Complete(stream, text)
    /\ over' = TRUE
    /\ UNCHANGED <<stream, text, cut>>

\* The poll at the head of the loop, which a reply that ended does not reach.
Stop ==
    /\ ~over /\ ~Ended(text)
    /\ over' = TRUE /\ cut' = TRUE
    /\ UNCHANGED <<stream, text>>

Next == Report \/ Finish \/ Stop

Spec == Init /\ [][Next]_vars
=============================================================================
