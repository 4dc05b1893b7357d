------------------------------- MODULE Reply -------------------------------
(***************************************************************************)
(* One generation from the opening of its reply to its terminal event: the *)
(* speculative round loop (src/generate.rs, decode_loop_spec and           *)
(* decode_loop_mtp) composed with the emitter, the event channel and the   *)
(* Abandon protocol of the engine (src/serve/engine.rs), against a client  *)
(* that reads, stalls or hangs up, a deadline, and a shutdown.             *)
(*                                                                         *)
(* A round drafts tokens, verifies them in one forward, reports the ones   *)
(* the target drew itself, and only then rolls the caches back to what was *)
(* reported; each report may block in a send, and each is followed by a    *)
(* poll that may stop the round half way.                                  *)
(*                                                                         *)
(* The prompt is left out: positions count from its end.  What a token     *)
(* does to the emitter is all that is kept of it: "word" is text, and what *)
(* names a call that was opened; "part" is text that may start a stop      *)
(* sequence, "stop" the rest of one, and neither names a call; "open" and  *)
(* "shut" are the markers of a call, "eog" and "last" end the reply.  A    *)
(* draw on anything but the reply so far yields "off".  Reasoning blocks,  *)
(* statistics and the pause controller, which decides whether to draft,    *)
(* are left out: a round may draft or not.                                 *)
(***************************************************************************)
EXTENDS Integers, Sequences, SequencesExt

CONSTANTS
    Streams,       \* the replies the sampler may be about to draw
    MaxNew,        \* max_new
    DraftMax,      \* the tokens a round drafts at most
    MaxCtx,        \* what the target's cache holds past the prompt
    DraftCtx,      \* what the drafter's cache holds past the prompt
    Drafters,      \* the kinds of drafter: "dflash", "mtp"
    Capacity,      \* of the event channel
    SendDeadline,  \* SEND_DEADLINE, in ticks
    JobDeadline,   \* the job's wall-clock ceiling, in ticks
    MaxWork        \* no work takes time past this tick (bounds the model)

Token == {"word", "part", "stop", "open", "shut", "eog", "last"}

ASSUME ReplyConstantsOK ==
    /\ {MaxNew, DraftMax, MaxCtx, DraftCtx, Capacity, SendDeadline, JobDeadline, MaxWork}
            \subseteq Nat
    /\ MaxNew > 0 /\ Capacity > 0 /\ MaxNew <= MaxCtx
    /\ Drafters \subseteq {"dflash", "mtp"}
    /\ \A s \in Streams :
          s \in Seq(Token) \ {<<>>} /\ (Len(s) >= MaxNew \/ Last(s) \in {"eog", "last"})

Never == -1

VARIABLES
    stream,    \* the reply this seed draws, and the kind of drafter attached
    pc,        \* where run_job is
    text,      \* emitter.ids: the tokens reported so far
    gen,       \* the generator: both caches, the sampler, n_past and id_last
    round,     \* the round under way: its verify span, its commits, emitted_here
    ended,     \* hit_eog and cancelled
    emitter,   \* the open call, the text held back, and whether a stop matched
    outbox,    \* events the engine is about to send, one after another
    sendBy,    \* when the send that blocks gives up
    chan,      \* the job's event channel
    got,       \* what the client has read from it
    job,       \* the cancel token, the shutdown token, and Abandon's two cells
    left,      \* what the client has dropped: its "receiver", its "guard"
    now

engine == <<pc, text, gen, round, ended, emitter>>
vars == <<stream, pc, text, gen, round, ended, emitter, outbox, sendBy, chan, got, job, left, now>>

NoRound == [span |-> <<>>, committed |-> <<>>, emitted |-> 0]
Closed == "receiver" \in left

---------------------------------------------------------------------------
(* Abandon.                                                                *)

\* Abandon::reason: shutdown before deadline before hang-up, the first writer
\* wins, and the first look that sees a reason starts the wind-down budget.
Reason ==
    IF job.cancel # "live" THEN job.cancel
    ELSE IF job.shutdown THEN "shutdown"
    ELSE IF now >= JobDeadline THEN "deadline"
    ELSE IF Closed THEN "gone" ELSE "live"
Looked == [job EXCEPT !.cancel = Reason,
                      !.at = IF Reason # "live" /\ @ = Never THEN now ELSE @]

\* The predicate the loops poll; it looks for a reason only if it needs one.
ShouldStop == emitter.matched \/ job.dead \/ Reason # "live"
Polled == IF emitter.matched \/ job.dead THEN job ELSE Looked

\* A slip: every send has a deadline of its own, cancelled or not.
FreshSendBy(at) == now + SendDeadline
SendBy(at) == IF at # Never THEN at + SendDeadline ELSE now + SendDeadline
By == IF sendBy # Never THEN sendBy ELSE SendBy(job.at)
ShutdownPending == job.shutdown \/ job.cancel = "shutdown"
Full == Len(chan) >= Capacity

Deliver ==
    /\ outbox # <<>> /\ ~job.dead /\ ~Closed /\ ~Full
    /\ chan' = Append(chan, Head(outbox))
    /\ outbox' = Tail(outbox)
    /\ sendBy' = Never
    /\ UNCHANGED <<stream, engine, got, job, left, now>>

\* A full channel, and no reason yet to give the event up.
Stall ==
    /\ outbox # <<>> /\ ~job.dead /\ ~Closed /\ Full
    /\ ~ShutdownPending /\ now < By /\ sendBy = Never
    /\ sendBy' = By
    /\ UNCHANGED <<stream, engine, outbox, chan, got, job, left, now>>

\* A slip: a client that stalls is waited for.
WaitForTheStalled ==
    /\ outbox # <<>> /\ ~job.dead
    /\ Closed \/ (Full /\ ShutdownPending)
    /\ job' = [job EXCEPT !.dead = TRUE]
    /\ outbox' = Tail(outbox)
    /\ sendBy' = Never
    /\ UNCHANGED <<stream, engine, chan, got, left, now>>

\* A slip: the event is skipped, and the next one offered.
GiveUpThisOne ==
    /\ outbox # <<>> /\ ~job.dead
    /\ Closed \/ (Full /\ (ShutdownPending \/ now >= By))
    /\ outbox' = Tail(outbox)
    /\ sendBy' = Never
    /\ UNCHANGED <<stream, engine, chan, got, job, left, now>>

\* The event did not land.  The send that failed is the last one offered.
GiveUp ==
    /\ outbox # <<>> /\ ~job.dead
    /\ Closed \/ (Full /\ (ShutdownPending \/ now >= By))
    /\ job' = [job EXCEPT !.dead = TRUE]
    /\ outbox' = Tail(outbox)
    /\ sendBy' = Never
    /\ UNCHANGED <<stream, engine, chan, got, left, now>>

Suppress ==
    /\ outbox # <<>> /\ job.dead
    /\ outbox' = Tail(outbox)
    /\ UNCHANGED <<stream, engine, sendBy, chan, got, job, left, now>>

---------------------------------------------------------------------------
(* The emitter.  An event names the tokens of the reply it brings the      *)
(* client, in the order of the reply.                                      *)

Says(kind, tokens) == <<[kind |-> kind, tokens |-> tokens]>>
Text(tokens) == IF tokens = {} THEN <<>> ELSE Says("text", tokens)
Start == Says("start", {})
Done(isCut) == Says(IF isCut THEN "cut" ELSE "done", {})

\* StopFilter: text that may still grow into a stop sequence...
Growing(reply, tokens) ==
    {n \in tokens : \A m \in tokens : m >= n => reply[m] = "part"}
\* ... and push, which lets the rest of it go, up to a match.
Push(reply, tokens) ==
    LET all == emitter.held \cup tokens
        stops == {n \in all : reply[n] = "stop"}
        before == {n \in all : \A m \in stops : n < m}
    IN  [ready |-> before \ Growing(reply, before),
         held |-> IF stops = {} THEN Growing(reply, all) ELSE {},
         matched |-> emitter.matched \/ stops # {}]

\* push_answer.  What is left open behind the text is up to the caller.
PushAnswer(reply, tokens, call, span) ==
    LET pushed == Push(reply, tokens)
    IN  [events |-> Text(pushed.ready),
         after |-> [call |-> call, span |-> span, held |-> pushed.held,
                    matched |-> pushed.matched]]

\* close_span: the call is ended, or what never became one is given back as
\* text, the marker that closed it too; then the next may be open.
CloseSpan(reply, marker, call, span) ==
    IF emitter.call = "opened" THEN PushAnswer(reply, emitter.span \cup marker, call, span)
    ELSE [events |-> Says("end", marker),
          after |-> [emitter EXCEPT !.call = call, !.span = span]]

\* accept, for the next token of the reply: what it sends, and the emitter then.
Accept(token) ==
    LET n == Len(text) + 1
        reply == Append(text, token)
        Stays(call, span) == [emitter EXCEPT !.call = call, !.span = span]
        Gives(events, after) == [events |-> events, after |-> after]
        InSpan == emitter.call # "none"
    IN  CASE token = "open" /\ ~InSpan ->
                Gives(Text(emitter.held), [Stays("opened", {n}) EXCEPT !.held = {}])
          [] token = "open" /\ InSpan -> CloseSpan(reply, {}, "opened", {n})
          [] token = "shut" /\ InSpan -> CloseSpan(reply, {n}, "none", {})
          [] token \in {"part", "stop"} /\ emitter.call = "opened" ->
                Gives(<<>>, Stays("opened", emitter.span \cup {n}))
          [] token \notin {"open", "shut", "part", "stop"} /\ emitter.call = "opened" ->
                Gives(Says("call", emitter.span \cup {n}), Stays("named", {}))
          [] token \notin {"open", "shut"} /\ emitter.call = "named" ->
                Gives(Says("arg", {n}), emitter)
          [] OTHER -> PushAnswer(reply, {n}, "none", {})

\* heal_open_call.
Healed == IF emitter.call = "none" THEN [events |-> <<>>, after |-> emitter]
          ELSE CloseSpan(text, {}, "none", {})

\* What closes a finished turn: the open call, the held-back tail unless a
\* stop sequence matched, the terminal event.  A tail that does not land ends
\* the job before the terminal event, which would have been suppressed.
WindDown(isCut) ==
    LET tail == IF Healed.after.matched THEN {} ELSE Healed.after.held
    IN  Healed.events \o Text(tail) \o Done(isCut)

---------------------------------------------------------------------------
(* The engine thread: run_job from its dispatch to its return.  It acts    *)
(* only when nothing is left to send.                                      *)

At(where) == pc = where /\ outbox = <<>>
QuietUnchanged == UNCHANGED <<stream, sendBy, chan, got, left, now>>

\* finish_abandoned_before_decode: a gone client is told nothing, any other
\* gets an empty turn, opened if it was not.
EndBeforeDecode(opening) ==
    /\ Reason # "live"
    /\ pc' = "finished" /\ ended' = [ended EXCEPT !.cancelled = TRUE]
    /\ outbox' = IF Reason = "gone" THEN <<>> ELSE opening \o Done(TRUE)
    /\ job' = Looked
    /\ UNCHANGED <<text, gen, round, emitter>> /\ QuietUnchanged

AbandonDispatch == At("dispatch") /\ EndBeforeDecode(Start)
AbandonPrefill == At("prefill") /\ ~job.dead /\ EndBeforeDecode(<<>>)

OpenReply ==
    /\ At("dispatch")
    /\ pc' = "prefill" /\ outbox' = Start
    /\ UNCHANGED <<text, gen, round, ended, emitter, job>> /\ QuietUnchanged

\* The client had left, or would not read, before the reply began.
NobodyToOpenFor ==
    /\ At("prefill") /\ job.dead
    /\ pc' = "finished" /\ ended' = [ended EXCEPT !.cancelled = TRUE]
    /\ UNCHANGED <<text, gen, round, emitter, outbox, job>> /\ QuietUnchanged

Prefilled ==
    /\ At("prefill") /\ ~job.dead /\ Reason = "live"
    /\ pc' = "first"
    /\ UNCHANGED <<text, gen, round, ended, emitter, outbox, job>> /\ QuietUnchanged

\* One draw of the target's sampler: the forward it reads, the history behind
\* the presence penalty and the count of draws must all be the reply so far.
Draw(context, presence, drawn) ==
    IF /\ drawn < Len(stream.tokens)
       /\ context = SubSeq(stream.tokens, 1, drawn) /\ presence = context
    THEN stream.tokens[drawn + 1] ELSE "off"

EndsWalk(token) == token \in {"eog", "last"}

\* on_event, and the counters beside it.
ReportToken(token) ==
    LET said == Accept(token)
    IN  /\ text' = Append(text, token)
        /\ emitter' = said.after
        /\ outbox' = said.events

\* The first token is drawn from the prefill's logits.
FirstToken ==
    /\ At("first") /\ ~ShouldStop
    /\ LET token == Draw(<<>>, <<>>, 0)
       IN  /\ gen' = [gen EXCEPT !.presence = <<token>>, !.drawn = 1, !.idLast = token]
           /\ IF token = "eog"
              THEN /\ ended' = [ended EXCEPT !.eog = TRUE] /\ pc' = "end"
                   /\ UNCHANGED <<text, emitter, outbox>>
              ELSE ReportToken(token) /\ pc' = "firstSaid" /\ UNCHANGED ended
    /\ job' = Polled
    /\ UNCHANGED round /\ QuietUnchanged

\* A first token that completes the grammar, or the cap, is all there is.
FirstSaid ==
    /\ At("firstSaid")
    /\ LET owed == Len(text) < MaxNew
           stops == owed /\ ShouldStop
           complete == Last(text) = "last"
       IN  /\ job' = IF owed THEN Polled ELSE job
           /\ ended' = [eog |-> complete, cancelled |-> stops]
           /\ pc' = IF complete \/ stops \/ ~owed THEN "end" ELSE "poll"
    /\ UNCHANGED <<text, gen, round, emitter, outbox>> /\ QuietUnchanged

\* The polls at the head of the loop, before anything is drawn.
StopAtPoll ==
    /\ \/ At("first") \/ At("poll")
    /\ ShouldStop
    /\ pc' = "end" /\ ended' = [ended EXCEPT !.cancelled = TRUE]
    /\ job' = Polled
    /\ UNCHANGED <<text, gen, round, emitter, outbox>> /\ QuietUnchanged

GoOn ==
    /\ At("poll") /\ ~ShouldStop
    /\ pc' = "round"
    /\ job' = Polled
    /\ UNCHANGED <<text, gen, round, ended, emitter, outbox>> /\ QuietUnchanged

\* drafter_span_rows(.., 1) = 1: the drafter holds what the target holds, and
\* has room for one row more.
SpecLive == Len(gen.drafter) = gen.nPast /\ gen.nPast < DraftCtx
Least(S) == CHOOSE n \in S : \A m \in S : n <= m
DraftRoom == Least({DraftMax} \cup {IF ctx > gen.nPast THEN ctx - gen.nPast - 1 ELSE 0 :
                                    ctx \in {MaxCtx, DraftCtx}})

\* What the drafter may propose after id_last: so many right, so many wrong.
Drafts ==
    LET ahead == SubSeq(stream.tokens, gen.drawn + 1, Len(stream.tokens))
        Guesses == {g \in [right : 0..Len(ahead), wrong : 0..DraftRoom] :
                       g.right + g.wrong <= DraftRoom}
    IN  {SubSeq(ahead, 1, g.right) \o [i \in 1..g.wrong |-> "wrong"] : g \in Guesses}

\* No usable draft: one token through the target, whose row the drafter takes
\* at once.
PlainRound ==
    /\ At("round")
    /\ LET cache == Append(gen.cache, gen.idLast)
           token == Draw(cache, gen.presence, gen.drawn)
       IN  /\ gen' = [gen EXCEPT !.cache = cache,
                                 !.drafter = IF SpecLive THEN Append(@, gen.idLast) ELSE @,
                                 !.presence = Append(@, token), !.drawn = @ + 1,
                                 !.idLast = token]
           /\ round' = [span |-> <<>>, committed |-> <<token>>, emitted |-> 0]
    /\ pc' = "emit"
    /\ UNCHANGED <<text, ended, emitter, outbox, job>> /\ QuietUnchanged

\* accept_drafts: rows are drawn in order up to the first that is not the
\* draft behind it, that ends the reply, or that meets the budget.
Row(span, i) ==
    Draw(gen.cache \o SubSeq(span, 1, i), gen.presence \o SubSeq(span, 2, i), gen.drawn + i - 1)
\* A slip: the walk goes on past a draft the target did not draw.
WalkOverMismatch(span, i, budget) == i = budget \/ i = Len(span) \/ EndsWalk(Row(span, i))
WalkStops(span, i, budget) ==
    i = budget \/ i = Len(span) \/ Row(span, i) # span[i + 1] \/ EndsWalk(Row(span, i))
Walked(span, budget) ==
    LET rows == Least({i \in 1..Len(span) : WalkStops(span, i, budget)})
    IN  [i \in 1..rows |-> Row(span, i)]

VerifyRound(drafts) ==
    /\ At("round")
    /\ SpecLive /\ drafts # <<>>
    /\ LET span == <<gen.idLast>> \o drafts
           committed == Walked(span, MaxNew - Len(text))
       IN  /\ gen' = [gen EXCEPT !.cache = @ \o span, !.presence = @ \o committed,
                                 !.drawn = @ + Len(committed)]
           /\ round' = [span |-> span, committed |-> committed, emitted |-> 0]
    /\ pc' = "emit"
    /\ UNCHANGED <<text, ended, emitter, outbox, job>> /\ QuietUnchanged

\* One turn of the emit loop, up to the callback's return...
Emit ==
    /\ At("emit")
    /\ LET token == round.committed[round.emitted + 1]
       IN  IF token = "eog"
           THEN /\ ended' = [ended EXCEPT !.eog = TRUE] /\ pc' = "commit"
                /\ UNCHANGED <<text, emitter, outbox, round>>
           ELSE /\ ReportToken(token) /\ pc' = "emitted"
                /\ round' = [round EXCEPT !.emitted = @ + 1]
                /\ UNCHANGED ended
    /\ UNCHANGED <<gen, job>> /\ QuietUnchanged

\* ... and from there: the cap, then the poll, then the next token if any.
Emitted ==
    /\ At("emitted")
    /\ LET capped == Len(text) >= MaxNew
           stops == ~capped /\ ShouldStop
           spent == round.emitted = Len(round.committed)
       IN  /\ job' = IF capped THEN job ELSE Polled
           /\ ended' = [ended EXCEPT !.cancelled = stops]
           /\ pc' = IF capped \/ stops \/ spent THEN "commit" ELSE "emit"
    /\ UNCHANGED <<text, gen, round, emitter, outbox>> /\ QuietUnchanged

\* A slip: a round keeps what it committed, however far its emit got.
KeepCommits(committed, emitted) == committed
VerifyKeep(committed, emitted) == Least({committed, emitted + 1})

\* The rows the drafter is given for the positions kept: a block drafter takes
\* the verified span's own taps, the MTP head the anchor and the commits.
SyncRows(keep) ==
    IF stream.drafter = "dflash" THEN SubSeq(round.span, 1, keep)
    ELSE <<gen.idLast>> \o SubSeq(round.committed, 1, keep - 1)

\* The caches are cut back to what was reported, and the loop goes round.  The
\* grammar has advanced with the draws: it is done with a last token that was
\* drawn, reported or not.
Commit ==
    /\ At("commit")
    /\ LET keep == VerifyKeep(Len(round.committed), round.emitted)
           presence == SubSeq(gen.presence, 1, Len(text))
           complete == Last(round.committed) = "last"
           eog == ended.eog \/ complete
       IN  /\ gen' = IF round.span = <<>>
                     THEN [gen EXCEPT !.presence = presence, !.nPast = @ + 1]
                     ELSE [gen EXCEPT !.presence = presence, !.nPast = @ + keep,
                                      !.cache = SubSeq(@, 1, gen.nPast + keep),
                                      !.drafter = @ \o SyncRows(keep),
                                      !.idLast = Last(round.committed)]
           /\ ended' = [ended EXCEPT !.eog = eog]
           /\ pc' = IF eog \/ ended.cancelled \/ Len(text) >= MaxNew THEN "end" ELSE "poll"
    /\ round' = NoRound
    /\ UNCHANGED <<text, emitter, outbox, job>> /\ QuietUnchanged

\* A slip: whatever the reason, the client is taken to be gone.
AnyReasonIsGone == IF ended.cancelled /\ ~emitter.matched THEN "gone" ELSE "none"
\* decode_abandon_reason: how the loop stopped, not how the token stands now.
AbandonReason ==
    IF ~ended.cancelled \/ emitter.matched THEN "none"
    ELSE IF Reason # "live" THEN Reason
    ELSE IF job.dead THEN "gone" ELSE "none"

\* The history becomes what was reported and is cached, and the turn is closed
\* for whoever may still be listening.
FinishTurn ==
    /\ At("end")
    /\ pc' = "finished"
    /\ outbox' = IF AbandonReason = "gone" THEN <<>> ELSE WindDown(AbandonReason # "none")
    /\ emitter' = IF AbandonReason = "gone" THEN emitter ELSE Healed.after
    /\ job' = Looked
    /\ UNCHANGED <<text, gen, round, ended>> /\ QuietUnchanged

---------------------------------------------------------------------------
(* The client, the server, the clock.                                      *)

Read ==
    /\ chan # <<>> /\ ~Closed
    /\ got' = Append(got, Head(chan)) /\ chan' = Tail(chan)
    /\ UNCHANGED <<stream, engine, outbox, sendBy, job, left, now>>

\* hyper drops the response: the receiver and the cancel guard, in either order.
Drop(part) ==
    /\ part \notin left
    /\ left' = left \cup {part}
    /\ job' = IF part = "guard" /\ job.cancel = "live" THEN [job EXCEPT !.cancel = "gone"] ELSE job
    /\ UNCHANGED <<stream, engine, outbox, sendBy, chan, got, now>>

ShutDown ==
    /\ ~job.shutdown
    /\ job' = [job EXCEPT !.shutdown = TRUE]
    /\ UNCHANGED <<stream, engine, outbox, sendBy, chan, got, left, now>>

\* Time passes in a blocked send, a prefill and a forward.
Blocked == outbox # <<>> /\ sendBy # Never /\ Full /\ ~Closed /\ ~ShutdownPending /\ now < sendBy
Tick ==
    /\ \/ Blocked
       \/ now < MaxWork /\ (At("prefill") \/ At("round"))
    /\ now' = now + 1
    /\ UNCHANGED <<stream, engine, outbox, sendBy, chan, got, job, left>>

Init ==
    /\ stream \in [tokens : Streams, drafter : Drafters]
    /\ pc = "dispatch" /\ text = <<>> /\ round = NoRound
    /\ gen = [cache |-> <<>>, drafter |-> <<>>, presence |-> <<>>, drawn |-> 0, nPast |-> 0,
              idLast |-> "off"]
    /\ ended = [eog |-> FALSE, cancelled |-> FALSE]
    /\ emitter = [call |-> "none", span |-> {}, held |-> {}, matched |-> FALSE]
    /\ outbox = <<>> /\ sendBy = Never /\ chan = <<>> /\ got = <<>>
    /\ job = [cancel |-> "live", shutdown |-> FALSE, at |-> Never, dead |-> FALSE]
    /\ left = {} /\ now = 0

Engine ==
    \/ Deliver \/ Stall \/ GiveUp \/ Suppress
    \/ AbandonDispatch \/ AbandonPrefill \/ OpenReply \/ NobodyToOpenFor \/ Prefilled
    \/ FirstToken \/ FirstSaid \/ StopAtPoll \/ GoOn \/ PlainRound
    \/ \E drafts \in Drafts : VerifyRound(drafts)
    \/ Emit \/ Emitted \/ Commit \/ FinishTurn

Next ==
    \/ Engine
    \/ Read \/ (\E part \in {"receiver", "guard"} : Drop(part)) \/ ShutDown
    \/ Tick

Spec == Init /\ [][Next]_vars

\* The engine's thread runs, and time passes; the client owes nobody a read.
FairSpec == Spec /\ WF_vars(Engine) /\ WF_vars(Tick)

---------------------------------------------------------------------------
(* What must hold.                                                         *)

\* What the client has read and will find in the channel, in order.
Stream == got \o chan
Finished == pc = "finished" /\ outbox = <<>>

\* Between rounds, and once the loop has returned, the target's cache is what
\* was reported but for a last token that was never forwarded: never a token
\* the callback did not see, which a next request would take for context.
\* Before a round, that last token is the one the round is anchored on; and
\* the drafter holds the same rows, up to its own context.  (decode_loop_spec's
\* contract; the caller truncates the history to cache_len.)
SafeToResume ==
    (pc \in {"poll", "round", "end"} /\ text # <<>>) =>
        /\ IsPrefix(gen.cache, text)
        /\ Len(gen.cache) >= Len(text) - 1
        /\ gen.nPast = Len(gen.cache)
        /\ gen.drafter = SubSeq(gen.cache, 1, Least({Len(gen.cache), DraftCtx}))
        /\ pc # "end" => gen.cache \o <<gen.idLast>> = text

GrammarDone == text # <<>> /\ Last(text) = "last"

\* The speculative loop reports what plain decoding would: the same tokens in
\* the same order, to the same end, unless it is stopped before.  Plain
\* decoding does not poll behind the token that completes the grammar; this
\* loop does, and may call the reply cancelled then.  What the client is told
\* in that case is left to CompleteIsNeverCut.
Plain == INSTANCE PlainDecode WITH
    stream <- stream.tokens,
    text <- text,
    over <- pc \in {"end", "finished"},
    cut <- pc \in {"end", "finished"} /\ ended.cancelled /\ ~GrammarDone
ImplementsPlain == Plain!Spec

\* What reaches the client is one well-formed reply: it starts once, a call is
\* opened before it is filled and closed before anything follows, no token
\* comes twice, none before the ones that stand before it, and a terminal
\* event comes last, after all there was to say.  Two kinds of text are out
\* of line.  What the stop filter holds of a span that never became a call,
\* when the next marker opens another, comes Late: nothing lets it go before
\* the events of that call, though "a call boundary settles it" (feed_span).
\* And the marker that opened a call behind a match comes out although "the
\* match and everything after it is dropped" (StopFilter::push).
InCall(kind) == kind \in {"call", "arg"}
Late(n) ==
    \E first, next \in DOMAIN text :
        /\ first < n /\ n < next /\ text[first] = "open" /\ text[next] = "open"
        /\ \A m \in first + 1..next - 1 : text[m] = "part"
BehindMatch(n) == emitter.matched /\ n = Len(text) /\ text[n] = "open"
Brought(S) == UNION {S[i].tokens : i \in DOMAIN S}
StreamIsWhole ==
    \A i \in DOMAIN Stream :
        LET it == Stream[i]
            before == Stream[i - 1]
            earlier == SubSeq(Stream, 1, i - 1)
        IN  /\ it.kind = "start" <=> i = 1
            /\ i > 1 => /\ before.kind \notin {"done", "cut"}
                        /\ InCall(before.kind) <=> it.kind \in {"arg", "end"}
            /\ it.tokens \cap Brought(earlier) = {}
            /\ \A n \in it.tokens : BehindMatch(n) \/
                  \A m \in 1..n - 1 : Late(m) \/ m \in it.tokens \cup Brought(earlier)
            /\ it.kind \in {"done", "cut"} => emitter.matched \/ Brought(Stream) = DOMAIN text
            /\ it.kind = "done" => emitter.matched \/ Plain!Complete(stream.tokens, text)

\* Whoever is still there when the job is over has been told how it ended,
\* unless an event could not be delivered to it: hang-up, deadline and
\* shutdown may race the last tokens and each other in any order.
ListenerIsAnswered ==
    Finished /\ left = {} /\ ~job.dead =>
        Stream # <<>> /\ Last(Stream).kind \in {"done", "cut"}

\* From the first look that saw the job abandoned, all that is left to send
\* has one SEND_DEADLINE between it: the inference thread is not parked for a
\* deadline per event.
WindDownBounded == job.at # Never /\ ~Finished => now <= job.at + SendDeadline

\* However the client behaves, the engine gets its thread back.
EngineGetsFree == <>Finished

\* A complete reply is not reported as cut short: "a deadline racing the
\* final token must not relabel a complete reply as truncated" (engine.rs,
\* decode_abandon_reason).
CompleteIsNeverCut ==
    \A i \in DOMAIN Stream : Stream[i].kind = "cut" => ~GrammarDone

=============================================================================
