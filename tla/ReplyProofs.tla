---------------------------- MODULE ReplyProofs ----------------------------
(***************************************************************************)
(* What Reply guarantees for every reply, channel and pair of deadlines: a *)
(* job that is over does not hold the inference thread for more than one   *)
(* SEND_DEADLINE; the client gets one well-formed stream with nothing      *)
(* missing in its middle, and a terminal event if it is still there.       *)
(*                                                                         *)
(* None of these is inductive alone.  The bound needs that the             *)
(* cancellation is first seen where nothing but sends is left to take time *)
(* (so that no send is under way then, with the deadline of a live job),   *)
(* and that every send that blocks after it gives up within the shared     *)
(* budget.  For the stream, what was sent, with what the engine is about   *)
(* to send, stands where the emitter stands (whether a call is open; what  *)
(* the open span and the stop filter keep is the rest of the reply), as    *)
(* long as no send has failed; what was delivered is a beginning of that,  *)
(* and stays as it is once one did.                                        *)
(***************************************************************************)
EXTENDS PlainProofs

Reasons == {"live", "gone", "deadline", "shutdown"}

JobTyped ==
    /\ job \in [cancel : Reasons, shutdown : BOOLEAN, at : Nat \cup {Never}, dead : BOOLEAN]
    /\ ended \in [eog : BOOLEAN, cancelled : BOOLEAN]
    /\ now \in Nat /\ sendBy \in Nat \cup {Never}

\* A deadline is set for a send under way, and only there; the send that fails
\* is the last.
DeadlineIsOfASend == sendBy # Never => outbox # <<>> /\ ~job.dead

\* Once the job is known to be over, nothing is computed any more.
OverIsOver ==
    job.at # Never =>
        /\ pc \in {"commit", "end", "finished"}
        /\ pc # "finished" => outbox = <<>>
        /\ pc = "commit" => ended.cancelled

BudgetIsShared ==
    job.at # Never =>
        /\ now <= job.at + SendDeadline
        /\ sendBy # Never => sendBy <= job.at + SendDeadline

TInv == JobTyped /\ DeadlineIsOfASend /\ OverIsOver /\ BudgetIsShared

---------------------------------------------------------------------------
\* A look settles the reason, starts the budget if there is one, and leaves
\* the rest of the job as it was.
LEMMA LookStamps ==
    ASSUME JobTyped
    PROVE  /\ Reason \in Reasons
           /\ Looked \in [cancel : Reasons, shutdown : BOOLEAN, at : Nat \cup {Never},
                          dead : BOOLEAN]
           /\ Looked.at = IF Reason # "live" /\ job.at = Never THEN now ELSE job.at
  BY DEF JobTyped, Reason, Looked, Reasons

\* A poll that sees a reason stops; one that stops for another cause, or does
\* not stop, leaves the budget alone.
LEMMA PollStamps ==
    ASSUME JobTyped
    PROVE  /\ Polled \in [cancel : Reasons, shutdown : BOOLEAN, at : Nat \cup {Never},
                          dead : BOOLEAN]
           /\ Polled.at \in {job.at, now}
           /\ ~ShouldStop => Polled.at = job.at
  <1>1. CASE emitter.matched \/ job.dead
    BY <1>1 DEF Polled, ShouldStop, JobTyped
  <1>2. CASE ~(emitter.matched \/ job.dead)
    BY <1>2, LookStamps DEF Polled, ShouldStop
  <1> QED
    BY <1>1, <1>2

\* The engine's steps between two sends, which take no time.
LEMMA QuietSteps ==
    ASSUME TInv,
           \/ AbandonDispatch \/ AbandonPrefill \/ OpenReply \/ NobodyToOpenFor \/ Prefilled
           \/ FirstToken \/ FirstSaid \/ StopAtPoll \/ GoOn \/ PlainRound
           \/ (\E drafts \in Drafts : VerifyRound(drafts))
           \/ Emit \/ Emitted \/ Commit \/ FinishTurn
    PROVE  TInv'
  <1> USE ReplyConstantsOK DEF ReplyConstantsOK
  <1>0. /\ outbox = <<>> /\ sendBy = Never /\ sendBy' = Never /\ now' = now
        /\ now <= now + SendDeadline
    <2>1. outbox = <<>> /\ QuietUnchanged
      <3> USE DEF At
      <3>1. CASE AbandonDispatch \/ AbandonPrefill
        BY <3>1 DEF AbandonDispatch, AbandonPrefill, EndBeforeDecode
      <3>2. CASE OpenReply \/ NobodyToOpenFor \/ Prefilled
        BY <3>2 DEF OpenReply, NobodyToOpenFor, Prefilled
      <3>3. CASE FirstToken \/ FirstSaid \/ StopAtPoll \/ GoOn
        BY <3>3 DEF FirstToken, FirstSaid, StopAtPoll, GoOn
      <3>4. CASE PlainRound \/ \E drafts \in Drafts : VerifyRound(drafts)
        BY <3>4 DEF PlainRound, VerifyRound
      <3>5. CASE Emit \/ Emitted \/ Commit \/ FinishTurn
        BY <3>5 DEF Emit, Emitted, Commit, FinishTurn
      <3> QED
        BY <3>1, <3>2, <3>3, <3>4, <3>5
    <2> QED
      BY <2>1 DEF TInv, JobTyped, DeadlineIsOfASend, QuietUnchanged
  <1>1. CASE AbandonDispatch \/ AbandonPrefill
    <2>1. /\ job.at = Never /\ job' = Looked /\ pc' = "finished"
          /\ ended' = [ended EXCEPT !.cancelled = TRUE]
      BY <1>1 DEF TInv, OverIsOver, At, EndBeforeDecode, AbandonDispatch, AbandonPrefill
    <2> QED
      BY <1>0, <2>1, LookStamps
         DEF TInv, JobTyped, DeadlineIsOfASend, OverIsOver, BudgetIsShared
  <1>2. CASE OpenReply \/ NobodyToOpenFor \/ Prefilled
    BY <1>0, <1>2
       DEF TInv, JobTyped, DeadlineIsOfASend, OverIsOver, BudgetIsShared, At,
           OpenReply, NobodyToOpenFor, Prefilled
  <1>3. CASE FirstToken
    BY <1>0, <1>3, PollStamps
       DEF TInv, JobTyped, DeadlineIsOfASend, OverIsOver, BudgetIsShared, At, FirstToken
  <1>4. CASE FirstSaid
    BY <1>0, <1>4, PollStamps
       DEF TInv, JobTyped, DeadlineIsOfASend, OverIsOver, BudgetIsShared, At, FirstSaid
  <1>5. CASE StopAtPoll \/ GoOn
    BY <1>0, <1>5, PollStamps
       DEF TInv, JobTyped, DeadlineIsOfASend, OverIsOver, BudgetIsShared, At, StopAtPoll, GoOn
  <1>6. CASE PlainRound \/ \E drafts \in Drafts : VerifyRound(drafts)
    BY <1>0, <1>6
       DEF TInv, JobTyped, DeadlineIsOfASend, OverIsOver, BudgetIsShared, At, PlainRound,
           VerifyRound
  <1>7. CASE Emit
    BY <1>0, <1>7
       DEF TInv, JobTyped, DeadlineIsOfASend, OverIsOver, BudgetIsShared, At, Emit
  <1>8. CASE Emitted
    BY <1>0, <1>8, PollStamps
       DEF TInv, JobTyped, DeadlineIsOfASend, OverIsOver, BudgetIsShared, At, Emitted
  <1>9. CASE Commit
    BY <1>0, <1>9
       DEF TInv, JobTyped, DeadlineIsOfASend, OverIsOver, BudgetIsShared, At, Commit
  <1>10. CASE FinishTurn
    BY <1>0, <1>10, LookStamps
       DEF TInv, JobTyped, DeadlineIsOfASend, OverIsOver, BudgetIsShared, At, FinishTurn
  <1> QED
    BY <1>1, <1>2, <1>3, <1>4, <1>5, <1>6, <1>7, <1>8, <1>9, <1>10

\* The sends, and everybody else.
LEMMA OtherSteps ==
    ASSUME TInv,
           \/ Deliver \/ Stall \/ GiveUp \/ Suppress \/ Read
           \/ (\E part \in {"receiver", "guard"} : Drop(part)) \/ ShutDown \/ Tick
           \/ UNCHANGED vars
    PROVE  TInv'
  <1> USE ReplyConstantsOK DEF ReplyConstantsOK, TInv, JobTyped, DeadlineIsOfASend, OverIsOver,
          BudgetIsShared, Never
  <1>1. CASE Stall
    BY <1>1 DEF Stall, By, SendBy, engine
  <1>2. CASE Deliver \/ GiveUp \/ Suppress
    BY <1>2 DEF Deliver, GiveUp, Suppress, engine
  <1>3. CASE Read \/ ShutDown
    BY <1>3 DEF Read, ShutDown, engine
  <1>4. ASSUME NEW part, Drop(part)
        PROVE  TInv'
    BY <1>4 DEF Drop, engine, Reasons
  <1>5. CASE Tick
    BY <1>5 DEF Tick, Blocked, At, engine
  <1>6. CASE UNCHANGED vars
    BY <1>6 DEF vars, engine
  <1> QED
    BY <1>1, <1>2, <1>3, <1>4, <1>5, <1>6

LEMMA TInvInductive == Spec => []TInv
  <1>1. Init => TInv
    BY DEF Init, TInv, JobTyped, DeadlineIsOfASend, OverIsOver, BudgetIsShared, Never, Reasons
  <1>2. TInv /\ [Next]_vars => TInv'
    BY QuietSteps, OtherSteps DEF Next, Engine
  <1> QED
    BY <1>1, <1>2, PTL DEF Spec

\* Abandon::send's promise, whatever the deadlines, the channel and the reply.
THEOREM WindDownIsBounded == Spec => []WindDownBounded
  <1>1. TInv => WindDownBounded
    BY DEF TInv, BudgetIsShared, WindDownBounded
  <1> QED
    BY <1>1, TInvInductive, PTL

---------------------------------------------------------------------------
(* The stream of a reply: its shape.                                       *)

Kinds == {"start", "text", "call", "arg", "end", "done", "cut"}
Event == [kind : Kinds, tokens : SUBSET Nat]
Emitters == [call : {"none", "opened", "named"}, span : SUBSET Nat, held : SUBSET Nat,
             matched : BOOLEAN]
Terminal(e) == e.kind \in {"done", "cut"}

\* One event may come behind another.
Follows(a, b) ==
    /\ b.kind # "start" /\ ~Terminal(a)
    /\ InCall(a.kind) <=> b.kind \in {"arg", "end"}

Whole(S) ==
    \A i \in DOMAIN S : IF i = 1 THEN S[i].kind = "start" ELSE Follows(S[i - 1], S[i])

\* A terminal event is the last thing the job does, and tells the truth.
Told(e) ==
    Terminal(e) =>
        /\ pc = "finished"
        /\ e.kind = "done" => emitter.matched \/ Plain!Complete(Tokens, text)

Sound(S) == Whole(S) /\ \A i \in DOMAIN S : Told(S[i])

\* What was sent and what is about to be.
Sent == Stream \o outbox

Typed ==
    /\ got \in Seq(Event) /\ chan \in Seq(Event) /\ outbox \in Seq(Event)
    /\ emitter \in Emitters

Idle == emitter.call = "none" /\ emitter.span = {} /\ emitter.held = {} /\ ~emitter.matched
EmitterFits ==
    /\ pc \in {"round", "emit"} => ~emitter.matched
    /\ pc \in {"dispatch", "prefill"} => Idle

\* Whoever was cancelled has a reason that stays.
CancelledFor ==
    /\ pc \in {"commit", "end"} /\ ended.cancelled =>
            emitter.matched \/ job.dead \/ job.cancel # "live"
    /\ job.cancel = "gone" => left # {}

\* Where the stream stands while nothing has failed.
Position ==
    /\ pc = "dispatch" => Sent = <<>>
    /\ pc \notin {"dispatch", "finished"} =>
        /\ Sent # <<>> /\ ~Terminal(Sent[Len(Sent)])
        /\ InCall(Sent[Len(Sent)].kind) <=> emitter.call = "named"
    /\ pc = "finished" => left # {} \/ (Sent # <<>> /\ Terminal(Sent[Len(Sent)]))

SInv ==
    /\ Typed /\ EmitterFits /\ CancelledFor
    /\ Sound(Stream)
    /\ ~job.dead => Sound(Sent) /\ Position

---------------------------------------------------------------------------
(* Sequences of events.                                                    *)

LEMMA WholeConcat ==
    ASSUME NEW S \in Seq(Event), NEW E \in Seq(Event), Whole(S), S # <<>>,
           E # <<>> => Follows(S[Len(S)], E[1]),
           \A i \in 2..Len(E) : Follows(E[i - 1], E[i])
    PROVE  Whole(S \o E)
  <1>1. Len(S) \in Nat /\ Len(E) \in Nat /\ Len(S) > 0
    BY EmptySeq
  <1>2. ASSUME NEW i \in DOMAIN (S \o E)
        PROVE  IF i = 1 THEN (S \o E)[i].kind = "start" ELSE Follows((S \o E)[i - 1], (S \o E)[i])
    <2>1. i \in 1..Len(S) + Len(E)
      BY <1>1
    <2>2. CASE i <= Len(S)
      <3>1. (S \o E)[i] = S[i] /\ i \in DOMAIN S
        BY <1>1, <2>1, <2>2
      <3>2. i # 1 => (S \o E)[i - 1] = S[i - 1]
        BY <1>1, <2>1, <2>2
      <3> QED
        BY <3>1, <3>2 DEF Whole
    <2>3. CASE i = Len(S) + 1
      <3>1. (S \o E)[i] = E[1] /\ (S \o E)[i - 1] = S[Len(S)] /\ i # 1 /\ E # <<>>
        BY <1>1, <2>1, <2>3
      <3> QED
        BY <3>1
    <2>4. CASE i > Len(S) + 1
      <3>1. /\ (S \o E)[i] = E[i - Len(S)] /\ (S \o E)[i - 1] = E[i - Len(S) - 1]
            /\ i # 1 /\ i - Len(S) \in 2..Len(E)
        BY <1>1, <2>1, <2>4
      <3> QED
        BY <3>1
    <2> QED
      BY <1>1, <2>1, <2>2, <2>3, <2>4
  <1> QED
    BY <1>2 DEF Whole

LEMMA WholePrefix ==
    ASSUME NEW S \in Seq(Event), NEW E \in Seq(Event), Whole(S \o E)
    PROVE  Whole(S)
  <1>1. Len(S) \in Nat /\ Len(E) \in Nat
    OBVIOUS
  <1>2. ASSUME NEW i \in DOMAIN S
        PROVE  IF i = 1 THEN S[i].kind = "start" ELSE Follows(S[i - 1], S[i])
    <2>1. i \in DOMAIN (S \o E) /\ (S \o E)[i] = S[i] /\ (i # 1 => (S \o E)[i - 1] = S[i - 1])
      BY <1>1
    <2> QED
      BY <2>1 DEF Whole
  <1> QED
    BY <1>2 DEF Whole

---------------------------------------------------------------------------
(* What the emitter says.                                                  *)

\* The events may follow what was sent while the emitter stood so...
GoesOnFrom(E, from) ==
    /\ E \in Seq(Event)
    /\ E # <<>> => /\ E[1].kind # "start"
                   /\ from.call = "named" <=> E[1].kind \in {"arg", "end"}
    /\ \A i \in 2..Len(E) : Follows(E[i - 1], E[i])

\* ... and leave it so.
LeadsTo(E, from, after) ==
    IF E = <<>> THEN after.call = "named" <=> from.call = "named"
    ELSE ~Terminal(E[Len(E)]) /\ (InCall(E[Len(E)].kind) <=> after.call = "named")

LEMMA SaysOne ==
    ASSUME NEW kind \in Kinds \ {"start"}, NEW tokens \in SUBSET Nat, NEW from,
           from.call = "named" <=> kind \in {"arg", "end"}
    PROVE  /\ GoesOnFrom(Says(kind, tokens), from)
           /\ Says(kind, tokens) # <<>> /\ Len(Says(kind, tokens)) = 1
           /\ Says(kind, tokens)[1].kind = kind /\ Says(kind, tokens)[1].tokens = tokens
           /\ \A after : kind \notin {"done", "cut"} /\ (InCall(kind) <=> after.call = "named")
                 => LeadsTo(Says(kind, tokens), from, after)
  <1> DEFINE e == [kind |-> kind, tokens |-> tokens]
  <1>1. e \in Event /\ e.kind = kind /\ e.tokens = tokens
    BY DEF Event
  <1> HIDE DEF e
  <1>2. /\ <<e>> \in Seq(Event) /\ <<e>> # <<>> /\ Len(<<e>>) = 1 /\ <<e>>[1] = e
    BY <1>1
  <1>3. GoesOnFrom(<<e>>, from)
    BY <1>1, <1>2 DEF GoesOnFrom
  <1>4. ASSUME NEW after, kind \notin {"done", "cut"}, InCall(kind) <=> after.call = "named"
        PROVE  LeadsTo(<<e>>, from, after)
    BY <1>1, <1>2, <1>4 DEF LeadsTo, Terminal
  <1>5. Says(kind, tokens) = <<e>>
    BY DEF Says, e
  <1> QED
    BY <1>1, <1>2, <1>3, <1>4, <1>5

LEMMA SaysNothing ==
    ASSUME NEW from
    PROVE  /\ GoesOnFrom(<<>>, from)
           /\ \A after : (after.call = "named" <=> from.call = "named") => LeadsTo(<<>>, from, after)
  BY DEF GoesOnFrom, LeadsTo

\* Text, if there is any, outside a call that was named.
LEMMA SaysText ==
    ASSUME NEW tokens \in SUBSET Nat, NEW from, from.call # "named"
    PROVE  /\ GoesOnFrom(Text(tokens), from)
           /\ \A after : after.call # "named" => LeadsTo(Text(tokens), from, after)
  <1>1. CASE tokens = {}
    BY <1>1, SaysNothing DEF Text
  <1>2. CASE tokens # {}
    <2>1. Text(tokens) = Says("text", tokens)
      BY <1>2 DEF Text
    <2>2. "text" \in Kinds \ {"start"} /\ ~InCall("text")
      BY DEF Kinds, InCall
    <2> QED
      BY <2>1, <2>2, SaysOne
  <1> QED
    BY <1>1, <1>2

\* Events that go on from where others led.
LEMMA Chained ==
    ASSUME NEW E, NEW F, NEW from, NEW mid, GoesOnFrom(E, from), LeadsTo(E, from, mid),
           GoesOnFrom(F, mid)
    PROVE  /\ GoesOnFrom(E \o F, from)
           /\ F # <<>> => E \o F # <<>> /\ (E \o F)[Len(E \o F)] = F[Len(F)]
           /\ \A after : LeadsTo(F, mid, after) => LeadsTo(E \o F, from, after)
  <1>1. E \in Seq(Event) /\ F \in Seq(Event) /\ Len(E) \in Nat /\ Len(F) \in Nat
    BY DEF GoesOnFrom
  <1>2. CASE E = <<>>
    <2>1. E \o F = F
      BY <1>1, <1>2, ConcatEmptySeq
    <2> QED
      BY <1>2, <2>1 DEF GoesOnFrom, LeadsTo
  <1>3. CASE F = <<>>
    <2>1. E \o F = E
      BY <1>1, <1>3, ConcatEmptySeq
    <2> QED
      BY <1>3, <2>1 DEF GoesOnFrom, LeadsTo
  <1>4. CASE E # <<>> /\ F # <<>>
    <2> DEFINE k == Len(E)
    <2>1. k > 0 /\ Len(F) > 0
      BY <1>1, <1>4, EmptySeq
    <2>2. /\ E \o F \in Seq(Event) /\ Len(E \o F) = k + Len(F)
          /\ \A i \in 1..k : (E \o F)[i] = E[i]
          /\ \A i \in 1..Len(F) : (E \o F)[k + i] = F[i]
      BY <1>1
    <2> HIDE DEF k
    <2>3. E \o F # <<>> /\ (E \o F)[1] = E[1] /\ (E \o F)[k] = E[k]
          /\ (E \o F)[k + 1] = F[1] /\ (E \o F)[k + Len(F)] = F[Len(F)]
      BY <1>1, <2>1, <2>2 DEF k
    <2>4. ASSUME NEW i \in 2..Len(E \o F)
          PROVE  Follows((E \o F)[i - 1], (E \o F)[i])
      <3>0. k \in Nat /\ i \in Int /\ i <= k + Len(F) /\ i >= 2
        BY <1>1, <2>2 DEF k
      <3>1. CASE i <= k
        <4>1. i \in 2..k /\ i \in 1..k /\ i - 1 \in 1..k
          BY <3>0, <3>1
        <4>2. Follows(E[i - 1], E[i])
          BY <4>1 DEF GoesOnFrom, k
        <4> QED
          BY <2>2, <4>1, <4>2
      <3>2. CASE i = k + 1
        <4>1. i - 1 = k
          BY <3>0, <3>2
        <4>2. Follows(E[k], F[1])
          BY <1>4 DEF GoesOnFrom, LeadsTo, Follows, k
        <4> QED
          BY <2>3, <3>2, <4>1, <4>2
      <3>3. CASE i > k + 1
        <4> DEFINE j == i - k
        <4>1. j \in 2..Len(F) /\ j \in 1..Len(F) /\ j - 1 \in 1..Len(F)
              /\ i = k + j /\ i - 1 = k + (j - 1)
          BY <1>1, <3>0, <3>3
        <4>2. Follows(F[j - 1], F[j])
          BY <4>1 DEF GoesOnFrom
        <4> QED
          BY <2>2, <4>1, <4>2
      <3> QED
        BY <3>0, <3>1, <3>2, <3>3
    <2>5. GoesOnFrom(E \o F, from)
      BY <1>4, <2>2, <2>3, <2>4 DEF GoesOnFrom
    <2> QED
      BY <1>4, <2>2, <2>3, <2>5 DEF LeadsTo
  <1> QED
    BY <1>2, <1>3, <1>4

LEMMA PushTyped ==
    ASSUME Typed, NEW reply, NEW tokens \in SUBSET Nat
    PROVE  /\ Push(reply, tokens).ready \in SUBSET Nat /\ Push(reply, tokens).held \in SUBSET Nat
           /\ Push(reply, tokens).matched \in BOOLEAN
  BY DEF Push, Growing, Typed, Emitters

LEMMA ClosesSpan ==
    ASSUME Typed, emitter.call # "none", NEW reply, NEW marker \in SUBSET Nat,
           NEW call \in {"none", "opened"}, NEW span \in SUBSET Nat
    PROVE  LET closed == CloseSpan(reply, marker, call, span)
           IN  /\ closed.after \in Emitters /\ closed.after.call = call
               /\ closed.after.span = span
               /\ GoesOnFrom(closed.events, emitter)
               /\ LeadsTo(closed.events, emitter, closed.after)
  <1> DEFINE closed == CloseSpan(reply, marker, call, span)
  <1>1. emitter \in Emitters /\ emitter.call \in {"opened", "named"} /\ emitter.span \in SUBSET Nat
    BY DEF Typed, Emitters
  <1>2. CASE emitter.call = "opened"
    <2> DEFINE tokens == emitter.span \cup marker
               pushed == Push(reply, tokens)
    <2>1. tokens \in SUBSET Nat
      BY <1>1
    <2> HIDE DEF tokens
    <2>2. /\ pushed.ready \in SUBSET Nat /\ pushed.held \in SUBSET Nat /\ pushed.matched \in BOOLEAN
      BY <2>1, PushTyped
    <2>3. /\ closed.events = Text(pushed.ready)
          /\ closed.after = [call |-> call, span |-> span, held |-> pushed.held,
                             matched |-> pushed.matched]
      BY <1>2 DEF CloseSpan, PushAnswer, tokens
    <2> HIDE DEF pushed, closed
    <2>4. closed.after \in Emitters /\ closed.after.call = call /\ closed.after.span = span
      BY <2>2, <2>3 DEF Emitters
    <2> QED
      BY <1>2, <2>2, <2>3, <2>4, SaysText DEF closed
  <1>3. CASE emitter.call = "named"
    <2>1. /\ closed.events = Says("end", marker)
          /\ closed.after = [emitter EXCEPT !.call = call, !.span = span]
      BY <1>3 DEF CloseSpan
    <2>2. closed.after \in Emitters /\ closed.after.call = call /\ closed.after.span = span
      BY <1>1, <2>1 DEF Emitters
    <2>3. "end" \in Kinds \ {"start"} /\ "end" \notin {"done", "cut"} /\ ~InCall("end")
      BY DEF Kinds, InCall
    <2> HIDE DEF closed
    <2>4. closed.after.call # "named"
      BY <2>2
    <2>5. GoesOnFrom(Says("end", marker), emitter)
      BY <1>3, <2>3, SaysOne
    <2>6. LeadsTo(Says("end", marker), emitter, closed.after)
      BY <1>3, <2>3, <2>4, SaysOne
    <2>7. GoesOnFrom(closed.events, emitter) /\ LeadsTo(closed.events, emitter, closed.after)
      BY <2>1, <2>5, <2>6
    <2> QED
      BY <2>2, <2>7 DEF closed
  <1> QED
    BY <1>1, <1>2, <1>3

\* accept: whatever the token is, its events go on from where the emitter
\* stood to where it stands then.
LEMMA Accepting ==
    ASSUME Typed, text \in Seq(Word), NEW token
    PROVE  /\ Accept(token).after \in Emitters
           /\ GoesOnFrom(Accept(token).events, emitter)
           /\ LeadsTo(Accept(token).events, emitter, Accept(token).after)
  <1> DEFINE n == Len(text) + 1
             reply == Append(text, token)
             Stays(call, span) == [emitter EXCEPT !.call = call, !.span = span]
  <1>0. /\ n \in Nat /\ {n} \in SUBSET Nat /\ {} \in SUBSET Nat /\ emitter \in Emitters
        /\ emitter.span \cup {n} \in SUBSET Nat /\ emitter.held \in SUBSET Nat
        /\ emitter.call \in {"none", "opened", "named"}
    BY DEF Typed, Emitters
  <1>1. \A call \in {"none", "opened", "named"}, span \in SUBSET Nat :
           Stays(call, span) \in Emitters /\ Stays(call, span).call = call
    BY <1>0 DEF Emitters
  <1>2. CASE token = "open" /\ emitter.call = "none"
    <2>1. /\ Accept(token).events = Text(emitter.held)
          /\ Accept(token).after = [Stays("opened", {n}) EXCEPT !.held = {}]
      BY <1>2 DEF Accept
    <2>2. Accept(token).after \in Emitters /\ Accept(token).after.call = "opened"
      BY <1>0, <2>1 DEF Emitters
    <2> HIDE DEF Stays
    <2> QED
      BY <1>0, <1>2, <2>1, <2>2, SaysText
  <1>3. CASE token = "open" /\ emitter.call # "none"
    <2>1. Accept(token) = CloseSpan(reply, {}, "opened", {n})
      BY <1>3 DEF Accept
    <2>2. \A call \in {"none", "opened"} : \A marker \in SUBSET Nat : \A span \in SUBSET Nat :
             LET closed == CloseSpan(reply, marker, call, span)
             IN  /\ closed.after \in Emitters
                 /\ GoesOnFrom(closed.events, emitter)
                 /\ LeadsTo(closed.events, emitter, closed.after)
      BY <1>3, ClosesSpan
    <2> HIDE DEF reply, n
    <2> QED
      BY <1>0, <2>1, <2>2
  <1>4. CASE token = "shut" /\ emitter.call # "none"
    <2>1. Accept(token) = CloseSpan(reply, {n}, "none", {})
      BY <1>4 DEF Accept
    <2>2. \A call \in {"none", "opened"} : \A marker \in SUBSET Nat : \A span \in SUBSET Nat :
             LET closed == CloseSpan(reply, marker, call, span)
             IN  /\ closed.after \in Emitters
                 /\ GoesOnFrom(closed.events, emitter)
                 /\ LeadsTo(closed.events, emitter, closed.after)
      BY <1>4, ClosesSpan
    <2> HIDE DEF reply, n
    <2> QED
      BY <1>0, <2>1, <2>2
  <1>5. CASE token \in {"part", "stop"} /\ emitter.call = "opened"
    <2>1. Accept(token).events = <<>> /\ Accept(token).after = Stays("opened", emitter.span \cup {n})
      BY <1>5 DEF Accept
    <2> HIDE DEF Stays, n
    <2> QED
      BY <1>0, <1>1, <1>5, <2>1, SaysNothing
  <1>6. CASE token \notin {"open", "shut", "part", "stop"} /\ emitter.call = "opened"
    <2>1. /\ Accept(token).events = Says("call", emitter.span \cup {n})
          /\ Accept(token).after = Stays("named", {})
      BY <1>6 DEF Accept
    <2>2. "call" \in Kinds \ {"start"} /\ "call" \notin {"done", "cut", "arg", "end"} /\ InCall("call")
      BY DEF Kinds, InCall
    <2> HIDE DEF Stays, n
    <2> QED
      BY <1>0, <1>1, <1>6, <2>1, <2>2, SaysOne
  <1>7. CASE token \notin {"open", "shut"} /\ emitter.call = "named"
    <2>1. Accept(token).events = Says("arg", {n}) /\ Accept(token).after = emitter
      BY <1>7 DEF Accept
    <2>2. "arg" \in Kinds \ {"start"} /\ "arg" \notin {"done", "cut"} /\ InCall("arg")
      BY DEF Kinds, InCall
    <2> HIDE DEF n
    <2> QED
      BY <1>0, <1>7, <2>1, <2>2, SaysOne
  <1>8. CASE token # "open" /\ emitter.call = "none"
    <2> DEFINE pushed == Push(reply, {n})
    <2>1. Accept(token) = PushAnswer(reply, {n}, "none", {})
      BY <1>8 DEF Accept
    <2>2. /\ pushed.ready \in SUBSET Nat /\ pushed.held \in SUBSET Nat /\ pushed.matched \in BOOLEAN
      BY <1>0, PushTyped
    <2>3. /\ Accept(token).events = Text(pushed.ready)
          /\ Accept(token).after = [call |-> "none", span |-> {}, held |-> pushed.held,
                                    matched |-> pushed.matched]
      BY <2>1 DEF PushAnswer
    <2> HIDE DEF pushed
    <2>4. Accept(token).after \in Emitters /\ Accept(token).after.call = "none"
      BY <2>2, <2>3 DEF Emitters
    <2> QED
      BY <1>8, <2>2, <2>3, <2>4, SaysText
  <1> QED
    BY <1>0, <1>2, <1>3, <1>4, <1>5, <1>6, <1>7, <1>8

\* heal_open_call.
LEMMA Heals ==
    ASSUME Typed
    PROVE  /\ Healed.after \in Emitters /\ Healed.after.call = "none"
           /\ emitter.matched => Healed.after.matched
           /\ GoesOnFrom(Healed.events, emitter)
           /\ LeadsTo(Healed.events, emitter, Healed.after)
  <1>1. CASE emitter.call = "none"
    <2>1. Healed.events = <<>> /\ Healed.after = emitter
      BY <1>1 DEF Healed
    <2> QED
      BY <1>1, <2>1, SaysNothing DEF Typed
  <1>2. CASE emitter.call # "none"
    <2>1. Healed = CloseSpan(text, {}, "none", {})
      BY <1>2 DEF Healed
    <2>2. emitter.matched => Healed.after.matched
      BY <2>1 DEF CloseSpan, PushAnswer, Push, Typed, Emitters
    <2> QED
      BY <1>2, <2>1, <2>2, ClosesSpan
  <1> QED
    BY <1>1, <1>2

\* A closed turn: what was held back, and the terminal event at the end of it.
LEMMA WindsDown ==
    ASSUME Typed, NEW isCut \in BOOLEAN
    PROVE  LET E == WindDown(isCut)
           IN  /\ GoesOnFrom(E, emitter) /\ E # <<>> /\ Terminal(E[Len(E)])
               /\ E[Len(E)].kind = "done" => ~isCut
  <1> DEFINE after == Healed.after
             tail == IF after.matched THEN {} ELSE after.held
             kind == IF isCut THEN "cut" ELSE "done"
             head == Healed.events \o Text(tail)
  <1>1. WindDown(isCut) = head \o Done(isCut)
    BY DEF WindDown
  <1>2. /\ GoesOnFrom(Healed.events, emitter) /\ LeadsTo(Healed.events, emitter, after)
        /\ after \in Emitters /\ after.call = "none"
    BY Heals
  <1>3. tail \in SUBSET Nat
    BY <1>2 DEF Emitters
  <1>4. Done(isCut) = Says(kind, {}) /\ kind \in Kinds \ {"start"} /\ kind \notin {"arg", "end"}
    BY DEF Done, Kinds
  <1> HIDE DEF after, tail, kind
  <1>5. GoesOnFrom(Text(tail), after) /\ LeadsTo(Text(tail), after, after)
    BY <1>2, <1>3, SaysText
  <1>6. GoesOnFrom(head, emitter) /\ LeadsTo(head, emitter, after)
    BY <1>2, <1>5, Chained
  <1>7. /\ GoesOnFrom(Done(isCut), after) /\ Done(isCut) # <<>>
        /\ Done(isCut)[Len(Done(isCut))].kind = kind
    BY <1>2, <1>4, SaysOne
  <1> HIDE DEF head
  <1>8. /\ GoesOnFrom(head \o Done(isCut), emitter) /\ head \o Done(isCut) # <<>>
        /\ (head \o Done(isCut))[Len(head \o Done(isCut))].kind = kind
    BY <1>6, <1>7, Chained
  <1> QED
    BY <1>1, <1>8 DEF Terminal, kind

---------------------------------------------------------------------------
(* What a step of the engine's thread adds.                                *)

LEMMA SentFacts ==
    ASSUME Typed
    PROVE  /\ Stream \in Seq(Event) /\ Sent \in Seq(Event)
           /\ outbox = <<>> => Sent = Stream
  <1> USE DEF Event
  <1>1. got \in Seq(Event) /\ chan \in Seq(Event) /\ outbox \in Seq(Event)
    BY DEF Typed
  <1> HIDE DEF Event
  <1>2. Stream \in Seq(Event)
    BY <1>1, ConcatProperties DEF Stream
  <1> QED
    BY <1>1, <1>2, ConcatProperties, ConcatEmptySeq DEF Sent

\* What was delivered stays as sound as it was: a terminal event in it is the
\* last thing of a job that is over.
LEMMA DeliveredStaysSound ==
    ASSUME Sound(Stream), Stream' = Stream, stream' = stream,
           pc # "finished" \/ UNCHANGED <<pc, text, emitter>>
    PROVE  Sound(Stream)'
  BY DEF Sound, Whole, Told, Tokens, Follows, Terminal, Plain!Complete, Plain!Ended

\* While the reply goes on: the events of one step go behind what was sent.
LEMMA Speaks ==
    ASSUME Typed, Typed', Sound(Stream), ~job.dead => Sound(Sent) /\ Position,
           outbox = <<>>, UNCHANGED <<got, chan, stream>>, job'.dead = job.dead,
           pc \notin {"dispatch", "finished"}, pc' \notin {"dispatch", "finished"},
           GoesOnFrom(outbox', emitter), LeadsTo(outbox', emitter, emitter')
    PROVE  /\ Sound(Stream)'
           /\ ~job'.dead => Sound(Sent)' /\ Position'
  <1> DEFINE E == outbox'
  <1>1. Stream' = Stream /\ Sent = Stream /\ Stream \in Seq(Event) /\ E \in Seq(Event)
        /\ Sent' = Stream \o E
    BY SentFacts DEF Sent, Stream, Typed
  <1>2. Sound(Stream)'
    BY <1>1, DeliveredStaysSound
  <1>3. ASSUME ~job.dead
        PROVE  Sound(Sent)' /\ Position'
    <2> DEFINE n == Len(Stream)
    <2>1. /\ Stream # <<>> /\ ~Terminal(Stream[n])
          /\ InCall(Stream[n].kind) <=> emitter.call = "named"
          /\ Whole(Stream) /\ \A i \in DOMAIN Stream : Told(Stream[i])
      BY <1>1, <1>3 DEF Position, Sound
    <2>2. E # <<>> => Follows(Stream[n], E[1])
      BY <2>1 DEF GoesOnFrom, Follows
    <2>3. Whole(Stream \o E)
      BY <1>1, <2>1, <2>2, WholeConcat DEF GoesOnFrom
    <2>4. \A i \in DOMAIN Stream : ~Terminal(Stream[i])
      BY <2>1 DEF Told
    <2>5. Len(E) \in Nat /\ n \in Nat /\ n > 0
      BY <1>1, <2>1, EmptySeq
    <2>6. ASSUME NEW i \in 1..Len(E)
          PROVE  ~Terminal(E[i])
      <3>1. CASE i = Len(E)
        BY <2>5, <3>1 DEF LeadsTo
      <3>2. CASE i < Len(E)
        <4>1. i + 1 \in 2..Len(E) /\ (i + 1) - 1 = i
          BY <2>5, <3>2
        <4> QED
          BY <4>1 DEF GoesOnFrom, Follows
      <3> QED
        BY <2>5, <3>1, <3>2
    <2>7. ASSUME NEW i \in DOMAIN (Stream \o E)
          PROVE  ~Terminal((Stream \o E)[i])
      <3>1. i \in 1..n + Len(E)
        BY <1>1
      <3>2. CASE i <= n
        BY <1>1, <2>4, <3>1, <3>2
      <3>3. CASE i > n
        <4>1. (Stream \o E)[i] = E[i - n] /\ i - n \in 1..Len(E)
          BY <1>1, <2>5, <3>1, <3>3
        <4> QED
          BY <2>6, <4>1
      <3> QED
        BY <2>5, <3>1, <3>2, <3>3
    <2>8. Sound(Sent)'
      BY <1>1, <2>3, <2>7 DEF Sound, Whole, Told, Follows, Terminal
    <2>9. LET S == Stream \o E
          IN  /\ S # <<>> /\ ~Terminal(S[Len(S)])
              /\ InCall(S[Len(S)].kind) <=> emitter'.call = "named"
      <3>1. CASE E = <<>>
        <4>1. Stream \o E = Stream
          BY <1>1, <3>1
        <4> QED
          BY <2>1, <3>1, <4>1 DEF LeadsTo
      <3>2. CASE E # <<>>
        <4>1. /\ Len(Stream \o E) = n + Len(E) /\ Len(E) > 0
              /\ (Stream \o E)[n + Len(E)] = E[Len(E)] /\ Stream \o E # <<>>
          BY <1>1, <2>5, <3>2, EmptySeq
        <4> QED
          BY <3>2, <4>1 DEF LeadsTo
      <3> QED
        BY <3>1, <3>2
    <2>10. Position'
      BY <1>1, <2>9 DEF Position, Terminal, InCall
    <2> QED
      BY <2>8, <2>10
  <1> QED
    BY <1>2, <1>3

\* The last events of a job: they go behind what was sent, end with a terminal
\* one, and tell how the reply stands.
LEMMA Closes ==
    ASSUME Typed, outbox' \in Seq(Event), Sound(Stream), ~job.dead => Sound(Sent) /\ Position,
           outbox = <<>>, UNCHANGED <<got, chan, stream, text>>, job'.dead = job.dead,
           pc \notin {"dispatch", "finished"}, pc' = "finished",
           GoesOnFrom(outbox', emitter), outbox' # <<>>, Terminal(outbox'[Len(outbox')]),
           outbox'[Len(outbox')].kind = "done" =>
              emitter'.matched \/ Plain!Complete(Tokens, text)
    PROVE  /\ Sound(Stream)'
           /\ ~job'.dead => Sound(Sent)' /\ Position'
  <1> DEFINE E == outbox'
  <1>1. Stream' = Stream /\ Sent = Stream /\ Stream \in Seq(Event) /\ E \in Seq(Event)
        /\ Sent' = Stream \o E
    BY SentFacts DEF Sent, Stream, Typed
  <1>2. Sound(Stream)'
    BY <1>1, DeliveredStaysSound
  <1>3. ASSUME ~job.dead
        PROVE  Sound(Sent)' /\ Position'
    <2> DEFINE n == Len(Stream)
    <2>1. /\ Stream # <<>> /\ ~Terminal(Stream[n])
          /\ InCall(Stream[n].kind) <=> emitter.call = "named"
          /\ Whole(Stream) /\ \A i \in DOMAIN Stream : Told(Stream[i])
      BY <1>1, <1>3 DEF Position, Sound
    <2>2. Follows(Stream[n], E[1])
      BY <2>1 DEF GoesOnFrom, Follows
    <2>3. Whole(Stream \o E)
      BY <1>1, <2>1, <2>2, WholeConcat DEF GoesOnFrom
    <2>4. \A i \in DOMAIN Stream : ~Terminal(Stream[i])
      BY <2>1 DEF Told
    <2>5. Len(E) \in Nat /\ n \in Nat /\ n > 0 /\ Len(E) > 0
      BY <1>1, <2>1, EmptySeq
    <2>6. ASSUME NEW i \in DOMAIN (Stream \o E), Terminal((Stream \o E)[i])
          PROVE  (Stream \o E)[i].kind = "done" => emitter'.matched \/ Plain!Complete(Tokens, text)
      <3>1. i \in 1..n + Len(E)
        BY <1>1
      <3>2. i > n
        BY <1>1, <2>4, <2>6, <3>1
      <3>3. (Stream \o E)[i] = E[i - n] /\ i - n \in 1..Len(E)
        BY <1>1, <2>5, <3>1, <3>2
      <3>4. i - n = Len(E)
        <4>1. SUFFICES ASSUME i - n < Len(E) PROVE FALSE
          BY <2>5, <3>3
        <4>2. i - n + 1 \in 2..Len(E) /\ (i - n + 1) - 1 = i - n
          BY <2>5, <3>3, <4>1
        <4>3. Follows(E[i - n], E[i - n + 1])
          BY <4>2 DEF GoesOnFrom
        <4> QED
          BY <2>6, <3>3, <4>3 DEF Follows
      <3> QED
        BY <3>3, <3>4
    <2>7. Sound(Sent)'
      BY <1>1, <2>3, <2>6 DEF Sound, Whole, Told, Follows, Terminal, Tokens, Plain!Complete, Plain!Ended
    <2>8. LET S == Stream \o E IN S # <<>> /\ Terminal(S[Len(S)])
      <3>1. /\ Len(Stream \o E) = n + Len(E) /\ (Stream \o E)[n + Len(E)] = E[Len(E)]
            /\ Stream \o E # <<>>
        BY <1>1, <2>5
      <3> QED
        BY <3>1
    <2>9. Position'
      BY <1>1, <2>8 DEF Position, Terminal
    <2> QED
      BY <2>7, <2>9
  <1> QED
    BY <1>2, <1>3

---------------------------------------------------------------------------
(* The steps.                                                              *)

LEMMA SInvInit == Init => SInv
  <1> SUFFICES ASSUME Init PROVE SInv
    OBVIOUS
  <1>1. Typed /\ EmitterFits /\ CancelledFor
    BY DEF Init, Typed, Emitters, Idle, EmitterFits, CancelledFor
  <1>2. Stream = <<>> /\ Sent = <<>>
    BY DEF Init, Stream, Sent
  <1> QED
    BY <1>1, <1>2 DEF Init, SInv, Sound, Whole, Position

\* The sends, and everybody else: what was sent stays, or the job is dead.
LEMMA ChannelFacts ==
    ASSUME SInv, JobTyped,
           \/ Deliver \/ Stall \/ GiveUp \/ Suppress \/ Read
           \/ (\E part \in {"receiver", "guard"} : Drop(part)) \/ ShutDown \/ Tick
           \/ UNCHANGED vars
    PROVE  /\ UNCHANGED <<stream, pc, text, ended, emitter>>
           /\ job.dead => job'.dead
           /\ EmitterFits' /\ CancelledFor' /\ Typed' /\ left \subseteq left'
           /\ Stream' = Stream \/ Deliver
           /\ Sent' = Sent \/ job'.dead
  <1>1. UNCHANGED <<stream, pc, text, ended, emitter>>
    BY DEF Deliver, Stall, GiveUp, Suppress, Read, Drop, ShutDown, Tick, vars, engine
  <1>2. /\ Stream \in Seq(Event) /\ Sent \in Seq(Event)
        /\ got \in Seq(Event) /\ chan \in Seq(Event) /\ outbox \in Seq(Event)
    BY SentFacts DEF SInv, Typed
  <1>3. /\ job' \in [cancel : Reasons, shutdown : BOOLEAN, at : Nat \cup {Never},
                     dead : BOOLEAN]
        /\ job.dead => job'.dead
        /\ job.cancel # "live" => job'.cancel # "live"
        /\ left \subseteq left' /\ (job'.cancel = "gone" => left' # {})
    <2> USE DEF SInv, CancelledFor, JobTyped, Reasons
    <2>1. CASE UNCHANGED <<job, left>>
      BY <2>1
    <2>2. CASE GiveUp \/ ShutDown
      BY <2>2 DEF GiveUp, ShutDown
    <2>3. ASSUME NEW part, Drop(part)
          PROVE  /\ job' \in [cancel : Reasons, shutdown : BOOLEAN, at : Nat \cup {Never},
                              dead : BOOLEAN]
                 /\ job.dead => job'.dead
                 /\ job.cancel # "live" => job'.cancel # "live"
                 /\ left \subseteq left' /\ (job'.cancel = "gone" => left' # {})
      BY <2>3 DEF Drop
    <2> QED
      BY <2>1, <2>2, <2>3 DEF Deliver, Stall, Suppress, Read, Tick, vars
  <1>4. EmitterFits' /\ CancelledFor'
    BY <1>1, <1>3 DEF SInv, EmitterFits, Idle, CancelledFor
  <1>5. Typed' /\ (Stream' = Stream \/ Deliver) /\ (Sent' = Sent \/ job'.dead)
    <2>1. CASE UNCHANGED <<got, chan, outbox>>
      BY <1>1, <2>1 DEF SInv, Typed, Stream, Sent
    <2>2. CASE Deliver
      <3>1. /\ outbox # <<>> /\ got' = got /\ chan' = Append(chan, Head(outbox))
            /\ outbox' = Tail(outbox)
        BY <2>2 DEF Deliver
      <3>2. Typed'
        BY <1>1, <1>2, <3>1 DEF SInv, Typed
      <3>3. Sent' = Sent
        <4>1. Sent' = (got \o Append(chan, Head(outbox))) \o Tail(outbox)
          BY <3>1 DEF Sent, Stream
        <4>2. Sent' \in Seq(Event) /\ Len(Sent') = Len(Sent)
          BY <1>2, <3>1, <4>1 DEF Sent, Stream
        <4>3. \A i \in 1..Len(Sent) : Sent'[i] = Sent[i]
          BY <1>2, <3>1, <4>1 DEF Sent, Stream
        <4> QED
          BY <1>2, <4>2, <4>3, SeqEqual
      <3> QED
        BY <2>2, <3>2, <3>3
    <2>3. CASE Read
      <3>1. chan # <<>> /\ got' = Append(got, Head(chan)) /\ chan' = Tail(chan) /\ outbox' = outbox
        BY <2>3 DEF Read
      <3>2. Typed'
        BY <1>1, <1>2, <3>1 DEF SInv, Typed
      <3>3. Stream' = Stream
        <4>1. Stream' = Append(got, Head(chan)) \o Tail(chan)
          BY <3>1 DEF Stream
        <4>2. Stream' \in Seq(Event) /\ Len(Stream') = Len(Stream)
          BY <1>2, <3>1, <4>1 DEF Stream
        <4>3. \A i \in 1..Len(Stream) : Stream'[i] = Stream[i]
          BY <1>2, <3>1, <4>1 DEF Stream
        <4> QED
          BY <1>2, <4>2, <4>3, SeqEqual
      <3> QED
        BY <3>1, <3>2, <3>3 DEF Sent
    <2>4. CASE GiveUp \/ Suppress
      <3>1. outbox # <<>> /\ got' = got /\ chan' = chan /\ outbox' = Tail(outbox) /\ job'.dead
        BY <2>4, <1>3 DEF GiveUp, Suppress, JobTyped
      <3> QED
        BY <1>1, <1>2, <3>1 DEF SInv, Typed, Stream
    <2> QED
      BY <2>1, <2>2, <2>3, <2>4 DEF Stall, Drop, ShutDown, Tick, vars
  <1> QED
    BY <1>1, <1>3, <1>4, <1>5

LEMMA ChannelSteps ==
    ASSUME SInv, JobTyped,
           \/ Deliver \/ Stall \/ GiveUp \/ Suppress \/ Read
           \/ (\E part \in {"receiver", "guard"} : Drop(part)) \/ ShutDown \/ Tick
           \/ UNCHANGED vars
    PROVE  SInv'
  <1>1. UNCHANGED <<stream, pc, text, ended, emitter>>
    BY ChannelFacts
  <1>3. (job.dead => job'.dead) /\ left \subseteq left'
    BY ChannelFacts
  <1>4. EmitterFits' /\ CancelledFor'
    BY ChannelFacts
  <1>5. Typed' /\ (Stream' = Stream \/ Deliver) /\ (Sent' = Sent \/ job'.dead)
    BY ChannelFacts
  <1>6. Sound(Stream)'
    <2>1. CASE Stream' = Stream
      BY <1>1, <2>1, DeliveredStaysSound DEF SInv
    <2>2. CASE Deliver
      <3>1. ~job.dead /\ ~job'.dead /\ Sent' = Sent /\ Sound(Sent)
        BY <1>5, <2>2 DEF Deliver, SInv
      <3>2. Sent = Stream' \o outbox' /\ Stream' \in Seq(Event) /\ outbox' \in Seq(Event)
        BY <1>5, <3>1 DEF Sent, Typed, Stream
      <3>3. Whole(Stream')
        BY <3>1, <3>2, WholePrefix DEF Sound
      <3>4. \A i \in DOMAIN Stream' : Told(Stream'[i])
        <4> TAKE i \in DOMAIN Stream'
        <4>1. i \in DOMAIN Sent /\ Stream'[i] = Sent[i]
          BY <3>2
        <4> QED
          BY <3>1, <4>1 DEF Sound
      <3> QED
        BY <1>1, <3>3, <3>4 DEF Sound, Whole, Told, Tokens, Follows, Terminal, Plain!Complete, Plain!Ended
    <2> QED
      BY <1>5, <2>1, <2>2
  <1>7. ASSUME ~job'.dead
        PROVE  Sound(Sent)' /\ Position'
    <2>1. Sent' = Sent /\ Sound(Sent) /\ Position
      BY <1>3, <1>5, <1>7 DEF SInv
    <2>2. Sound(Sent)'
      BY <1>1, <2>1 DEF Sound, Whole, Told, Tokens, Follows, Terminal, Plain!Complete, Plain!Ended
    <2>3. Position'
      BY <1>1, <1>3, <2>1 DEF Position, Terminal, InCall
    <2> QED
      BY <2>2, <2>3
  <1> QED
    BY <1>4, <1>5, <1>6, <1>7 DEF SInv

\* What every step of the engine's thread between two sends has in common.
LEMMA ThreadFacts ==
    ASSUME IInv, SInv, TInv
    PROVE  /\ text \in Seq(Word) /\ Len(text) = Size /\ Size \in Nat
           /\ Typed /\ EmitterFits /\ CancelledFor /\ JobTyped /\ Sound(Stream)
           /\ ~job.dead => Sound(Sent) /\ Position
           /\ Looked.dead = job.dead /\ Polled.dead = job.dead
           /\ (job.cancel # "live" => Reason # "live" /\ Looked.cancel # "live"
                                      /\ Polled.cancel # "live")
           /\ (Reason = "gone" => left # {})
           /\ (Looked.cancel = "gone" => left # {}) /\ (Polled.cancel = "gone" => left # {})
           /\ ShouldStop => emitter.matched \/ job.dead \/ Polled.cancel # "live"
  <1>1. Typed /\ EmitterFits /\ CancelledFor /\ Sound(Stream) /\ (~job.dead => Sound(Sent) /\ Position)
    BY DEF SInv
  <1>2. JobTyped /\ Shape
    BY DEF TInv, IInv
  <1>3. text \in Seq(Word) /\ Len(text) = Size /\ Size \in Nat
    BY <1>2, TextFacts
  <1>4. Reason = "gone" => left # {}
    BY <1>1 DEF Reason, Closed, CancelledFor
  <1>5. Looked.dead = job.dead /\ Looked.cancel = Reason
    BY <1>2 DEF Looked, JobTyped
  <1>6. Polled = job \/ Polled = Looked
    BY DEF Polled
  <1>7. ShouldStop => emitter.matched \/ job.dead \/ Polled.cancel # "live"
    BY <1>5 DEF ShouldStop, Polled
  <1>8. job.cancel # "live" => Reason # "live"
    BY DEF Reason
  <1> QED
    BY <1>1, <1>2, <1>3, <1>4, <1>5, <1>6, <1>7, <1>8 DEF Typed, CancelledFor

\* Steps that say nothing: the loop only moves on.
LEMMA QuietStep ==
    ASSUME IInv, SInv, TInv,
           outbox = <<>>, UNCHANGED <<stream, outbox, got, chan, left, text, emitter>>,
           pc \notin {"dispatch", "finished"}, pc' \notin {"dispatch", "finished", "prefill"},
           job' \in {job, Looked, Polled},
           pc' \in {"round", "emit"} => ~emitter.matched,
           pc' \in {"commit", "end"} /\ ended'.cancelled =>
                emitter.matched \/ job.dead \/ job'.cancel # "live"
    PROVE  SInv'
  <1>1. job'.dead = job.dead /\ (job'.cancel = "gone" => left # {})
    BY ThreadFacts DEF CancelledFor
  <1>2. Typed' /\ EmitterFits' /\ CancelledFor'
    BY <1>1, ThreadFacts DEF Typed, EmitterFits, Idle, CancelledFor
  <1>3. GoesOnFrom(outbox', emitter) /\ LeadsTo(outbox', emitter, emitter')
    BY ThreadFacts, SaysNothing
  <1>4. Sound(Stream)' /\ (~job'.dead => Sound(Sent)' /\ Position')
    BY <1>1, <1>2, <1>3, ThreadFacts, Speaks
  <1> QED
    BY <1>2, <1>4 DEF SInv

LEMMA QuietEngineSteps ==
    ASSUME IInv, SInv, TInv,
           \/ Prefilled \/ FirstSaid \/ StopAtPoll \/ GoOn \/ PlainRound
           \/ (\E drafts \in Drafts : VerifyRound(drafts)) \/ Emitted \/ Commit
    PROVE  SInv'
  <1>0. /\ outbox = <<>> /\ UNCHANGED <<stream, outbox, got, chan, left, text, emitter>>
        /\ pc \notin {"dispatch", "finished"}
    BY DEF Prefilled, FirstSaid, StopAtPoll, GoOn, PlainRound, VerifyRound, Emitted, Commit, At,
           QuietUnchanged
  <1>1. CASE Prefilled
    <2>1. pc' = "first" /\ job' = job
      BY <1>1 DEF Prefilled
    <2> QED
      BY <1>0, <2>1, QuietStep
  <1>2. CASE FirstSaid
    <2>1. /\ pc' \in {"end", "poll"} /\ job' \in {job, Polled}
          /\ ended'.cancelled => ShouldStop /\ job' = Polled
      BY <1>2 DEF FirstSaid
    <2>2. ended'.cancelled => emitter.matched \/ job.dead \/ job'.cancel # "live"
      BY <2>1, ThreadFacts
    <2> QED
      BY <1>0, <2>1, <2>2, QuietStep
  <1>3. CASE StopAtPoll
    <2>1. pc' = "end" /\ job' = Polled /\ ShouldStop
      BY <1>3 DEF StopAtPoll
    <2>2. emitter.matched \/ job.dead \/ job'.cancel # "live"
      BY <2>1, ThreadFacts
    <2> QED
      BY <1>0, <2>1, <2>2, QuietStep
  <1>4. CASE GoOn
    <2>1. pc' = "round" /\ job' = Polled /\ ~emitter.matched
      BY <1>4 DEF GoOn, ShouldStop
    <2> QED
      BY <1>0, <2>1, QuietStep
  <1>5. CASE PlainRound \/ \E drafts \in Drafts : VerifyRound(drafts)
    <2>1. pc = "round" /\ pc' = "emit" /\ job' = job
      BY <1>5 DEF PlainRound, VerifyRound, At
    <2>2. ~emitter.matched
      BY <2>1, ThreadFacts DEF EmitterFits
    <2> QED
      BY <1>0, <2>1, <2>2, QuietStep
  <1>6. CASE Emitted
    <2>1. /\ pc' \in {"commit", "emit"} /\ job' \in {job, Polled}
          /\ ended'.cancelled => ShouldStop /\ job' = Polled
          /\ pc' = "emit" => ~ShouldStop
      <3>1. ended' = [ended EXCEPT !.cancelled = ~(Len(text) >= MaxNew) /\ ShouldStop]
        BY <1>6 DEF Emitted
      <3>2. ended'.cancelled <=> ~(Len(text) >= MaxNew) /\ ShouldStop
        BY <3>1 DEF IInv, Shape
      <3> QED
        BY <1>6, <3>2 DEF Emitted
    <2>2. ended'.cancelled => emitter.matched \/ job.dead \/ job'.cancel # "live"
      BY <2>1, ThreadFacts
    <2>3. pc' = "emit" => ~emitter.matched
      BY <2>1 DEF ShouldStop
    <2> QED
      BY <1>0, <2>1, <2>2, <2>3, QuietStep
  <1>7. CASE Commit
    <2>1. pc = "commit" /\ pc' \in {"end", "poll"} /\ job' = job
      BY <1>7 DEF Commit, At
    <2>2. ended'.cancelled = ended.cancelled
      BY <1>7 DEF Commit, IInv, Shape
    <2>3. ended'.cancelled => emitter.matched \/ job.dead \/ job'.cancel # "live"
      BY <2>1, <2>2, ThreadFacts DEF CancelledFor
    <2> QED
      BY <1>0, <2>1, <2>3, QuietStep
  <1> QED
    BY <1>1, <1>2, <1>3, <1>4, <1>5, <1>6, <1>7

\* A token is reported.
LEMMA ReportStep ==
    ASSUME IInv, IInv', SInv, TInv, NEW token, ReportToken(token), ~emitter.matched,
           outbox = <<>>, UNCHANGED <<stream, got, chan, left>>,
           pc \in {"first", "emit"}, pc' \in {"firstSaid", "emitted"}, job' \in {job, Looked, Polled}
    PROVE  SInv'
  <1>1. text \in Seq(Word) /\ Typed
    BY ThreadFacts
  <1>2. outbox' = Accept(token).events /\ emitter' = Accept(token).after
    BY DEF ReportToken
  <1>3. /\ GoesOnFrom(outbox', emitter) /\ LeadsTo(outbox', emitter, emitter')
        /\ emitter' \in Emitters
    BY <1>1, <1>2, Accepting
  <1>5. job'.dead = job.dead /\ (job'.cancel = "gone" => left # {})
    BY ThreadFacts DEF CancelledFor
  <1>6. Typed'
    BY <1>1, <1>3 DEF Typed, GoesOnFrom
  <1>7. EmitterFits' /\ CancelledFor'
    BY <1>5 DEF EmitterFits, CancelledFor
  <1>8. Sound(Stream)' /\ (~job'.dead => Sound(Sent)' /\ Position')
    BY <1>3, <1>5, <1>6, ThreadFacts, Speaks
  <1> QED
    BY <1>6, <1>7, <1>8 DEF SInv

LEMMA ReportSteps ==
    ASSUME IInv, IInv', SInv, TInv, FirstToken \/ Emit
    PROVE  SInv'
  <1>1. outbox = <<>> /\ UNCHANGED <<stream, got, chan, left>>
    BY DEF FirstToken, Emit, At, QuietUnchanged
  <1>2. CASE FirstToken
    <2>1. pc = "first" /\ ~emitter.matched /\ job' = Polled
      BY <1>2 DEF FirstToken, At, ShouldStop
    <2>2. CASE Draw(<<>>, <<>>, 0) = "eog"
      <3>1. /\ pc' = "end" /\ UNCHANGED <<text, emitter, outbox>>
            /\ ended' = [ended EXCEPT !.eog = TRUE]
        BY <1>2, <2>2 DEF FirstToken
      <3>2. ~ended'.cancelled
        BY <2>1, <3>1 DEF IInv, BeforeFirst, GoingOn, Shape
      <3> QED
        BY <1>1, <2>1, <3>1, <3>2, QuietStep
    <2>3. CASE Draw(<<>>, <<>>, 0) # "eog"
      <3>1. ReportToken(Draw(<<>>, <<>>, 0)) /\ pc' = "firstSaid"
        BY <1>2, <2>3 DEF FirstToken
      <3> QED
        BY <1>1, <2>1, <3>1, ReportStep
    <2> QED
      BY <2>2, <2>3
  <1>3. CASE Emit
    <2> DEFINE token == round.committed[round.emitted + 1]
    <2>1. pc = "emit" /\ job' = job
      BY <1>3 DEF Emit, At
    <2>2. ~emitter.matched
      BY <2>1, ThreadFacts DEF EmitterFits
    <2>3. CASE token = "eog"
      <3>1. /\ pc' = "commit" /\ UNCHANGED <<text, emitter, outbox>>
            /\ ended' = [ended EXCEPT !.eog = TRUE]
        BY <1>3, <2>3 DEF Emit
      <3>2. ~ended'.cancelled
        BY <2>1, <3>1 DEF IInv, WithinRound, Emitting, GoingOn, Shape
      <3> QED
        BY <1>1, <2>1, <3>1, <3>2, QuietStep
    <2>4. CASE token # "eog"
      <3>1. ReportToken(token) /\ pc' = "emitted"
        BY <1>3, <2>4 DEF Emit
      <3> QED
        BY <1>1, <2>1, <2>2, <3>1, ReportStep
    <2> QED
      BY <2>3, <2>4
  <1> QED
    BY <1>2, <1>3

\* A job that is over before it decoded a token.
LEMMA NothingSaid ==
    ASSUME IInv, SInv, pc \in {"dispatch", "prefill"}
    PROVE  text = <<>> /\ Len(text) = 0 /\ Idle
  BY DEF IInv, BeforeFirst, SInv, EmitterFits

\* A job ends with nothing to say: its client is gone, or does not read.
LEMMA EndsUnsaid ==
    ASSUME IInv, SInv, TInv, outbox = <<>>, pc # "finished", pc' = "finished",
           UNCHANGED <<stream, outbox, got, chan, left, text, emitter>>,
           job' \in {job, Looked, Polled}, left # {} \/ job.dead
    PROVE  SInv'
  <1>1. job'.dead = job.dead /\ (job'.cancel = "gone" => left # {})
    BY ThreadFacts DEF CancelledFor
  <1>2. Typed' /\ EmitterFits' /\ CancelledFor'
    BY <1>1, ThreadFacts DEF Typed, EmitterFits, Idle, CancelledFor
  <1>3. Stream' = Stream /\ Sent' = Sent /\ Sent = Stream
    BY ThreadFacts, SentFacts DEF Stream, Sent
  <1>4. Sound(Stream)'
    BY <1>3, ThreadFacts, DeliveredStaysSound
  <1>5. Sound(Sent)'
    BY <1>3, <1>4 DEF Sound, Whole, Told, Follows, Terminal, Tokens, Plain!Complete, Plain!Ended
  <1>6. ~job'.dead => Position'
    BY <1>1 DEF Position
  <1> QED
    BY <1>2, <1>4, <1>5, <1>6 DEF SInv

LEMMA DispatchSteps ==
    ASSUME IInv, SInv, TInv, OpenReply \/ AbandonDispatch
    PROVE  SInv'
  <1>0. /\ outbox = <<>> /\ pc = "dispatch" /\ UNCHANGED <<stream, got, chan, left, text, emitter>>
    BY DEF OpenReply, AbandonDispatch, EndBeforeDecode, At, QuietUnchanged
  <1>1. Len(text) = 0 /\ Idle /\ Typed /\ Sound(Stream)
    BY <1>0, NothingSaid, ThreadFacts
  <1>2. /\ Start \in Seq(Event) /\ Len(Start) = 1 /\ Start # <<>> /\ DOMAIN Start = {1}
        /\ Start[1].kind = "start" /\ ~Terminal(Start[1])
    <2> DEFINE e == [kind |-> "start", tokens |-> {}]
    <2>1. e \in Event /\ e.kind = "start" /\ Start = <<e>>
      BY DEF Event, Kinds, Start, Says
    <2> HIDE DEF e
    <2> QED
      BY <2>1 DEF Terminal
  <1>3. job' \in {job, Looked}
    BY DEF OpenReply, AbandonDispatch, EndBeforeDecode
  <1>4. job'.dead = job.dead /\ (job'.cancel = "gone" => left # {})
    BY <1>3, ThreadFacts DEF CancelledFor
  <1>5. ~job.dead => Stream = <<>>
    BY <1>0, ThreadFacts, SentFacts DEF Position
  <1>6. Stream' = Stream /\ Stream \in Seq(Event) /\ Sent' = Stream \o outbox'
    BY <1>0, <1>1, SentFacts DEF Stream, Sent
  <1>7. Sound(Stream)'
    BY <1>0, <1>1, <1>6, DeliveredStaysSound
  <1>8. CASE OpenReply
    <2>1. outbox' = Start /\ pc' = "prefill"
      BY <1>8 DEF OpenReply
    <2> HIDE DEF Start
    <2>3. Typed' /\ EmitterFits' /\ CancelledFor'
      BY <1>0, <1>1, <1>2, <1>4, <2>1, ThreadFacts DEF Typed, EmitterFits, Idle, CancelledFor
    <2>4. ASSUME ~job.dead
          PROVE  Sound(Sent)' /\ Position'
      <3>1. Sent' = Start
        BY <1>2, <1>5, <1>6, <2>1, <2>4, ConcatEmptySeq
      <3>2. Sound(Sent)'
        BY <1>2, <3>1 DEF Sound, Whole, Told, Terminal
      <3>3. Position'
        BY <1>0, <1>1, <1>2, <2>1, <3>1 DEF Position, Idle, Terminal, InCall
      <3> QED
        BY <3>2, <3>3
    <2> QED
      BY <1>4, <1>7, <2>3, <2>4 DEF SInv
  <1>9. CASE AbandonDispatch
    <2>1. CASE Reason = "gone"
      <3>1. outbox' = <<>> /\ pc' = "finished" /\ left # {}
        BY <1>9, <2>1, ThreadFacts DEF AbandonDispatch, EndBeforeDecode
      <3> QED
        BY <1>0, <1>3, <3>1, EndsUnsaid
    <2>2. CASE Reason # "gone"
      <3> DEFINE E == Start \o Done(TRUE)
      <3>1. pc' = "finished" /\ outbox' = E
        BY <1>9, <2>2 DEF AbandonDispatch, EndBeforeDecode
      <3>2. E \in Seq(Event) /\ Len(E) = 2 /\ E[1] = Start[1] /\ E[2].kind = "cut"
        <4> DEFINE e == [kind |-> "cut", tokens |-> {}]
                   F == Done(TRUE)
        <4>1. e \in Event /\ e.kind = "cut" /\ F = <<e>>
          BY DEF Event, Kinds, Done, Says
        <4> HIDE DEF e, F, Start
        <4>2. F \in Seq(Event) /\ Len(F) = 1 /\ F[1] = e
          BY <4>1
        <4>3. Start \o F \in Seq(Event)
          BY <1>2, <4>2, ConcatProperties
        <4>4. Len(Start \o F) = 2
          BY <1>2, <4>2, ConcatProperties
        <4>5. (Start \o F)[1] = Start[1]
          BY <1>2, <4>2, <4>4, ConcatProperties
        <4>6. (Start \o F)[2] = F[1]
          BY <1>2, <4>2, <4>4, ConcatProperties
        <4> QED
          BY <4>1, <4>2, <4>3, <4>4, <4>5, <4>6 DEF F
      <3> HIDE DEF E
      <3>4. E # <<>> /\ DOMAIN E = 1..2
        BY <3>2
      <3>5. Typed' /\ EmitterFits' /\ CancelledFor'
        BY <1>0, <1>1, <1>4, <3>1, <3>2, ThreadFacts DEF Typed, EmitterFits, CancelledFor
      <3>6. ASSUME ~job.dead
            PROVE  Sound(Sent)' /\ Position'
        <4>1. Sent' = E
          BY <1>5, <1>6, <3>1, <3>2, <3>6, ConcatEmptySeq
        <4>2. Sound(Sent)'
          <5>1. Whole(E)
            BY <1>2, <3>2, <3>4 DEF Whole, Follows, Terminal, InCall
          <5>2. \A i \in DOMAIN E : E[i].kind # "done"
            BY <1>2, <3>2, <3>4
          <5> QED
            BY <1>0, <3>1, <4>1, <5>1, <5>2 DEF Sound, Whole, Told, Follows, Terminal
        <4>3. Position'
          BY <3>1, <3>2, <3>4, <4>1 DEF Position, Terminal
        <4> QED
          BY <4>2, <4>3
      <3> QED
        BY <1>4, <1>7, <3>5, <3>6 DEF SInv
    <2> QED
      BY <2>1, <2>2
  <1> QED
    BY <1>8, <1>9

LEMMA EndSteps ==
    ASSUME IInv, SInv, TInv, AbandonPrefill \/ NobodyToOpenFor \/ FinishTurn
    PROVE  SInv'
  <1>0. /\ outbox = <<>> /\ pc \in {"prefill", "end"} /\ pc' = "finished"
        /\ UNCHANGED <<stream, got, chan, left, text>> /\ emitter' \in {emitter, Healed.after}
        /\ job' \in {job, Looked}
    BY DEF AbandonPrefill, NobodyToOpenFor, FinishTurn, EndBeforeDecode, At, QuietUnchanged
  <1>1. job'.dead = job.dead /\ (job'.cancel = "gone" => left # {})
    BY <1>0, ThreadFacts DEF CancelledFor
  <1>2. ASSUME GoesOnFrom(outbox', emitter), outbox' # <<>>, Terminal(outbox'[Len(outbox')]),
               outbox'[Len(outbox')].kind = "done" =>
                  emitter'.matched \/ Plain!Complete(Tokens, text)
        PROVE  SInv'
    <2>1. outbox' \in Seq(Event)
      BY <1>2 DEF GoesOnFrom
    <2>2. Typed' /\ EmitterFits' /\ CancelledFor'
      BY <1>0, <1>1, <2>1, ThreadFacts, Heals DEF Typed, EmitterFits, CancelledFor
    <2>3. Sound(Stream)' /\ (~job'.dead => Sound(Sent)' /\ Position')
      BY <1>0, <1>1, <1>2, <2>1, ThreadFacts, Closes
    <2> QED
      BY <2>2, <2>3 DEF SInv
  <1>3. CASE NobodyToOpenFor
    <2>1. job.dead /\ outbox' = outbox /\ emitter' = emitter
      BY <1>3 DEF NobodyToOpenFor
    <2> QED
      BY <1>0, <2>1, EndsUnsaid
  <1>4. CASE AbandonPrefill
    <2>1. CASE Reason = "gone"
      <3>1. outbox' = <<>> /\ emitter' = emitter /\ left # {}
        BY <1>4, <2>1, ThreadFacts DEF AbandonPrefill, EndBeforeDecode
      <3> QED
        BY <1>0, <3>1, EndsUnsaid
    <2>2. CASE Reason # "gone"
      <3>1. outbox' = <<>> \o Done(TRUE) /\ pc = "prefill"
        BY <1>4, <2>2 DEF AbandonPrefill, EndBeforeDecode, At
      <3>2. emitter.call = "none"
        BY <3>1, NothingSaid DEF Idle
      <3>3. Done(TRUE) = Says("cut", {}) /\ "cut" \in Kinds \ {"start"} /\ {} \in SUBSET Nat
        BY DEF Done, Kinds
      <3>4. /\ GoesOnFrom(Says("cut", {}), emitter) /\ Says("cut", {}) # <<>>
            /\ Len(Says("cut", {})) = 1 /\ Says("cut", {})[1].kind = "cut"
        BY <3>2, <3>3, SaysOne
      <3>5. outbox' = Says("cut", {})
        BY <3>1, <3>3, <3>4, ConcatEmptySeq DEF GoesOnFrom
      <3> QED
        BY <1>2, <3>4, <3>5 DEF Terminal
    <2> QED
      BY <2>1, <2>2
  <1>5. CASE FinishTurn
    <2>1. CASE AbandonReason = "gone"
      <3>1. outbox' = <<>> /\ emitter' = emitter /\ (left # {} \/ job.dead)
        BY <1>5, <2>1, ThreadFacts DEF FinishTurn, AbandonReason
      <3> QED
        BY <1>0, <3>1, EndsUnsaid
    <2>2. CASE AbandonReason # "gone"
      <3> DEFINE isCut == AbandonReason # "none"
      <3>1. outbox' = WindDown(isCut) /\ pc = "end" /\ isCut \in BOOLEAN
        BY <1>5, <2>2 DEF FinishTurn, At
      <3>2. ~isCut => emitter.matched \/ Plain!Complete(Tokens, text)
        <4>1. CASE ~ended.cancelled
          BY <3>1, <4>1 DEF IInv, Returned
        <4>2. CASE ended.cancelled
          BY <3>1, <4>2, ThreadFacts, LookStamps DEF AbandonReason, CancelledFor, Reasons
        <4> QED
          BY <4>1, <4>2
      <3>3. emitter' = Healed.after /\ (emitter.matched => emitter'.matched)
        BY <1>5, <2>2, ThreadFacts, Heals DEF FinishTurn
      <3> HIDE DEF isCut
      <3>4. LET E == WindDown(isCut)
            IN  /\ GoesOnFrom(E, emitter) /\ E # <<>> /\ Terminal(E[Len(E)])
                /\ E[Len(E)].kind = "done" => ~isCut
        BY <3>1, ThreadFacts, WindsDown
      <3> QED
        BY <1>2, <3>1, <3>2, <3>3, <3>4
    <2> QED
      BY <2>1, <2>2
  <1> QED
    BY <1>3, <1>4, <1>5

---------------------------------------------------------------------------
LEMMA SInvInductive == Spec => []SInv
  <1>1. Init => IInv /\ SInv
    BY InitInv, SInvInit
  <1>2. IInv /\ [Next]_vars => IInv'
    BY NextInv
  <1>3. IInv /\ IInv' /\ TInv /\ SInv /\ [Next]_vars => SInv'
    BY ChannelSteps, QuietEngineSteps, ReportSteps, DispatchSteps, EndSteps
       DEF Next, Engine, TInv
  <1> QED
    BY <1>1, <1>2, <1>3, TInvInductive, PTL DEF Spec

\* Every end of a job, the early ones included, tells whoever is still there
\* how it ended (engine.rs, finish_abandoned_before_decode and run_job's
\* wind-down), unless a send to it has failed.
THEOREM ListenerGetsItsEnd == Spec => []ListenerIsAnswered
  <1>1. SInv => ListenerIsAnswered
    <2> SUFFICES ASSUME SInv, Finished, left = {}, ~job.dead
                 PROVE  Stream # <<>> /\ Last(Stream).kind \in {"done", "cut"}
      BY DEF ListenerIsAnswered
    <2>1. Sent = Stream /\ Position
      BY SentFacts DEF SInv, Finished
    <2> QED
      BY <2>1 DEF Position, Finished, Terminal, Last
  <1> QED
    BY <1>1, SInvInductive, PTL
---------------------------------------------------------------------------
(* The stream of a reply: every token in its place.                        *)

LateIn(t, m) ==
    \E first, next \in DOMAIN t :
        /\ first < m /\ m < next /\ t[first] = "open" /\ t[next] = "open"
        /\ \A k \in first + 1..next - 1 : t[k] = "part"

\* The tokens the first i events bring.
Early(S, i) == UNION {S[j].tokens : j \in 1..i}

\* Where a token may come, when the events before it and its own bring these.
InPlace(n, t, hit, brought) ==
    \/ hit /\ n = Len(t) /\ t[n] = "open"
    \/ \A m \in 1..n - 1 : LateIn(t, m) \/ m \in brought

PlacedIn(S, t, hit) ==
    \A i \in DOMAIN S :
        /\ S[i].tokens \subseteq DOMAIN t
        /\ S[i].tokens \cap Early(S, i - 1) = {}
        /\ \A n \in S[i].tokens : InPlace(n, t, hit, Early(S, i))
        /\ Terminal(S[i]) => hit \/ Early(S, i) = DOMAIN t

\* What the emitter keeps: an open span that never left it, and text that may
\* grow into a stop sequence; behind a match there is but the marker of a call.
SpanFits(t, em) ==
    IF em.call = "opened"
    THEN \E o \in DOMAIN t : /\ t[o] = "open" /\ em.span = o..Len(t)
                             /\ \A k \in o + 1..Len(t) : t[k] \in {"part", "stop"}
    ELSE em.span = {}
MatchFits(t, em) ==
    em.matched => /\ em.held = {} /\ em.call # "named"
                  /\ em.call = "opened" => em.span = {Len(t)}
Keeps(t, em) ==
    /\ em.held \subseteq DOMAIN t /\ em.held \cap em.span = {}
    /\ SpanFits(t, em)
    /\ em.call # "none" => \A m \in em.held : LateIn(t, m)
    /\ MatchFits(t, em)

\* What was sent and what the emitter keeps are the reply, each token once.
Accounted(S, t, em) ==
    /\ (em.held \cup em.span) \cap Brought(S) = {}
    /\ ~em.matched => DOMAIN t \subseteq Brought(S) \cup em.held \cup em.span
Stands(S, t, em) == PlacedIn(S, t, em.matched) /\ Keeps(t, em) /\ Accounted(S, t, em)

BInv ==
    /\ PlacedIn(Stream, text, emitter.matched)
    /\ ~job.dead => /\ PlacedIn(Sent, text, emitter.matched)
                    /\ pc # "finished" => Stands(Sent, text, emitter)

---------------------------------------------------------------------------
LEMMA BroughtIsEarly ==
    ASSUME NEW S \in Seq(Event)
    PROVE  Brought(S) = Early(S, Len(S))
  BY DEF Brought, Early

\* One event more.
LEMMA OneMore ==
    ASSUME NEW S \in Seq(Event), NEW e \in Event, NEW t, NEW hit, PlacedIn(S, t, hit),
           e.tokens \subseteq DOMAIN t, e.tokens \cap Brought(S) = {},
           \A n \in e.tokens : InPlace(n, t, hit, Brought(S) \cup e.tokens),
           Terminal(e) => hit \/ Brought(S) \cup e.tokens = DOMAIN t
    PROVE  /\ PlacedIn(S \o <<e>>, t, hit) /\ S \o <<e>> \in Seq(Event)
           /\ Brought(S \o <<e>>) = Brought(S) \cup e.tokens
  <1> DEFINE A == S \o <<e>>
             k == Len(S)
  <1>1. /\ k \in Nat /\ A \in Seq(Event) /\ Len(A) = k + 1 /\ A[k + 1] = e
        /\ \A i \in 1..k : A[i] = S[i]
    OBVIOUS
  <1> HIDE DEF A, k
  <1>2. \A i \in 0..k : Early(A, i) = Early(S, i)
    BY <1>1 DEF Early
  <1>3. Early(S, k) = Brought(S)
    BY BroughtIsEarly DEF k
  <1>4. Early(A, k + 1) = Brought(S) \cup e.tokens
    <2>1. 1..k + 1 = 1..k \cup {k + 1}
      BY <1>1
    <2>2. Early(A, k + 1) = Early(A, k) \cup e.tokens
      BY <1>1, <2>1 DEF Early
    <2> QED
      BY <1>1, <1>2, <1>3, <2>2
  <1>5. Brought(A) = Brought(S) \cup e.tokens
    BY <1>1, <1>4, BroughtIsEarly
  <1>6. ASSUME NEW i \in DOMAIN A
        PROVE  /\ A[i].tokens \subseteq DOMAIN t
               /\ A[i].tokens \cap Early(A, i - 1) = {}
               /\ \A n \in A[i].tokens : InPlace(n, t, hit, Early(A, i))
               /\ Terminal(A[i]) => hit \/ Early(A, i) = DOMAIN t
    <2>1. CASE i <= k
      <3>1. i \in 1..k /\ i \in 0..k /\ i - 1 \in 0..k /\ i \in DOMAIN S
        BY <1>1, <2>1 DEF k
      <3>2. A[i] = S[i] /\ Early(A, i) = Early(S, i) /\ Early(A, i - 1) = Early(S, i - 1)
        BY <1>1, <1>2, <3>1
      <3> QED
        BY <3>1, <3>2 DEF PlacedIn
    <2>2. CASE i = k + 1
      <3>1. A[i] = e /\ Early(A, i) = Brought(S) \cup e.tokens
        BY <1>1, <1>4, <2>2
      <3>2. Early(A, i - 1) = Brought(S)
        <4>1. i - 1 = k /\ k \in 0..k
          BY <1>1, <2>2
        <4> QED
          BY <1>2, <1>3, <4>1
      <3> QED
        BY <3>1, <3>2
    <2> QED
      BY <1>1, <2>1, <2>2
  <1> QED
    BY <1>1, <1>5, <1>6 DEF PlacedIn, A

\* An event said, or text if there is any.
LEMMA OneSaid ==
    ASSUME NEW S \in Seq(Event), NEW t, NEW hit, PlacedIn(S, t, hit),
           NEW kind \in Kinds \ {"done", "cut"}, NEW tokens \in SUBSET Nat,
           tokens \subseteq DOMAIN t, tokens \cap Brought(S) = {},
           \A n \in tokens : InPlace(n, t, hit, Brought(S) \cup tokens)
    PROVE  /\ PlacedIn(S \o Says(kind, tokens), t, hit) /\ S \o Says(kind, tokens) \in Seq(Event)
           /\ Brought(S \o Says(kind, tokens)) = Brought(S) \cup tokens
  <1> DEFINE e == [kind |-> kind, tokens |-> tokens]
  <1>1. e \in Event /\ e.tokens = tokens /\ ~Terminal(e) /\ Says(kind, tokens) = <<e>>
    BY DEF Event, Terminal, Says
  <1> HIDE DEF e
  <1> QED
    BY <1>1, OneMore

LEMMA TextSaid ==
    ASSUME NEW S \in Seq(Event), NEW t, NEW hit, PlacedIn(S, t, hit),
           NEW tokens \in SUBSET Nat,
           tokens \subseteq DOMAIN t, tokens \cap Brought(S) = {},
           \A n \in tokens : InPlace(n, t, hit, Brought(S) \cup tokens)
    PROVE  /\ PlacedIn(S \o Text(tokens), t, hit) /\ S \o Text(tokens) \in Seq(Event)
           /\ Brought(S \o Text(tokens)) = Brought(S) \cup tokens
  <1>1. CASE tokens = {}
    <2>1. Text(tokens) = <<>> /\ S \o <<>> = S
      BY <1>1, ConcatEmptySeq DEF Text
    <2> QED
      BY <1>1, <2>1
  <1>2. CASE tokens # {}
    <2> DEFINE e == [kind |-> "text", tokens |-> tokens]
    <2>1. e \in Event /\ e.tokens = tokens /\ ~Terminal(e) /\ Text(tokens) = <<e>>
      BY <1>2 DEF Event, Kinds, Terminal, Text, Says
    <2> HIDE DEF e
    <2> QED
      BY <2>1, OneMore
  <1> QED
    BY <1>1, <1>2

\* A match that is met later, and text that grows before there is one, leave
\* what was said in its place.
LEMMA PlacedOnceHit ==
    ASSUME NEW S, NEW t, NEW hit \in BOOLEAN, NEW hitNow \in BOOLEAN, hit => hitNow,
           PlacedIn(S, t, hit)
    PROVE  PlacedIn(S, t, hitNow)
  BY DEF PlacedIn, InPlace

LEMMA PlacedFirst ==
    ASSUME NEW S \in Seq(Event), NEW E \in Seq(Event), NEW t, NEW hit, PlacedIn(S \o E, t, hit)
    PROVE  PlacedIn(S, t, hit)
  <1> DEFINE A == S \o E
             k == Len(S)
  <1>1. k \in Nat /\ DOMAIN S = 1..k /\ \A i \in 1..k : A[i] = S[i] /\ i \in DOMAIN A
    OBVIOUS
  <1> HIDE DEF A, k
  <1>2. \A i \in 0..k : Early(A, i) = Early(S, i)
    BY <1>1 DEF Early
  <1>3. PlacedIn(A, t, hit)
    BY DEF A
  <1>4. ASSUME NEW i \in DOMAIN S
        PROVE  /\ S[i].tokens \subseteq DOMAIN t
               /\ S[i].tokens \cap Early(S, i - 1) = {}
               /\ \A n \in S[i].tokens : InPlace(n, t, hit, Early(S, i))
               /\ Terminal(S[i]) => hit \/ Early(S, i) = DOMAIN t
    <2>1. i \in 1..k /\ i \in 0..k /\ i - 1 \in 0..k
      BY <1>1
    <2>2. A[i] = S[i] /\ i \in DOMAIN A /\ Early(A, i) = Early(S, i) /\ Early(A, i - 1) = Early(S, i - 1)
      BY <1>1, <1>2, <2>1
    <2> QED
      BY <1>3, <2>2 DEF PlacedIn
  <1> QED
    BY <1>4 DEF PlacedIn

\* The reply as it is, or with one token more.
Grown(t) ==
    /\ t \in Seq(Word) /\ Len(t) \in {Len(text), Len(text) + 1}
    /\ \A k \in 1..Len(text) : t[k] = text[k]
    /\ Len(t) = Len(text) \/ ~emitter.matched

LEMMA LateStays ==
    ASSUME text \in Seq(Word), NEW t, Grown(t), NEW m, LateIn(text, m)
    PROVE  LateIn(t, m)
  <1>1. PICK first, next \in DOMAIN text :
           /\ first < m /\ m < next /\ text[first] = "open" /\ text[next] = "open"
           /\ \A k \in first + 1..next - 1 : text[k] = "part"
    BY DEF LateIn
  <1>2. /\ first \in Nat /\ next \in Nat /\ next <= Len(text) /\ first >= 1
        /\ first \in DOMAIN t /\ next \in DOMAIN t
        /\ t[first] = "open" /\ t[next] = "open"
    BY <1>1 DEF Grown
  <1>3. \A k \in first + 1..next - 1 : t[k] = "part"
    <2> TAKE k \in first + 1..next - 1
    <2>1. k \in 1..Len(text)
      BY <1>2
    <2> QED
      BY <1>1, <2>1 DEF Grown
  <1> QED
    BY <1>1, <1>2, <1>3 DEF LateIn

LEMMA PlacedGrows ==
    ASSUME text \in Seq(Word), NEW t, Grown(t), emitter.matched \in BOOLEAN, NEW S,
           PlacedIn(S, text, emitter.matched),
           t = text \/ \A i \in DOMAIN S : ~Terminal(S[i])
    PROVE  PlacedIn(S, t, emitter.matched)
  <1>1. CASE t = text
    BY <1>1
  <1>2. CASE Len(t) = Len(text) /\ t # text
    BY <1>2, SeqEqual DEF Grown
  <1>3. CASE Len(t) = Len(text) + 1 /\ t # text
    <2>1. ~emitter.matched /\ DOMAIN text \subseteq DOMAIN t
      BY <1>3 DEF Grown
    <2>2. ASSUME NEW n, NEW B, InPlace(n, text, emitter.matched, B)
          PROVE  InPlace(n, t, emitter.matched, B)
      BY <2>1, <2>2, LateStays DEF InPlace
    <2> QED
      BY <1>3, <2>1, <2>2 DEF PlacedIn
  <1> QED
    BY <1>1, <1>2, <1>3 DEF Grown

---------------------------------------------------------------------------
LEMMA Ranges ==
    ASSUME NEW N \in Nat, NEW L \in {N, N + 1}
    PROVE  /\ 1..L \subseteq Nat /\ N + 1..L \subseteq 1..L
           /\ (N + 1..L) \cap (1..N) = {} /\ 1..N \subseteq 1..L
           /\ \A o \in 1..N : o..N \subseteq 1..N /\ o \in o..N
           /\ \A n \in 1..L : \A m \in 1..n - 1 : m \in 1..N /\ m < n
           /\ 1..L = (1..N) \cup (N + 1..L)
           /\ L = N + 1 => /\ N + 1..L = {L} /\ L..L = {L} /\ L + 1..L = {} /\ L \in 1..L
                           /\ \A m \in 1..N : m < L
  OBVIOUS

\* StopFilter::push: it lets go what lies before what it holds, and holds what
\* has nothing but possible beginnings of a stop sequence behind it.
LEMMA Pushing ==
    ASSUME Typed, NEW t, NEW tokens \in SUBSET Nat
    PROVE  LET p == Push(t, tokens)
               all == emitter.held \cup tokens
           IN  /\ p.ready \subseteq all /\ p.held \subseteq all /\ p.ready \cap p.held = {}
               /\ p.matched \in BOOLEAN /\ (emitter.matched => p.matched)
               /\ p.matched /\ ~emitter.matched => p.held = {}
               /\ ~p.matched => p.ready \cup p.held = all
               /\ \A n \in p.ready : \A m \in all : m < n => m \in p.ready
               /\ \A m \in p.held : \A k \in all : t[k] # "stop" /\ (k >= m => t[k] = "part")
  <1> DEFINE p == Push(t, tokens)
             all == emitter.held \cup tokens
             stops == {n \in all : t[n] = "stop"}
             before == {n \in all : \A m \in stops : n < m}
  <1>1. all \in SUBSET Nat /\ emitter.matched \in BOOLEAN
    BY DEF Typed, Emitters
  <1>2. /\ p.ready = before \ Growing(t, before)
        /\ p.held = (IF stops = {} THEN Growing(t, all) ELSE {})
        /\ p.matched = (emitter.matched \/ stops # {})
    BY DEF Push
  <1>3. stops = {} => before = all
    OBVIOUS
  <1>4. \A B \in SUBSET Nat : \A n \in B :
           n \in Growing(t, B) <=> \A m \in B : m >= n => t[m] = "part"
    BY DEF Growing
  <1>41. Growing(t, before) \subseteq before /\ Growing(t, all) \subseteq all
    BY DEF Growing
  <1>5. /\ stops \subseteq all /\ before \subseteq all
        /\ (\A n \in all : n \in stops <=> t[n] = "stop")
    OBVIOUS
  <1>6. \A n \in before : \A m \in all : m < n => m \in before
    BY <1>1
  <1> HIDE DEF p, all, stops, before
  <1>7. p.ready \subseteq all /\ p.held \subseteq all /\ p.ready \cap p.held = {}
    <2>1. p.ready \subseteq all
      BY <1>2, <1>5
    <2>2. CASE stops = {}
      BY <1>2, <1>3, <1>41, <2>1, <2>2
    <2>3. CASE stops # {}
      BY <1>2, <2>1, <2>3
    <2> QED
      BY <2>2, <2>3
  <1>8. p.matched \in BOOLEAN /\ (emitter.matched => p.matched)
        /\ (p.matched /\ ~emitter.matched => p.held = {})
    BY <1>1, <1>2
  <1>9. ~p.matched => p.ready \cup p.held = all
    BY <1>1, <1>2, <1>3, <1>41
  <1>10. ASSUME NEW n \in p.ready, NEW m \in all, m < n
         PROVE  m \in p.ready
    <2>1. n \in before /\ n \notin Growing(t, before)
      BY <1>2
    <2>2. m \in before
      BY <1>6, <1>10, <2>1
    <2>3. PICK k \in before : k >= n /\ t[k] # "part"
      BY <1>1, <1>4, <1>5, <2>1
    <2>4. k >= m
      <3>1. k \in Nat /\ m \in Nat /\ n \in Nat /\ k >= n /\ m < n
        BY <1>1, <1>5, <1>10, <2>1, <2>3
      <3> QED
        BY <3>1
    <2>5. m \notin Growing(t, before)
      <3>1. before \in SUBSET Nat
        BY <1>1, <1>5
      <3>2. m \in Growing(t, before) => t[k] = "part"
        BY <1>4, <2>2, <2>3, <2>4, <3>1
      <3> QED
        BY <2>3, <3>2
    <2> QED
      BY <1>2, <2>2, <2>5
  <1>11. ASSUME NEW m \in p.held, NEW k \in all
         PROVE  t[k] # "stop" /\ (k >= m => t[k] = "part")
    <2>1. stops = {} /\ m \in Growing(t, all)
      BY <1>2, <1>11
    <2>2. t[k] # "stop"
      BY <1>5, <1>11, <2>1
    <2>3. m \in all
      BY <1>41, <2>1
    <2>4. k >= m => t[k] = "part"
      BY <1>1, <1>4, <1>11, <2>1, <2>3
    <2> QED
      BY <2>2, <2>4
  <1> QED
    BY <1>7, <1>8, <1>9, <1>10, <1>11 DEF p, all

\* push_answer of what is kept, the marker behind it too: what is let go comes
\* in its place, and what is not stays accounted for.
LEMMA PushStands ==
    ASSUME Typed, text \in Seq(Word), NEW t, Grown(t), NEW S \in Seq(Event),
           Stands(S, text, emitter), PlacedIn(S, t, emitter.matched),
           NEW marker, marker \subseteq Len(text) + 1..Len(t)
    PROVE  LET p == Push(t, emitter.span \cup marker)
           IN  /\ PlacedIn(S \o Text(p.ready), t, p.matched) /\ S \o Text(p.ready) \in Seq(Event)
               /\ Brought(S \o Text(p.ready)) = Brought(S) \cup p.ready
               /\ p.held \cap (Brought(S) \cup p.ready) = {}
               /\ p.held \subseteq DOMAIN text \cup marker
               /\ ~p.matched => DOMAIN text \cup marker \subseteq Brought(S) \cup p.ready \cup p.held
               /\ p.matched => p.held = {}
  <1> DEFINE tokens == emitter.span \cup marker
             all == emitter.held \cup tokens
             p == Push(t, tokens)
             N == Len(text)
  <1>1. /\ N \in Nat /\ DOMAIN text = 1..N /\ Len(t) \in {N, N + 1} /\ DOMAIN t = 1..Len(t)
        /\ emitter.span \in SUBSET Nat /\ emitter.held \in SUBSET Nat /\ emitter.matched \in BOOLEAN
    BY DEF Grown, Typed, Emitters
  <1>01. /\ DOMAIN t \subseteq Nat /\ N + 1..Len(t) \subseteq DOMAIN t
         /\ (N + 1..Len(t)) \cap DOMAIN text = {} /\ DOMAIN text \subseteq DOMAIN t
         /\ \A o \in DOMAIN text : o..N \subseteq DOMAIN text /\ o \in o..N
         /\ \A n \in DOMAIN t : \A m \in 1..n - 1 : m \in DOMAIN text /\ m < n
    BY <1>1, Ranges
  <1>2. /\ Keeps(text, emitter) /\ PlacedIn(S, text, emitter.matched)
        /\ (emitter.held \cup emitter.span) \cap Brought(S) = {}
        /\ ~emitter.matched => DOMAIN text \subseteq Brought(S) \cup emitter.held \cup emitter.span
    BY DEF Stands, Accounted
  <1>3. emitter.held \subseteq DOMAIN text /\ emitter.span \subseteq DOMAIN text
    <2>1. emitter.held \subseteq DOMAIN text /\ SpanFits(text, emitter)
      BY <1>2 DEF Keeps
    <2>2. CASE emitter.call = "opened"
      <3>1. PICK o \in DOMAIN text : emitter.span = o..Len(text)
        BY <2>1, <2>2 DEF SpanFits
      <3> QED
        BY <1>01, <2>1, <3>1
    <2>3. CASE emitter.call # "opened"
      BY <2>1, <2>3 DEF SpanFits
    <2> QED
      BY <2>2, <2>3
  <1>4. Brought(S) \subseteq DOMAIN text
    BY <1>2 DEF PlacedIn, Brought
  <1>5. tokens \in SUBSET Nat /\ all \subseteq DOMAIN t /\ all \subseteq DOMAIN text \cup marker
        /\ marker \cap DOMAIN text = {} /\ marker \subseteq DOMAIN t
    <2>1. marker \subseteq N + 1..Len(t)
      OBVIOUS
    <2>2. marker \cap DOMAIN text = {} /\ marker \subseteq DOMAIN t
      BY <1>01, <2>1
    <2> QED
      BY <1>01, <1>3, <2>2
  <1>6. all \cap Brought(S) = {}
    BY <1>2, <1>4, <1>5
  <1> HIDE DEF tokens, all
  <1>7. /\ p.ready \subseteq all /\ p.held \subseteq all /\ p.ready \cap p.held = {}
        /\ p.matched \in BOOLEAN /\ (emitter.matched => p.matched)
        /\ p.matched /\ ~emitter.matched => p.held = {}
        /\ ~p.matched => p.ready \cup p.held = all
        /\ \A n \in p.ready : \A m \in all : m < n => m \in p.ready
        /\ \A m \in p.held : \A k \in all : t[k] # "stop" /\ (k >= m => t[k] = "part")
    BY <1>5, Pushing DEF all
  <1> HIDE DEF p
  \* Behind a match, all that is left is the marker of an open call.
  <1>8. CASE emitter.matched
    <2>1. t = text /\ marker = {}
      <3>1. Len(t) = N
        BY <1>8 DEF Grown, N
      <3> QED
        BY <1>1, <3>1, SeqEqual DEF Grown, N
    <2>2. emitter.held = {} /\ emitter.call # "named" /\ SpanFits(text, emitter)
          /\ (emitter.call = "opened" => emitter.span = {N})
      BY <1>2, <1>8 DEF Keeps, MatchFits, N
    <2>3. \A n \in all : n = N /\ text[n] = "open"
      <3>1. CASE emitter.call = "opened"
        <4>1. PICK o \in DOMAIN text : text[o] = "open" /\ emitter.span = o..N
          BY <2>2, <3>1 DEF SpanFits, N
        <4>2. o..N = {N} /\ o \in o..N
          BY <1>01, <2>2, <3>1, <4>1
        <4>4. o = N
          BY <4>2
        <4> QED
          BY <2>1, <2>2, <3>1, <4>1, <4>4 DEF all, tokens
      <3>2. CASE emitter.call # "opened"
        BY <2>1, <2>2, <3>2 DEF all, tokens, SpanFits
      <3> QED
        BY <3>1, <3>2
    <2>4. p.held = {}
      <3> SUFFICES ASSUME NEW m \in p.held PROVE FALSE
        OBVIOUS
      <3> QED
        BY <1>1, <1>7, <2>1, <2>3
    <2>5. p.matched
      BY <1>7, <1>8
    <2>6. \A n \in p.ready : InPlace(n, t, p.matched, Brought(S) \cup p.ready)
      BY <1>7, <2>1, <2>3, <2>5 DEF InPlace, N
    <2>7. PlacedIn(S, t, p.matched)
      BY <1>8, <2>5
    <2>8. p.ready \subseteq DOMAIN t /\ p.ready \cap Brought(S) = {} /\ p.ready \in SUBSET Nat
      <3>1. p.ready \subseteq all
        BY <1>7
      <3> QED
        BY <1>01, <1>5, <1>6, <3>1
    <2>9. /\ PlacedIn(S \o Text(p.ready), t, p.matched) /\ S \o Text(p.ready) \in Seq(Event)
          /\ Brought(S \o Text(p.ready)) = Brought(S) \cup p.ready
      BY <2>6, <2>7, <2>8, TextSaid
    <2> QED
      BY <2>4, <2>5, <2>9 DEF p, tokens
  <1>9. CASE ~emitter.matched
    <2>1. PlacedIn(S, t, p.matched)
      BY <1>1, <1>7, PlacedOnceHit
    <2>2. p.ready \subseteq DOMAIN t /\ p.ready \cap Brought(S) = {} /\ p.ready \in SUBSET Nat
      <3>1. p.ready \subseteq all
        BY <1>7
      <3> QED
        BY <1>01, <1>5, <1>6, <3>1
    <2>3. DOMAIN text \subseteq Brought(S) \cup all /\ marker \subseteq all
      BY <1>2, <1>9 DEF all, tokens
    <2>4. ASSUME NEW n \in p.ready, NEW m \in 1..n - 1
          PROVE  m \in Brought(S) \cup p.ready
      <3>1. n \in DOMAIN t /\ m \in DOMAIN text /\ m < n
        BY <1>01, <2>2
      <3> QED
        BY <1>7, <2>3, <3>1
    <2>5. \A n \in p.ready : InPlace(n, t, p.matched, Brought(S) \cup p.ready)
      BY <2>4 DEF InPlace
    <2>6. /\ PlacedIn(S \o Text(p.ready), t, p.matched) /\ S \o Text(p.ready) \in Seq(Event)
          /\ Brought(S \o Text(p.ready)) = Brought(S) \cup p.ready
      BY <2>1, <2>2, <2>5, TextSaid
    <2>7. p.held \cap (Brought(S) \cup p.ready) = {}
      BY <1>6, <1>7
    <2>8. p.held \subseteq DOMAIN text \cup marker
      BY <1>5, <1>7
    <2>9. ~p.matched => DOMAIN text \cup marker \subseteq Brought(S) \cup p.ready \cup p.held
      BY <1>7, <2>3
    <2>10. p.matched => p.held = {}
      BY <1>7, <1>9
    <2> QED
      BY <2>6, <2>7, <2>8, <2>9, <2>10 DEF p, tokens
  <1> QED
    BY <1>8, <1>9

\* close_span, at a marker or at the end of the reply.
LEMMA CloseStands ==
    ASSUME Typed, text \in Seq(Word), NEW t, Grown(t), NEW S \in Seq(Event),
           Stands(S, text, emitter), PlacedIn(S, t, emitter.matched), emitter.call # "none",
           NEW marker, NEW call \in {"none", "opened"}, NEW span,
           marker \cup span = Len(text) + 1..Len(t),
           IF call = "opened" THEN marker = {} /\ Len(t) = Len(text) + 1 /\ t[Len(t)] = "open"
                              ELSE span = {}
    PROVE  LET closed == CloseSpan(t, marker, call, span)
           IN  /\ Stands(S \o closed.events, t, closed.after)
               /\ S \o closed.events \in Seq(Event)
  <1> DEFINE closed == CloseSpan(t, marker, call, span)
             N == Len(text)
             A == S \o closed.events
  <1>1. /\ N \in Nat /\ DOMAIN text = 1..N /\ Len(t) \in {N, N + 1} /\ DOMAIN t = 1..Len(t)
        /\ emitter \in Emitters /\ emitter.call \in {"opened", "named"}
    BY DEF Grown, Typed, Emitters
  <1>2. /\ DOMAIN t \subseteq Nat /\ N + 1..Len(t) \subseteq DOMAIN t
        /\ (N + 1..Len(t)) \cap DOMAIN text = {} /\ DOMAIN text \subseteq DOMAIN t
        /\ \A n \in DOMAIN t : \A m \in 1..n - 1 : m \in DOMAIN text /\ m < n
    BY <1>1, Ranges
  <1>3. /\ Keeps(text, emitter) /\ PlacedIn(S, text, emitter.matched)
        /\ (emitter.held \cup emitter.span) \cap Brought(S) = {}
        /\ ~emitter.matched => DOMAIN text \subseteq Brought(S) \cup emitter.held \cup emitter.span
    BY DEF Stands, Accounted
  <1>4. Brought(S) \subseteq DOMAIN text
    BY <1>3 DEF PlacedIn, Brought
  <1>5. /\ DOMAIN t = DOMAIN text \cup marker \cup span
        /\ (marker \cup span) \cap DOMAIN text = {} /\ marker \cap span = {}
        /\ marker \subseteq N + 1..Len(t) /\ span \subseteq N + 1..Len(t)
    <2>1. 1..Len(t) = (1..N) \cup (N + 1..Len(t))
      BY <1>1, Ranges
    <2> QED
      BY <1>1, <1>2, <2>1
  <1>6. /\ call = "opened" => /\ span = {Len(t)} /\ Len(t) \in DOMAIN t /\ t[Len(t)] = "open"
                              /\ Len(t)..Len(t) = {Len(t)} /\ Len(t) + 1..Len(t) = {}
                              /\ \A m \in DOMAIN text : m < Len(t)
    <2>1. Len(t) = N + 1 => /\ N + 1..Len(t) = {Len(t)} /\ Len(t)..Len(t) = {Len(t)}
                            /\ Len(t) + 1..Len(t) = {} /\ Len(t) \in 1..Len(t)
                            /\ \A m \in 1..N : m < Len(t)
      BY <1>1, Ranges
    <2> QED
      BY <1>1, <2>1
  <1> HIDE DEF N
  <1>7. \A em : em.call = call /\ em.span = span => SpanFits(t, em)
    BY <1>6 DEF SpanFits
  <1>8. CASE emitter.call = "opened"
    <2> DEFINE p == Push(t, emitter.span \cup marker)
    <2>1. /\ closed.events = Text(p.ready)
          /\ closed.after = [call |-> call, span |-> span, held |-> p.held, matched |-> p.matched]
      BY <1>8 DEF CloseSpan, PushAnswer
    <2>2. marker \subseteq Len(text) + 1..Len(t)
      BY <1>5 DEF N
    <2>3. /\ PlacedIn(S \o Text(p.ready), t, p.matched) /\ S \o Text(p.ready) \in Seq(Event)
          /\ Brought(S \o Text(p.ready)) = Brought(S) \cup p.ready
          /\ p.held \cap (Brought(S) \cup p.ready) = {}
          /\ p.held \subseteq DOMAIN text \cup marker
          /\ ~p.matched => DOMAIN text \cup marker \subseteq Brought(S) \cup p.ready \cup p.held
          /\ p.matched => p.held = {}
      BY <2>2, PushStands
    <2>4. emitter.span \cup marker \in SUBSET Nat
      BY <1>1, <1>2, <1>5 DEF Emitters
    <2>5. /\ p.ready \subseteq emitter.held \cup (emitter.span \cup marker)
          /\ \A m \in p.held : \A k \in emitter.held \cup (emitter.span \cup marker) :
                t[k] # "stop" /\ (k >= m => t[k] = "part")
      BY <2>4, Pushing
    <2> HIDE DEF p
    <2>6. p.held \cap span = {} /\ p.held \subseteq DOMAIN t
      BY <1>2, <1>5, <2>3
    <2>7. call # "none" => \A m \in p.held : LateIn(t, m)
      <3> SUFFICES ASSUME call = "opened", NEW m \in p.held
                   PROVE  LateIn(t, m)
        OBVIOUS
      <3>1. PICK o \in DOMAIN text :
               /\ text[o] = "open" /\ emitter.span = o..Len(text)
               /\ \A k \in o + 1..Len(text) : text[k] \in {"part", "stop"}
        BY <1>3, <1>8 DEF Keeps, SpanFits
      <3>2. marker = {} /\ m \in DOMAIN text /\ Len(t) = N + 1
        BY <2>3 DEF N
      <3>3. /\ o \in Nat /\ o >= 1 /\ o <= N /\ m \in Nat /\ m >= 1 /\ m <= N /\ o \in emitter.span
            /\ \A k \in o + 1..N : k \in emitter.span /\ k \in 1..N
        BY <1>1, <3>1, <3>2 DEF N
      <3>4. \A k \in 1..N : t[k] = text[k]
        BY DEF Grown, N
      <3>5. t[o] = "open"
        BY <1>1, <3>1, <3>4
      <3>6. m > o
        <4>1. o >= m => t[o] = "part"
          BY <2>5, <3>3
        <4> QED
          BY <3>3, <3>5, <4>1
      <3>7. \A k \in o + 1..N : t[k] = "part"
        <4> TAKE k \in o + 1..N
        <4>1. t[k] # "stop" /\ t[k] = text[k] /\ text[k] \in {"part", "stop"}
          BY <2>5, <3>1, <3>3, <3>4 DEF N
        <4> QED
          BY <4>1
      <3>8. Len(t) - 1 = N /\ m < Len(t) /\ o \in DOMAIN t /\ Len(t) \in DOMAIN t
        BY <1>1, <1>2, <3>2, <3>3
      <3> QED
        BY <1>6, <3>5, <3>6, <3>7, <3>8 DEF LateIn
    <2>8. p.matched => p.held = {} /\ (call = "opened" => span = {Len(t)})
      BY <1>6, <2>3
    <2>9. Keeps(t, closed.after)
      <3>1. SpanFits(t, closed.after)
        BY <1>7, <2>1
      <3> QED
        BY <2>1, <2>6, <2>7, <2>8, <3>1 DEF Keeps, MatchFits
    <2>10. (p.held \cup span) \cap (Brought(S) \cup p.ready) = {}
      <3>1. p.ready \subseteq DOMAIN text \cup marker
        <4>1. emitter.held \subseteq DOMAIN text
          BY <1>3 DEF Keeps
        <4>2. emitter.span \subseteq DOMAIN text
          <5>1. PICK o \in DOMAIN text : emitter.span = o..Len(text)
            BY <1>3, <1>8 DEF Keeps, SpanFits
          <5>2. o..N \subseteq 1..N
            BY <1>1, Ranges DEF N
          <5> QED
            BY <1>1, <5>1, <5>2 DEF N
        <4> QED
          BY <2>5, <4>1, <4>2
      <3> QED
        BY <1>4, <1>5, <2>3, <3>1
    <2>11. Accounted(A, t, closed.after)
      BY <1>5, <2>1, <2>3, <2>10 DEF Accounted
    <2> QED
      BY <2>1, <2>3, <2>9, <2>11 DEF Stands
  <1>9. CASE emitter.call = "named"
    <2>1. /\ closed.events = Says("end", marker)
          /\ closed.after = [emitter EXCEPT !.call = call, !.span = span]
      BY <1>9 DEF CloseSpan
    <2>2. /\ closed.after.call = call /\ closed.after.span = span
          /\ closed.after.held = emitter.held /\ closed.after.matched = emitter.matched
      BY <1>1, <2>1 DEF Emitters
    <2>3. ~emitter.matched /\ emitter.span = {} /\ emitter.held \subseteq DOMAIN text
          /\ \A m \in emitter.held : LateIn(text, m)
      BY <1>3, <1>9 DEF Keeps, MatchFits, SpanFits
    <2>4. \A m \in emitter.held : LateIn(t, m)
      BY <2>3, LateStays
    <2>5. marker \subseteq DOMAIN t /\ marker \cap Brought(S) = {} /\ marker \in SUBSET Nat
      BY <1>2, <1>4, <1>5
    <2>6. ASSUME NEW n \in marker, NEW m \in 1..n - 1
          PROVE  LateIn(t, m) \/ m \in Brought(S)
      BY <1>2, <1>3, <2>3, <2>4, <2>5
    <2>7. \A n \in marker : InPlace(n, t, emitter.matched, Brought(S) \cup marker)
      BY <2>6 DEF InPlace
    <2>8. "end" \in Kinds \ {"done", "cut"}
      BY DEF Kinds
    <2>9. /\ PlacedIn(S \o Says("end", marker), t, emitter.matched)
          /\ S \o Says("end", marker) \in Seq(Event)
          /\ Brought(S \o Says("end", marker)) = Brought(S) \cup marker
      BY <2>5, <2>7, <2>8, OneSaid
    <2> HIDE DEF closed
    <2>10. Keeps(t, closed.after)
      <3>1. SpanFits(t, closed.after)
        BY <1>7, <2>2
      <3>2. emitter.held \cap span = {} /\ emitter.held \subseteq DOMAIN t
        BY <1>2, <1>5, <2>3
      <3> QED
        BY <2>2, <2>3, <2>4, <3>1, <3>2 DEF Keeps, MatchFits
    <2>11. Accounted(A, t, closed.after)
      <3>1. (emitter.held \cup span) \cap (Brought(S) \cup marker) = {}
        BY <1>3, <1>4, <1>5, <2>3
      <3>2. DOMAIN t \subseteq (Brought(S) \cup marker) \cup emitter.held \cup span
        BY <1>3, <1>5, <2>3
      <3> QED
        BY <2>1, <2>2, <2>9, <3>1, <3>2 DEF Accounted
    <2> QED
      BY <2>1, <2>2, <2>9, <2>10, <2>11 DEF Stands, closed
  <1> QED
    BY <1>1, <1>8, <1>9

\* accept: one token more, said or kept, in its place.
LEMMA AcceptStands ==
    ASSUME Typed, text \in Seq(Word), ~emitter.matched, NEW token \in Word, NEW S \in Seq(Event),
           Stands(S, text, emitter), \A i \in DOMAIN S : ~Terminal(S[i])
    PROVE  /\ Stands(S \o Accept(token).events, Append(text, token), Accept(token).after)
           /\ S \o Accept(token).events \in Seq(Event)
  <1> DEFINE N == Len(text)
             n == Len(text) + 1
             t == Append(text, token)
             Stays(call, span) == [emitter EXCEPT !.call = call, !.span = span]
             A == S \o Accept(token).events
             after == Accept(token).after
  <1>1. /\ N \in Nat /\ n \in Nat /\ t \in Seq(Word) /\ Len(t) = n /\ t[n] = token
        /\ \A k \in 1..N : t[k] = text[k]
        /\ DOMAIN text = 1..N /\ DOMAIN t = 1..n
        /\ emitter \in Emitters /\ emitter.call \in {"none", "opened", "named"}
        /\ emitter.held \in SUBSET Nat /\ emitter.span \in SUBSET Nat
    BY DEF Typed, Emitters
  <1>2. /\ DOMAIN t \subseteq Nat /\ N + 1..Len(t) = {n} /\ n \in DOMAIN t /\ n \notin DOMAIN text
        /\ DOMAIN text \subseteq DOMAIN t /\ DOMAIN t = DOMAIN text \cup {n}
        /\ n..n = {n} /\ n + 1..n = {} /\ n..Len(t) = {n} /\ n + 1..Len(t) = {}
        /\ \A j \in DOMAIN t : \A m \in 1..j - 1 : m \in DOMAIN text /\ m < j
    <2>1. n = N + 1 /\ n \in {N, N + 1}
      OBVIOUS
    <2>2. /\ 1..n \subseteq Nat /\ N + 1..n = {n} /\ n..n = {n} /\ n + 1..n = {} /\ n \in 1..n
          /\ (N + 1..n) \cap (1..N) = {} /\ 1..N \subseteq 1..n
          /\ 1..n = (1..N) \cup (N + 1..n)
          /\ \A j \in 1..n : \A m \in 1..j - 1 : m \in 1..N /\ m < j
      BY <1>1, <2>1, Ranges
    <2> HIDE DEF n, N, t
    <2> QED
      BY <1>1, <2>2
  <1>3. Grown(t)
    BY <1>1 DEF Grown
  <1> HIDE DEF t, n, N, Stays
  <1>4. PlacedIn(S, text, emitter.matched) /\ emitter.matched \in BOOLEAN
    BY <1>1 DEF Stands, Emitters
  <1>5. PlacedIn(S, t, emitter.matched)
    BY <1>3, <1>4, PlacedGrows
  <1>6. /\ Keeps(text, emitter) /\ (emitter.held \cup emitter.span) \cap Brought(S) = {}
        /\ DOMAIN text \subseteq Brought(S) \cup emitter.held \cup emitter.span
    BY DEF Stands, Accounted
  <1>7. Brought(S) \subseteq DOMAIN text
    BY <1>4 DEF PlacedIn, Brought
  <1>8. /\ emitter.held \subseteq DOMAIN text /\ emitter.held \cap emitter.span = {}
        /\ SpanFits(text, emitter) /\ (emitter.call # "opened" => emitter.span = {})
    BY <1>6 DEF Keeps, SpanFits
  <1>9. emitter.span \subseteq DOMAIN text
    <2>1. CASE emitter.call = "opened"
      <3>1. PICK o \in DOMAIN text : emitter.span = o..Len(text)
        BY <1>8, <2>1 DEF SpanFits
      <3>2. o..N \subseteq 1..N
        BY <1>1, Ranges
      <3> QED
        BY <1>1, <3>1, <3>2 DEF N
    <2> QED
      BY <1>8, <2>1
  <1>10. emitter.call # "none" => \A m \in emitter.held : LateIn(t, m)
    BY <1>3, <1>6, LateStays DEF Keeps
  <1>11. S \o <<>> = S
    BY ConcatEmptySeq
  <1>12. CASE token = "open" /\ emitter.call = "none"
    <2>1. /\ Accept(token).events = Text(emitter.held)
          /\ after = [Stays("opened", {n}) EXCEPT !.held = {}]
      BY <1>12 DEF Accept, n, Stays
    <2>2. /\ after.call = "opened" /\ after.span = {n} /\ after.held = {}
          /\ after.matched = emitter.matched
      BY <1>1, <2>1 DEF Emitters, Stays
    <2>3. ASSUME NEW j \in emitter.held, NEW m \in 1..j - 1
          PROVE  m \in Brought(S) \cup emitter.held
      BY <1>2, <1>6, <1>8, <1>12
    <2>4. \A j \in emitter.held : InPlace(j, t, emitter.matched, Brought(S) \cup emitter.held)
      BY <2>3 DEF InPlace
    <2>5. emitter.held \subseteq DOMAIN t /\ emitter.held \cap Brought(S) = {}
      BY <1>2, <1>6, <1>8
    <2>6. /\ PlacedIn(S \o Text(emitter.held), t, emitter.matched)
          /\ S \o Text(emitter.held) \in Seq(Event)
          /\ Brought(S \o Text(emitter.held)) = Brought(S) \cup emitter.held
      BY <1>1, <1>5, <2>4, <2>5, TextSaid
    <2> HIDE DEF after
    <2>7. Keeps(t, after)
      <3>1. SpanFits(t, after)
        BY <1>1, <1>2, <1>12, <2>2 DEF SpanFits
      <3> QED
        BY <1>4, <2>2, <3>1 DEF Keeps, MatchFits
    <2>8. Accounted(A, t, after)
      BY <1>2, <1>6, <1>7, <1>8, <1>12, <2>1, <2>2, <2>6 DEF Accounted
    <2>9. PlacedIn(A, t, after.matched)
      BY <2>1, <2>2, <2>6, <1>4
    <2> QED
      BY <2>1, <2>6, <2>7, <2>8, <2>9 DEF Stands, after, t
  <1>13. CASE token = "open" /\ emitter.call # "none"
    <2>1. Accept(token) = CloseSpan(t, {}, "opened", {n})
      BY <1>13 DEF Accept, n, t
    <2>2. {} \cup {n} = Len(text) + 1..Len(t) /\ Len(t) = Len(text) + 1 /\ t[Len(t)] = "open"
      BY <1>1, <1>2, <1>13 DEF N, n
    <2>3. LET closed == CloseSpan(t, {}, "opened", {n})
          IN  /\ Stands(S \o closed.events, t, closed.after) /\ S \o closed.events \in Seq(Event)
      BY <1>3, <1>5, <1>13, <2>2, CloseStands
    <2> QED
      BY <2>1, <2>3 DEF t
  <1>14. CASE token = "shut" /\ emitter.call # "none"
    <2>1. Accept(token) = CloseSpan(t, {n}, "none", {})
      BY <1>14 DEF Accept, n, t
    <2>2. {n} \cup {} = Len(text) + 1..Len(t)
      BY <1>1, <1>2 DEF N, n
    <2>3. LET closed == CloseSpan(t, {n}, "none", {})
          IN  /\ Stands(S \o closed.events, t, closed.after) /\ S \o closed.events \in Seq(Event)
      BY <1>3, <1>5, <1>14, <2>2, CloseStands
    <2> QED
      BY <2>1, <2>3 DEF t
  <1>15. CASE token \in {"part", "stop"} /\ emitter.call = "opened"
    <2>1. Accept(token).events = <<>> /\ after = Stays("opened", emitter.span \cup {n})
      BY <1>15 DEF Accept, n, Stays
    <2>2. /\ after.call = "opened" /\ after.span = emitter.span \cup {n}
          /\ after.held = emitter.held /\ after.matched = emitter.matched
      BY <1>1, <2>1 DEF Emitters, Stays
    <2> HIDE DEF after
    <2>3. SpanFits(t, after)
      <3>1. PICK o \in DOMAIN text :
               /\ text[o] = "open" /\ emitter.span = o..Len(text)
               /\ \A k \in o + 1..Len(text) : text[k] \in {"part", "stop"}
        BY <1>8, <1>15 DEF SpanFits
      <3>2. /\ o..n = (o..N) \cup {n} /\ o \in 1..N
            /\ \A k \in o + 1..n : k = n \/ (k \in o + 1..N /\ k \in 1..N)
        BY <1>1 DEF n, N
      <3>3. t[o] = "open" /\ o \in DOMAIN t
        BY <1>1, <1>2, <3>1, <3>2
      <3>4. \A k \in o + 1..n : t[k] \in {"part", "stop"}
        BY <1>1, <1>15, <3>1, <3>2 DEF N
      <3>5. after.span = o..Len(t)
        BY <1>1, <2>2, <3>1, <3>2 DEF N
      <3> QED
        BY <1>1, <2>2, <3>3, <3>4, <3>5 DEF SpanFits
    <2>4. Keeps(t, after)
      BY <1>2, <1>4, <1>8, <1>10, <1>15, <2>2, <2>3 DEF Keeps, MatchFits
    <2>5. Accounted(A, t, after)
      BY <1>2, <1>6, <1>7, <1>11, <2>1, <2>2 DEF Accounted
    <2> QED
      BY <1>5, <1>11, <2>1, <2>2, <2>4, <2>5 DEF Stands, after, t
  <1>16. CASE token \notin {"open", "shut", "part", "stop"} /\ emitter.call = "opened"
    <2> DEFINE tokens == emitter.span \cup {n}
    <2>1. Accept(token).events = Says("call", tokens) /\ after = Stays("named", {})
      BY <1>16 DEF Accept, n, Stays
    <2>2. /\ after.call = "named" /\ after.span = {}
          /\ after.held = emitter.held /\ after.matched = emitter.matched
      BY <1>1, <2>1 DEF Emitters, Stays
    <2>3. tokens \in SUBSET Nat /\ tokens \subseteq DOMAIN t /\ tokens \cap Brought(S) = {}
      BY <1>1, <1>2, <1>6, <1>7, <1>9
    <2>4. ASSUME NEW j \in tokens, NEW m \in 1..j - 1
          PROVE  LateIn(t, m) \/ m \in Brought(S) \cup tokens
      BY <1>2, <1>6, <1>10, <1>16, <2>3
    <2>5. \A j \in tokens : InPlace(j, t, emitter.matched, Brought(S) \cup tokens)
      BY <2>4 DEF InPlace
    <2> DEFINE e == [kind |-> "call", tokens |-> tokens]
    <2>6. e \in Event /\ e.tokens = tokens /\ ~Terminal(e) /\ Says("call", tokens) = <<e>>
      BY <2>3 DEF Event, Kinds, Terminal, Says
    <2> HIDE DEF tokens, after, e
    <2>7. /\ PlacedIn(S \o Says("call", tokens), t, emitter.matched)
          /\ S \o Says("call", tokens) \in Seq(Event)
          /\ Brought(S \o Says("call", tokens)) = Brought(S) \cup tokens
      BY <1>5, <2>3, <2>5, <2>6, OneMore
    <2>8. Keeps(t, after)
      BY <1>2, <1>8, <1>10, <1>16, <2>2 DEF Keeps, MatchFits, SpanFits
    <2>9. Accounted(A, t, after)
      BY <1>2, <1>6, <1>7, <1>8, <2>1, <2>2, <2>7 DEF Accounted, tokens
    <2> QED
      BY <2>1, <2>2, <2>7, <2>8, <2>9 DEF Stands, after, t
  <1>17. CASE token \notin {"open", "shut"} /\ emitter.call = "named"
    <2> DEFINE tokens == {n}
    <2>1. Accept(token).events = Says("arg", tokens) /\ after = emitter
      BY <1>17 DEF Accept, n
    <2>2. tokens \in SUBSET Nat /\ tokens \subseteq DOMAIN t /\ tokens \cap Brought(S) = {}
      BY <1>1, <1>2, <1>7
    <2>3. ASSUME NEW j \in tokens, NEW m \in 1..j - 1
          PROVE  LateIn(t, m) \/ m \in Brought(S)
      BY <1>2, <1>6, <1>8, <1>10, <1>17
    <2>4. \A j \in tokens : InPlace(j, t, emitter.matched, Brought(S) \cup tokens)
      BY <2>3 DEF InPlace
    <2> DEFINE e == [kind |-> "arg", tokens |-> tokens]
    <2>5. e \in Event /\ e.tokens = tokens /\ ~Terminal(e) /\ Says("arg", tokens) = <<e>>
      BY <2>2 DEF Event, Kinds, Terminal, Says
    <2> HIDE DEF tokens, after, e
    <2>6. /\ PlacedIn(S \o Says("arg", tokens), t, emitter.matched)
          /\ S \o Says("arg", tokens) \in Seq(Event)
          /\ Brought(S \o Says("arg", tokens)) = Brought(S) \cup tokens
      BY <1>5, <2>2, <2>4, <2>5, OneMore
    <2>7. Keeps(t, after)
      BY <1>2, <1>8, <1>10, <1>17, <2>1 DEF Keeps, MatchFits, SpanFits
    <2>8. Accounted(A, t, after)
      BY <1>2, <1>6, <1>7, <1>8, <1>17, <2>1, <2>6 DEF Accounted, tokens
    <2> QED
      BY <2>1, <2>6, <2>7, <2>8 DEF Stands, after, t
  <1>18. CASE token # "open" /\ emitter.call = "none"
    <2> DEFINE p == Push(t, {n})
    <2>1. Accept(token) = PushAnswer(t, {n}, "none", {})
      BY <1>18 DEF Accept, n, t
    <2>2. /\ Accept(token).events = Text(p.ready)
          /\ after = [call |-> "none", span |-> {}, held |-> p.held, matched |-> p.matched]
      BY <2>1 DEF PushAnswer
    <2>3. {n} \subseteq Len(text) + 1..Len(t) /\ emitter.span \cup {n} = {n}
      BY <1>2, <1>8, <1>18 DEF N
    <2>4. LET q == Push(t, emitter.span \cup {n})
          IN  /\ PlacedIn(S \o Text(q.ready), t, q.matched) /\ S \o Text(q.ready) \in Seq(Event)
              /\ Brought(S \o Text(q.ready)) = Brought(S) \cup q.ready
              /\ q.held \cap (Brought(S) \cup q.ready) = {}
              /\ q.held \subseteq DOMAIN text \cup {n}
              /\ ~q.matched => DOMAIN text \cup {n} \subseteq Brought(S) \cup q.ready \cup q.held
              /\ q.matched => q.held = {}
      BY <1>3, <1>5, <2>3, PushStands
    <2>5. /\ PlacedIn(S \o Text(p.ready), t, p.matched) /\ S \o Text(p.ready) \in Seq(Event)
          /\ Brought(S \o Text(p.ready)) = Brought(S) \cup p.ready
          /\ p.held \cap (Brought(S) \cup p.ready) = {}
          /\ p.held \subseteq DOMAIN text \cup {n}
          /\ ~p.matched => DOMAIN text \cup {n} \subseteq Brought(S) \cup p.ready \cup p.held
          /\ p.matched => p.held = {}
      BY <2>3, <2>4
    <2> HIDE DEF p
    <2>6. Keeps(t, after)
      BY <1>2, <2>2, <2>5 DEF Keeps, MatchFits, SpanFits
    <2>7. Accounted(A, t, after)
      BY <1>2, <2>2, <2>5 DEF Accounted
    <2> QED
      BY <2>2, <2>5, <2>6, <2>7 DEF Stands, t
  <1> QED
    BY <1>1, <1>12, <1>13, <1>14, <1>15, <1>16, <1>17, <1>18

\* heal_open_call.
LEMMA HealStands ==
    ASSUME Typed, text \in Seq(Word), NEW S \in Seq(Event), Stands(S, text, emitter)
    PROVE  /\ Stands(S \o Healed.events, text, Healed.after) /\ S \o Healed.events \in Seq(Event)
           /\ Healed.after.call = "none"
  <1>1. Healed.after.call = "none"
    BY Heals
  <1>2. CASE emitter.call = "none"
    <2>1. Healed.events = <<>> /\ Healed.after = emitter /\ S \o <<>> = S
      BY <1>2, ConcatEmptySeq DEF Healed
    <2> QED
      BY <1>1, <2>1
  <1>3. CASE emitter.call # "none"
    <2>1. Healed = CloseSpan(text, {}, "none", {})
      BY <1>3 DEF Healed
    <2>2. Grown(text) /\ PlacedIn(S, text, emitter.matched)
      BY DEF Grown, Stands
    <2>3. {} \cup {} = Len(text) + 1..Len(text)
      BY EmptySeq
    <2>4. LET closed == CloseSpan(text, {}, "none", {})
          IN  /\ Stands(S \o closed.events, text, closed.after) /\ S \o closed.events \in Seq(Event)
      BY <1>3, <2>2, <2>3, CloseStands
    <2> QED
      BY <1>1, <2>1, <2>4
  <1> QED
    BY <1>2, <1>3

LEMMA Associates ==
    ASSUME NEW a \in Seq(Event), NEW b \in Seq(Event), NEW c \in Seq(Event)
    PROVE  (a \o b) \o c = a \o (b \o c)
  BY ConcatAssociative

\* The last of it: nothing is left to say when the terminal event is.
LEMMA WindDownPlaced ==
    ASSUME Typed, text \in Seq(Word), NEW S \in Seq(Event), Stands(S, text, emitter),
           NEW isCut \in BOOLEAN
    PROVE  PlacedIn(S \o WindDown(isCut), text, Healed.after.matched)
  <1> DEFINE after == Healed.after
             hit == after.matched
             tail == IF hit THEN {} ELSE after.held
             B == S \o Healed.events
             C == B \o Text(tail)
             e == [kind |-> IF isCut THEN "cut" ELSE "done", tokens |-> {}]
  <1>1. /\ Stands(B, text, after) /\ B \in Seq(Event) /\ after.call = "none" /\ after \in Emitters
        /\ Healed.events \in Seq(Event)
    BY HealStands, Heals DEF GoesOnFrom
  <1>2. /\ e \in Event /\ e.tokens = {} /\ Done(isCut) = <<e>>
    BY DEF Event, Kinds, Done, Says
  <1>3. Text(tail) \in Seq(Event) /\ tail \in SUBSET Nat
    BY <1>1, SaysText DEF Emitters, GoesOnFrom
  <1>4. S \o WindDown(isCut) = C \o <<e>>
    <2>1. WindDown(isCut) = (Healed.events \o Text(tail)) \o <<e>>
      BY <1>2 DEF WindDown
    <2> HIDE DEF e, tail
    <2> DEFINE H == Healed.events
               T == Text(tail)
               F == <<e>>
    <2>2. /\ F \in Seq(Event) /\ H \in Seq(Event) /\ T \in Seq(Event)
          /\ S \o H = B
      BY <1>1, <1>2, <1>3
    <2> HIDE DEF H, T, F, B
    <2>3. H \o T \in Seq(Event)
      BY <2>2, ConcatProperties
    <2>4. S \o ((H \o T) \o F) = (S \o (H \o T)) \o F
      BY <2>2, <2>3, Associates
    <2>5. S \o (H \o T) = (S \o H) \o T
      BY <2>2, Associates
    <2> QED
      BY <2>1, <2>2, <2>4, <2>5 DEF H, T, F
  <1> HIDE DEF after, tail, B, e
  <1>5. /\ PlacedIn(B, text, hit) /\ after.held \subseteq DOMAIN text
        /\ after.held \cap Brought(B) = {}
        /\ ~hit => DOMAIN text \subseteq Brought(B) \cup after.held
    BY <1>1 DEF Stands, Accounted, Keeps, SpanFits
  <1>6. ASSUME NEW j \in tail, NEW m \in 1..j - 1
        PROVE  m \in Brought(B) \cup tail
    <2>1. j \in DOMAIN text /\ ~hit /\ tail = after.held
      BY <1>5 DEF tail
    <2>2. m \in DOMAIN text
      BY <2>1
    <2> QED
      BY <1>5, <2>1, <2>2
  <1>7. \A j \in tail : InPlace(j, text, hit, Brought(B) \cup tail)
    BY <1>6 DEF InPlace
  <1>8. PlacedIn(C, text, hit) /\ C \in Seq(Event) /\ Brought(C) = Brought(B) \cup tail
    <2>1. tail \subseteq DOMAIN text /\ tail \cap Brought(B) = {}
      BY <1>5 DEF tail
    <2> QED
      BY <1>1, <1>3, <1>5, <1>7, <2>1, TextSaid
  <1>9. Brought(C) \subseteq DOMAIN text
    BY <1>8 DEF PlacedIn, Brought
  <1>10. hit \/ Brought(C) \cup e.tokens = DOMAIN text
    BY <1>2, <1>5, <1>8, <1>9 DEF tail
  <1> HIDE DEF C, hit
  <1> QED
    BY <1>2, <1>4, <1>8, <1>10, OneMore DEF hit, after

---------------------------------------------------------------------------
LEMMA BInvInit == Init => BInv
  <1> SUFFICES ASSUME Init PROVE BInv
    OBVIOUS
  <1>1. /\ Stream = <<>> /\ Sent = <<>> /\ text = <<>>
        /\ emitter = [call |-> "none", span |-> {}, held |-> {}, matched |-> FALSE]
    BY DEF Init, Stream, Sent
  <1>2. PlacedIn(<<>>, text, emitter.matched) /\ Brought(<<>>) = {}
    BY DEF PlacedIn, Brought
  <1>3. Keeps(text, emitter) /\ Accounted(<<>>, text, emitter)
    BY <1>1, <1>2 DEF Keeps, SpanFits, MatchFits, Accounted
  <1> QED
    BY <1>1, <1>2, <1>3 DEF BInv, Stands

LEMMA BInvThen ==
    ASSUME PlacedIn(Stream', text', emitter'.matched),
           ~job'.dead => /\ PlacedIn(Sent', text', emitter'.matched)
                         /\ pc' # "finished" => Stands(Sent', text', emitter')
    PROVE  BInv'
  <1>1. /\ PlacedIn(Stream, text, emitter.matched)' <=> PlacedIn(Stream', text', emitter'.matched)
        /\ PlacedIn(Sent, text, emitter.matched)' <=> PlacedIn(Sent', text', emitter'.matched)
    BY DEF PlacedIn, InPlace, LateIn, Early, Terminal
  <1>2. Keeps(text, emitter)' <=> Keeps(text', emitter')
    BY DEF Keeps, SpanFits, MatchFits, LateIn
  <1>3. Accounted(Sent, text, emitter)' <=> Accounted(Sent', text', emitter')
    BY DEF Accounted, Brought
  <1>4. Stands(Sent, text, emitter)' <=> Stands(Sent', text', emitter')
    BY <1>1, <1>2, <1>3 DEF Stands
  <1> QED
    BY <1>1, <1>4 DEF BInv

\* What a step of the channel leaves of it.
LEMMA BInvChannel ==
    ASSUME SInv, JobTyped, BInv,
           \/ Deliver \/ Stall \/ GiveUp \/ Suppress \/ Read
           \/ (\E part \in {"receiver", "guard"} : Drop(part)) \/ ShutDown \/ Tick
           \/ UNCHANGED vars
    PROVE  BInv'
  <1>1. /\ UNCHANGED <<pc, text, emitter>> /\ (job.dead => job'.dead) /\ Typed'
        /\ Stream' = Stream \/ Deliver
        /\ Sent' = Sent \/ job'.dead
    BY ChannelFacts
  <1>2. PlacedIn(Stream', text, emitter.matched)
    <2>1. CASE Stream' = Stream
      BY <2>1 DEF BInv
    <2>2. CASE Deliver
      <3>1. ~job.dead /\ ~job'.dead
        BY <2>2 DEF Deliver
      <3>2. Sent' = Sent /\ PlacedIn(Sent, text, emitter.matched)
        BY <1>1, <3>1 DEF BInv
      <3>3. Sent = Stream' \o outbox' /\ Stream' \in Seq(Event) /\ outbox' \in Seq(Event)
        BY <1>1, <3>2 DEF Sent, Typed, Stream
      <3> QED
        BY <3>2, <3>3, PlacedFirst
    <2> QED
      BY <1>1, <2>1, <2>2
  <1>3. ASSUME ~job'.dead
        PROVE  /\ PlacedIn(Sent', text', emitter'.matched)
               /\ pc' # "finished" => Stands(Sent', text', emitter')
    BY <1>1, <1>3 DEF BInv
  <1> QED
    BY <1>1, <1>2, <1>3, BInvThen

\* The thread's steps between two sends go on from what was delivered.
LEMMA BInvSpeaks ==
    ASSUME SInv, BInv, outbox = <<>>, UNCHANGED <<got, chan>>, job'.dead = job.dead,
           PlacedIn(Stream, text', emitter'.matched),
           ~job.dead => /\ PlacedIn(Stream \o outbox', text', emitter'.matched)
                        /\ pc' # "finished" => Stands(Stream \o outbox', text', emitter')
    PROVE  BInv'
  <1>1. Stream' = Stream /\ Sent' = Stream \o outbox'
    BY DEF Stream, Sent
  <1> QED
    BY <1>1, BInvThen

LEMMA BInvQuiet ==
    ASSUME SInv, BInv, outbox = <<>>, UNCHANGED <<outbox, got, chan, text, emitter>>,
           job'.dead = job.dead, pc # "finished"
    PROVE  BInv'
  <1>1. Sent = Stream /\ Stream \in Seq(Event)
    BY SentFacts DEF SInv
  <1>2. Stream \o outbox' = Stream
    BY <1>1, ConcatEmptySeq
  <1>3. /\ PlacedIn(Stream, text, emitter.matched)
        /\ ~job.dead => Stands(Stream, text, emitter)
    BY <1>1 DEF BInv
  <1> QED
    BY <1>2, <1>3, BInvSpeaks DEF Stands

LEMMA BInvReport ==
    ASSUME IInv, IInv', SInv, TInv, BInv, NEW token, ReportToken(token), ~emitter.matched,
           outbox = <<>>, UNCHANGED <<got, chan>>, pc \in {"first", "emit"},
           job' \in {job, Looked, Polled}
    PROVE  BInv'
  <1>1. /\ text \in Seq(Word) /\ Typed /\ Sound(Stream) /\ job'.dead = job.dead
        /\ Sent = Stream /\ Stream \in Seq(Event)
    BY ThreadFacts, SentFacts
  <1>2. text' = Append(text, token) /\ text' \in Seq(Word) /\ emitter' = Accept(token).after
        /\ outbox' = Accept(token).events
    BY DEF ReportToken, IInv, Shape, Known, FirstOf
  <1>3. token \in Word
    <2>1. /\ Len(text) \in Nat /\ Append(text, token)[Len(text) + 1] = token
          /\ Len(text) + 1 \in 1..Len(Append(text, token))
      BY <1>1
    <2> QED
      BY <1>2, <2>1
  <1>4. \A i \in DOMAIN Stream : ~Terminal(Stream[i])
    BY <1>1 DEF Sound, Told
  <1>5. PlacedIn(Stream, text', emitter'.matched)
    <2>1. Grown(text')
      <3>1. /\ Len(Append(text, token)) = Len(text) + 1
            /\ \A k \in 1..Len(text) : Append(text, token)[k] = text[k]
        BY <1>1, <1>3
      <3> QED
        BY <1>2, <3>1 DEF Grown
    <2>2. emitter.matched \in BOOLEAN /\ emitter'.matched \in BOOLEAN
      BY <1>1, <1>2, Accepting DEF Typed, Emitters
    <2>3. PlacedIn(Stream, text', emitter.matched)
      BY <1>1, <1>4, <2>1, <2>2, PlacedGrows DEF BInv
    <2> QED
      BY <2>2, <2>3, PlacedOnceHit
  <1>6. ASSUME ~job.dead
        PROVE  Stands(Stream \o outbox', text', emitter')
    <2>1. Stands(Stream, text, emitter)
      BY <1>1, <1>6 DEF BInv
    <2> QED
      BY <1>1, <1>2, <1>3, <1>4, <2>1, AcceptStands
  <1> QED
    BY <1>1, <1>5, <1>6, BInvSpeaks DEF Stands

\* A terminal event when all there was has been said.
LEMMA DonePlaced ==
    ASSUME NEW S \in Seq(Event), NEW t, NEW hit, PlacedIn(S, t, hit), Brought(S) = DOMAIN t,
           NEW isCut \in BOOLEAN
    PROVE  PlacedIn(S \o Done(isCut), t, hit)
  <1> DEFINE e == [kind |-> IF isCut THEN "cut" ELSE "done", tokens |-> {}]
  <1>1. e \in Event /\ e.tokens = {} /\ Done(isCut) = <<e>>
    BY DEF Event, Kinds, Done, Says
  <1> HIDE DEF e
  <1> QED
    BY <1>1, OneMore

LEMMA BInvOpening ==
    ASSUME IInv, SInv, TInv, BInv, OpenReply \/ AbandonDispatch \/ AbandonPrefill
    PROVE  BInv'
  <1>1. /\ outbox = <<>> /\ pc \in {"dispatch", "prefill"}
        /\ UNCHANGED <<got, chan, text, emitter>> /\ job' \in {job, Looked}
    BY DEF OpenReply, AbandonDispatch, AbandonPrefill, EndBeforeDecode, At, QuietUnchanged
  <1>2. job'.dead = job.dead /\ Typed /\ Sent = Stream /\ Stream \in Seq(Event) /\ text \in Seq(Word)
    BY <1>1, ThreadFacts, SentFacts
  <1>3. PlacedIn(Stream, text, emitter.matched)
    BY DEF BInv
  <1>4. CASE outbox' = <<>>
    BY <1>1, <1>2, <1>4, BInvQuiet
  <1>5. CASE outbox' # <<>>
    <2> DEFINE A == Stream \o Start
    <2>1. SUFFICES ASSUME ~job.dead
                   PROVE  /\ PlacedIn(Stream \o outbox', text, emitter.matched)
                          /\ pc' # "finished" => Stands(Stream \o outbox', text, emitter)
      BY <1>1, <1>2, <1>3, BInvSpeaks
    <2>2. Stands(Stream, text, emitter) /\ emitter.matched \in BOOLEAN
      BY <1>1, <1>2, <2>1 DEF BInv, Typed, Emitters
    <2> DEFINE e == [kind |-> "start", tokens |-> {}]
    <2>3. e \in Event /\ e.tokens = {} /\ ~Terminal(e) /\ A = Stream \o <<e>>
      BY DEF Event, Kinds, Terminal, Start, Says
    <2> HIDE DEF e
    <2>4. PlacedIn(A, text, emitter.matched) /\ A \in Seq(Event) /\ Brought(A) = Brought(Stream)
      BY <1>2, <1>3, <2>3, OneMore
    <2>5. Stands(A, text, emitter)
      BY <2>2, <2>4 DEF Stands, Accounted
    <2>6. Brought(Stream) = DOMAIN text
      <3>1. text = <<>>
        BY <1>1, NothingSaid
      <3>2. Brought(Stream) \subseteq DOMAIN text
        BY <1>3 DEF PlacedIn, Brought
      <3> QED
        BY <3>1, <3>2
    <2>7. Done(TRUE) \in Seq(Event) /\ Start \in Seq(Event)
      BY DEF Done, Start, Says, Event, Kinds
    <2> HIDE DEF A
    <2>8. CASE OpenReply
      BY <2>4, <2>5, <2>8 DEF OpenReply, A
    <2>9. CASE AbandonDispatch
      <3>1. outbox' = Start \o Done(TRUE) /\ pc' = "finished"
        BY <1>5, <2>9 DEF AbandonDispatch, EndBeforeDecode
      <3>2. Stream \o outbox' = A \o Done(TRUE)
        BY <1>2, <2>7, <3>1, Associates DEF A
      <3> QED
        BY <2>4, <2>6, <3>1, <3>2, DonePlaced
    <2>10. CASE AbandonPrefill
      <3>1. outbox' = <<>> \o Done(TRUE) /\ pc' = "finished"
        BY <1>5, <2>10 DEF AbandonPrefill, EndBeforeDecode
      <3>2. outbox' = Done(TRUE)
        BY <2>7, <3>1, ConcatEmptySeq
      <3> QED
        BY <1>2, <1>3, <2>6, <3>1, <3>2, DonePlaced
    <2> QED
      BY <2>8, <2>9, <2>10
  <1> QED
    BY <1>4, <1>5

LEMMA BInvFinish ==
    ASSUME IInv, SInv, TInv, BInv, FinishTurn
    PROVE  BInv'
  <1>1. /\ outbox = <<>> /\ pc = "end" /\ pc' = "finished"
        /\ UNCHANGED <<got, chan, text>> /\ job' = Looked
    BY DEF FinishTurn, At, QuietUnchanged
  <1>2. job'.dead = job.dead /\ Typed /\ Sent = Stream /\ Stream \in Seq(Event) /\ text \in Seq(Word)
    BY <1>1, ThreadFacts, SentFacts
  <1>3. CASE AbandonReason = "gone"
    <2>1. outbox' = outbox /\ emitter' = emitter
      BY <1>1, <1>3 DEF FinishTurn
    <2> QED
      BY <1>1, <1>2, <2>1, BInvQuiet
  <1>4. CASE AbandonReason # "gone"
    <2>1. outbox' = WindDown(AbandonReason # "none") /\ emitter' = Healed.after
      BY <1>4 DEF FinishTurn
    <2>2. /\ emitter.matched \in BOOLEAN /\ emitter'.matched \in BOOLEAN
          /\ emitter.matched => emitter'.matched
      BY <1>2, <2>1, Heals DEF Typed, Emitters
    <2>3. PlacedIn(Stream, text, emitter'.matched)
      BY <2>2, PlacedOnceHit DEF BInv
    <2>4. ASSUME ~job.dead
          PROVE  PlacedIn(Stream \o outbox', text, emitter'.matched)
      <3>1. Stands(Stream, text, emitter)
        BY <1>1, <1>2, <2>4 DEF BInv
      <3>2. (AbandonReason # "none") \in BOOLEAN
        OBVIOUS
      <3> QED
        BY <1>2, <2>1, <3>1, <3>2, WindDownPlaced
    <2> QED
      BY <1>1, <1>2, <2>3, <2>4, BInvSpeaks
  <1> QED
    BY <1>3, <1>4

LEMMA BInvEngine ==
    ASSUME IInv, IInv', SInv, TInv, BInv,
           \/ Prefilled \/ FirstSaid \/ StopAtPoll \/ GoOn \/ PlainRound \/ NobodyToOpenFor
           \/ (\E drafts \in Drafts : VerifyRound(drafts)) \/ Emitted \/ Commit
           \/ FirstToken \/ Emit
    PROVE  BInv'
  <1>1. Looked.dead = job.dead /\ Polled.dead = job.dead /\ EmitterFits
    BY ThreadFacts
  <1>2. CASE \/ Prefilled \/ FirstSaid \/ StopAtPoll \/ GoOn \/ PlainRound \/ NobodyToOpenFor
             \/ (\E drafts \in Drafts : VerifyRound(drafts)) \/ Emitted \/ Commit
    <2>1. /\ outbox = <<>> /\ UNCHANGED <<outbox, got, chan, text, emitter>> /\ pc # "finished"
          /\ job' \in {job, Polled}
      BY <1>2 DEF Prefilled, FirstSaid, StopAtPoll, GoOn, PlainRound, VerifyRound, Emitted, Commit,
                  NobodyToOpenFor, At, QuietUnchanged
    <2> QED
      BY <1>1, <2>1, BInvQuiet
  <1>3. CASE FirstToken
    <2> DEFINE token == Draw(<<>>, <<>>, 0)
    <2>1. /\ outbox = <<>> /\ UNCHANGED <<got, chan>> /\ pc = "first" /\ job' = Polled
          /\ ~emitter.matched
          /\ ReportToken(token) \/ UNCHANGED <<text, emitter, outbox>>
      BY <1>3 DEF FirstToken, At, QuietUnchanged, ShouldStop
    <2> HIDE DEF token
    <2> QED
      BY <1>1, <2>1, BInvReport, BInvQuiet
  <1>4. CASE Emit
    <2> DEFINE token == round.committed[round.emitted + 1]
    <2>1. /\ outbox = <<>> /\ UNCHANGED <<got, chan>> /\ pc = "emit" /\ job' = job
          /\ ReportToken(token) \/ UNCHANGED <<text, emitter, outbox>>
      BY <1>4 DEF Emit, At, QuietUnchanged
    <2>2. ~emitter.matched
      BY <1>1, <2>1 DEF EmitterFits
    <2> HIDE DEF token
    <2> QED
      BY <1>1, <2>1, <2>2, BInvReport, BInvQuiet
  <1> QED
    BY <1>2, <1>3, <1>4

LEMMA BInvInductive == Spec => []BInv
  <1>1. Init => IInv /\ BInv
    BY InitInv, BInvInit
  <1>2. IInv /\ [Next]_vars => IInv'
    BY NextInv
  <1>3. IInv /\ IInv' /\ TInv /\ SInv /\ BInv /\ [Next]_vars => BInv'
    BY BInvChannel, BInvOpening, BInvFinish, BInvEngine DEF Next, Engine, TInv
  <1> QED
    BY <1>1, <1>2, <1>3, TInvInductive, SInvInductive, PTL DEF Spec

\* What reaches the client is one well-formed reply, each token once and in
\* its place but for the two kinds of text StreamIsWhole names, whatever it
\* reads, however the channel fills, and wherever the job is cut.
THEOREM StreamStaysWhole == Spec => []StreamIsWhole
  <1>1. SInv /\ BInv => StreamIsWhole
    <2> SUFFICES ASSUME SInv, BInv PROVE StreamIsWhole
      OBVIOUS
    <2>1. Sound(Stream) /\ PlacedIn(Stream, text, emitter.matched) /\ Stream \in Seq(Event)
      BY SentFacts DEF SInv, BInv
    <2>2. \A n : LateIn(text, n) <=> Late(n)
      BY DEF LateIn, Late
    <2>3. ASSUME NEW i \in DOMAIN Stream
          PROVE  /\ Brought(SubSeq(Stream, 1, i - 1)) = Early(Stream, i - 1)
                 /\ Early(Stream, i) = Stream[i].tokens \cup Early(Stream, i - 1)
      <3>1. i \in Nat /\ i >= 1 /\ i <= Len(Stream) /\ Len(Stream) \in Nat
        BY <2>1
      <3>2. /\ DOMAIN SubSeq(Stream, 1, i - 1) = 1..i - 1
            /\ \A j \in 1..i - 1 : SubSeq(Stream, 1, i - 1)[j] = Stream[j]
        BY <2>1, <3>1
      <3>3. 1..i = (1..i - 1) \cup {i}
        BY <3>1
      <3> QED
        BY <3>2, <3>3 DEF Brought, Early
    <2>4. ASSUME NEW i \in DOMAIN Stream
          PROVE  LET it == Stream[i]
                     before == Stream[i - 1]
                     earlier == SubSeq(Stream, 1, i - 1)
                 IN  /\ it.kind = "start" <=> i = 1
                     /\ i > 1 => /\ before.kind \notin {"done", "cut"}
                                 /\ InCall(before.kind) <=> it.kind \in {"arg", "end"}
                     /\ it.tokens \cap Brought(earlier) = {}
                     /\ \A n \in it.tokens : BehindMatch(n) \/
                           \A m \in 1..n - 1 : Late(m) \/ m \in it.tokens \cup Brought(earlier)
                     /\ it.kind \in {"done", "cut"} =>
                           emitter.matched \/ Brought(Stream) = DOMAIN text
                     /\ it.kind = "done" => emitter.matched \/ Plain!Complete(stream.tokens, text)
      <3>1. i \in Nat /\ i >= 1 /\ i <= Len(Stream)
        BY <2>1
      <3>2. /\ Stream[i].kind = "start" <=> i = 1
            /\ i > 1 => /\ Stream[i - 1].kind \notin {"done", "cut"}
                        /\ InCall(Stream[i - 1].kind) <=> Stream[i].kind \in {"arg", "end"}
        <4>1. CASE i = 1
          BY <2>1, <4>1 DEF Sound, Whole
        <4>2. CASE i # 1
          <5>1. Follows(Stream[i - 1], Stream[i])
            BY <2>1, <4>2 DEF Sound, Whole
          <5> QED
            BY <4>2, <5>1 DEF Follows, Terminal
        <4> QED
          BY <4>1, <4>2
      <3>3. Stream[i].tokens \cap Brought(SubSeq(Stream, 1, i - 1)) = {}
        BY <2>1, <2>3 DEF PlacedIn
      <3>4. ASSUME NEW n \in Stream[i].tokens, ~BehindMatch(n), NEW m \in 1..n - 1
            PROVE  Late(m) \/ m \in Stream[i].tokens \cup Brought(SubSeq(Stream, 1, i - 1))
        <4>1. InPlace(n, text, emitter.matched, Early(Stream, i))
          BY <2>1 DEF PlacedIn
        <4>2. LateIn(text, m) \/ m \in Early(Stream, i)
          BY <3>4, <4>1 DEF InPlace, BehindMatch
        <4> QED
          BY <2>2, <2>3, <4>2
      <3>5. Stream[i].kind \in {"done", "cut"} => emitter.matched \/ Brought(Stream) = DOMAIN text
        <4>1. Terminal(Stream[i]) => emitter.matched \/ Early(Stream, i) = DOMAIN text
          BY <2>1 DEF PlacedIn
        <4>2. Early(Stream, i) \subseteq Brought(Stream)
          BY <2>1, <3>1 DEF Early, Brought
        <4>3. Brought(Stream) \subseteq DOMAIN text
          BY <2>1 DEF PlacedIn, Brought
        <4> QED
          BY <4>1, <4>2, <4>3 DEF Terminal
      <3>6. Stream[i].kind = "done" => emitter.matched \/ Plain!Complete(stream.tokens, text)
        BY <2>1 DEF Sound, Told, Terminal, Tokens
      <3> QED
        BY <3>2, <3>3, <3>4, <3>5, <3>6
    <2> QED
      BY <2>4 DEF StreamIsWhole
  <1> QED
    BY <1>1, SInvInductive, BInvInductive, PTL
=============================================================================
