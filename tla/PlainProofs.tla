---------------------------- MODULE PlainProofs ----------------------------
(***************************************************************************)
(* What the speculative loop promises, for every stream, budget, context   *)
(* and draft length: between rounds the caches hold the reply so far, and  *)
(* what is reported is what plain decoding would report.                   *)
(***************************************************************************)
EXTENDS Reply, WellFoundedInduction, SequenceTheorems, TLAPS

\* What a sequence of tokens may hold: those of a reply, a draw that strayed
\* from it, a draft that is not in it.
Word == Token \cup {"off", "wrong"}

\* s is the first n tokens of the reply T.
FirstOf(T, s, n) ==
    /\ s \in Seq(Word) /\ Len(s) = n /\ n <= Len(T)
    /\ \A i \in 1..n : s[i] = T[i]

---------------------------------------------------------------------------
(* The first tokens of a reply.                                            *)

LEMMA FirstEmpty ==
    ASSUME NEW T \in Seq(Word)
    PROVE  FirstOf(T, <<>>, 0)
  BY DEF FirstOf

LEMMA FirstAppend ==
    ASSUME NEW T \in Seq(Word), NEW s, NEW n \in Nat, FirstOf(T, s, n), n < Len(T)
    PROVE  FirstOf(T, Append(s, T[n + 1]), n + 1) /\ T[n + 1] \in Word
  BY DEF FirstOf

LEMMA FirstCut ==
    ASSUME NEW T \in Seq(Word), NEW s, NEW n \in Nat, FirstOf(T, s, n), NEW m \in 0..n
    PROVE  FirstOf(T, SubSeq(s, 1, m), m)
  BY DEF FirstOf

LEMMA FirstSame ==
    ASSUME NEW T \in Seq(Word), NEW s, NEW t, NEW n \in Nat, FirstOf(T, s, n),
           FirstOf(T, t, n)
    PROVE  s = t
  BY SeqEqual DEF FirstOf

LEMMA FirstConcat ==
    ASSUME NEW T \in Seq(Word), NEW s, NEW n \in Nat, FirstOf(T, s, n),
           NEW t \in Seq(Word), n + Len(t) <= Len(T),
           \A i \in 1..Len(t) : t[i] = T[n + i]
    PROVE  FirstOf(T, s \o t, n + Len(t))
  <1>1. /\ s \o t \in Seq(Word) /\ Len(s \o t) = n + Len(t)
        /\ \A i \in 1..(n + Len(t)) : (s \o t)[i] = IF i <= n THEN s[i] ELSE t[i - n]
    BY ConcatProperties DEF FirstOf
  <1>2. \A i \in 1..(n + Len(t)) : i > n => i - n \in 1..Len(t) /\ n + (i - n) = i
    BY LenProperties
  <1>3. \A i \in 1..n : s[i] = T[i]
    BY DEF FirstOf
  <1>4. \A i \in 1..(n + Len(t)) : (s \o t)[i] = T[i]
    BY <1>1, <1>2, <1>3
  <1> QED
    BY <1>1, <1>4 DEF FirstOf

LEMMA FirstOfItself ==
    ASSUME NEW T \in Seq(Word), NEW n \in Nat, n <= Len(T)
    PROVE  FirstOf(T, SubSeq(T, 1, n), n)
  BY DEF FirstOf

\* A draw on the reply so far is its next token.
LEMMA DrawIsNext ==
    ASSUME stream.tokens \in Seq(Word), NEW context, NEW n \in Nat,
           FirstOf(stream.tokens, context, n), n < Len(stream.tokens)
    PROVE  Draw(context, context, n) = stream.tokens[n + 1]
  <1>1. context = SubSeq(stream.tokens, 1, n)
    <2>1. FirstOf(stream.tokens, SubSeq(stream.tokens, 1, n), n)
      BY FirstOfItself
    <2> QED
      BY <2>1, FirstSame
  <1> QED
    BY <1>1 DEF Draw

LEMMA LeastIsLeast ==
    ASSUME NEW S, S \subseteq Nat, S # {}
    PROVE  Least(S) \in S /\ \A m \in S : Least(S) <= m
  <1>1. PICK x \in S : \A y \in S : ~(<<y, x>> \in OpToRel(<, Nat))
    BY WFMin, NatLessThanWellFounded
  <1>2. \A y \in S : ~(y < x)
    BY <1>1 DEF OpToRel
  <1>3. \A y \in S : x <= y
    BY <1>2
  <1> QED
    BY <1>3 DEF Least

---------------------------------------------------------------------------
(* The invariant: one conjunct for each stretch of the loop.               *)

Tokens == stream.tokens
Known(s, n) == FirstOf(Tokens, s, n)
Size == Len(text)

Shape ==
    /\ stream \in [tokens : Streams, drafter : Drafters]
    /\ gen \in [cache : Seq(Word), drafter : Seq(Word), presence : Seq(Word),
                drawn : Nat, nPast : Nat, idLast : Word]
    /\ round \in [span : Seq(Word), committed : Seq(Word), emitted : Nat]
    /\ ended \in [eog : BOOLEAN, cancelled : BOOLEAN]
    /\ Known(text, Size) /\ Size <= MaxNew

GoingOn == ~ended.eog /\ ~ended.cancelled

BeforeFirst ==
    pc \in {"dispatch", "prefill", "first"} =>
        /\ text = <<>> /\ gen.cache = <<>> /\ gen.drafter = <<>> /\ gen.nPast = 0
        /\ GoingOn

AfterFirst ==
    pc = "firstSaid" =>
        /\ Size = 1 /\ gen.cache = <<>> /\ gen.drafter = <<>> /\ gen.nPast = 0
        /\ gen.presence = text /\ gen.drawn = 1 /\ gen.idLast = text[1] /\ text[1] # "eog"
        /\ GoingOn

\* Between rounds nothing is pending but the token the next is anchored on.
BetweenRounds ==
    pc \in {"poll", "round"} =>
        /\ Size >= 1 /\ Size < MaxNew /\ ~EndsWalk(text[Size])
        /\ Known(gen.cache, Size - 1) /\ gen.nPast = Size - 1
        /\ Known(gen.drafter, Least({Size - 1, DraftCtx}))
        /\ gen.presence = text /\ gen.drawn = Size /\ gen.idLast = text[Size]
        /\ GoingOn

\* Within a round: base is how much was reported before it.
Base == Size - round.emitted
Count == Len(round.committed)

Committed ==
    /\ Base >= 1 /\ Count >= 1 /\ round.emitted <= Count
    /\ Base + Count <= MaxNew /\ Base + Count <= Len(Tokens)
    /\ \A i \in 1..Count : round.committed[i] = Tokens[Base + i]
    /\ \A i \in 0..(Count - 1) : ~EndsWalk(Tokens[Base + i])
    /\ gen.nPast = Base - 1 /\ gen.drawn = Base + Count
    /\ Known(gen.presence, Base + Count)

PlainRows ==
    round.span = <<>> =>
        /\ Count = 1 /\ gen.idLast = Tokens[Base + 1]
        /\ Known(gen.cache, Base) /\ Known(gen.drafter, Least({Base, DraftCtx}))

VerifiedRows ==
    round.span # <<>> =>
        /\ Count <= Len(round.span) /\ gen.idLast = Tokens[Base]
        /\ \A i \in 1..Count : round.span[i] = Tokens[Base - 1 + i]
        /\ Base - 1 + Len(round.span) <= DraftCtx
        /\ Len(gen.cache) = Base - 1 + Len(round.span)
        /\ \A i \in 1..(Base - 1 + Count) : gen.cache[i] = Tokens[i]
        /\ Known(gen.drafter, Base - 1)

Emitting ==
    /\ pc = "emit" => round.emitted < Count /\ GoingOn
    /\ pc = "emitted" => round.emitted >= 1 /\ text[Size] # "eog" /\ GoingOn
    /\ pc = "commit" /\ ended.eog =>
          round.emitted = Count - 1 /\ Tokens[Size + 1] = "eog" /\ ~ended.cancelled
    /\ pc = "commit" /\ ~ended.eog =>
          /\ round.emitted >= 1 /\ text[Size] # "eog"
          /\ ended.cancelled \/ Size = MaxNew \/ round.emitted = Count
          /\ ended.cancelled => Size < MaxNew

WithinRound ==
    pc \in {"emit", "emitted", "commit"} => Committed /\ PlainRows /\ VerifiedRows /\ Emitting

Returned ==
    /\ pc \in {"end", "finished"} =>
          IF ended.cancelled THEN Size < MaxNew ELSE Plain!Complete(Tokens, text)
    /\ pc = "end" /\ text # <<>> =>
          /\ gen.nPast \in {Size - 1, Size} /\ Known(gen.cache, gen.nPast)
          /\ Known(gen.drafter, Least({gen.nPast, DraftCtx}))

IInv ==
    /\ Shape /\ BeforeFirst /\ AfterFirst /\ BetweenRounds /\ WithinRound /\ Returned

loop == <<stream, pc, text, gen, round, ended>>

---------------------------------------------------------------------------
(* What the constants and the shape give.                                  *)

LEMMA TokensFacts ==
    ASSUME Shape
    PROVE  /\ Tokens \in Seq(Word) /\ Tokens # <<>>
           /\ Len(Tokens) >= MaxNew \/ EndsWalk(Tokens[Len(Tokens)])
           /\ Len(Tokens) \in Nat \ {0} /\ Size \in Nat /\ MaxNew \in Nat \ {0}
           /\ DraftCtx \in Nat /\ DraftMax \in Nat /\ MaxCtx \in Nat
  <1>1. stream.tokens \in Streams
    BY DEF Shape
  <1> Tokens \in Seq(Token) /\ Tokens # <<>>
    BY <1>1, ReplyConstantsOK DEF ReplyConstantsOK, Tokens
  <1> Tokens \in Seq(Word)
    BY SeqMonotonic DEF Word
  <1>2. /\ Tokens \in Seq(Word) /\ Tokens # <<>>
        /\ Len(Tokens) >= MaxNew \/ EndsWalk(Tokens[Len(Tokens)])
    BY <1>1, ReplyConstantsOK DEF ReplyConstantsOK, Tokens, EndsWalk, Last
  <1>3. Len(Tokens) \in Nat \ {0}
    BY <1>2, EmptySeq
  <1>4. Size \in Nat
    BY DEF Shape, Known, FirstOf, Size
  <1> QED
    BY <1>2, <1>3, <1>4, ReplyConstantsOK DEF ReplyConstantsOK

LEMMA TextFacts ==
    ASSUME Shape
    PROVE  /\ text \in Seq(Word) /\ Len(text) = Size /\ Size \in Nat /\ Size <= Len(Tokens)
           /\ text = <<>> <=> Size = 0
           /\ Last(text) = text[Size]
           /\ \A i \in 1..Size : text[i] = Tokens[i]
  <1>1. text \in Seq(Word) /\ Size \in Nat
    BY DEF Shape, Known, FirstOf, Size
  <1> QED
    BY <1>1, EmptySeq DEF Shape, Known, FirstOf, Size, Last

\* A reply that goes on has a next token.
LEMMA GoesOn ==
    ASSUME Shape, NEW n \in Nat, n >= 1, n <= Len(Tokens), n < MaxNew, ~EndsWalk(Tokens[n])
    PROVE  n < Len(Tokens)
  BY TokensFacts

LEMMA LeastOfTwo ==
    ASSUME NEW m \in Nat, NEW n \in Nat
    PROVE  Least({m, n}) = IF m <= n THEN m ELSE n
  BY LeastIsLeast

---------------------------------------------------------------------------
(* The steps, one lemma for each stretch of the loop.                      *)

LEMMA InitInv == Init => IInv
  <1> SUFFICES ASSUME Init PROVE IInv
    OBVIOUS
  <1> Tokens \in Seq(Token)
    BY ReplyConstantsOK DEF ReplyConstantsOK, Init, Tokens
  <1>1. Size = 0 /\ Tokens \in Seq(Word)
    BY SeqMonotonic DEF Word, Init, Size
  <1>2. Known(text, Size) /\ Size <= MaxNew
    BY <1>1, FirstEmpty, ReplyConstantsOK DEF ReplyConstantsOK, Init, Known
  <1>3. <<>> \in Seq(Word) /\ "off" \in Word
    BY EmptySeq DEF Word
  <1>4. Shape
    <2>1. stream \in [tokens : Streams, drafter : Drafters]
      BY DEF Init
    <2>2. gen \in [cache : Seq(Word), drafter : Seq(Word), presence : Seq(Word),
                   drawn : Nat, nPast : Nat, idLast : Word]
      BY <1>3 DEF Init
    <2>3. round \in [span : Seq(Word), committed : Seq(Word), emitted : Nat]
      BY <1>3 DEF Init, NoRound
    <2>4. ended \in [eog : BOOLEAN, cancelled : BOOLEAN]
      BY DEF Init
    <2> QED
      BY <1>2, <2>1, <2>2, <2>3, <2>4 DEF Shape
  <1> QED
    BY <1>4 DEF IInv, Init, BeforeFirst, AfterFirst, BetweenRounds, WithinRound, Returned, GoingOn

LEMMA LoopUnchanged == IInv /\ UNCHANGED loop => IInv'
  BY DEF IInv, loop, Shape, BeforeFirst, AfterFirst, BetweenRounds, WithinRound, Returned,
         Known, Tokens, Size, GoingOn, Committed, PlainRows, VerifiedRows, Emitting, Base, Count,
         Plain!Complete, Plain!Ended

\* Steps of the channel, the client, the server and the clock.
LEMMA OthersLeaveLoop ==
    ASSUME \/ Deliver \/ Stall \/ GiveUp \/ Suppress
           \/ Read \/ (\E part \in {"receiver", "guard"} : Drop(part)) \/ ShutDown \/ Tick
    PROVE  UNCHANGED loop
  BY DEF Deliver, Stall, GiveUp, Suppress, Read, Drop, ShutDown, Tick, loop, engine

LEMMA NoneYet == Len(<<>>) = 0 /\ 0 < MaxNew
  BY ReplyConstantsOK DEF ReplyConstantsOK

LEMMA BeforeDecodeInv ==
    ASSUME IInv, AbandonDispatch \/ AbandonPrefill \/ OpenReply \/ NobodyToOpenFor \/ Prefilled
    PROVE  IInv'
  <1> USE DEF At, QuietUnchanged, EndBeforeDecode
  <1>1. UNCHANGED <<stream, text, gen, round>> /\ pc \in {"dispatch", "prefill"}
        /\ ended' \in [eog : BOOLEAN, cancelled : BOOLEAN]
    BY DEF IInv, Shape, AbandonDispatch, AbandonPrefill, OpenReply, NobodyToOpenFor, Prefilled
  <1>2. Shape'
    BY <1>1 DEF IInv, Shape, Known, Tokens, Size
  <1>3. \/ pc' = "finished" /\ ended'.cancelled
        \/ pc' \in {"prefill", "first"} /\ ended' = ended
    BY DEF IInv, Shape, AbandonDispatch, AbandonPrefill, OpenReply, NobodyToOpenFor, Prefilled
  <1>4. BeforeFirst'
    BY <1>1, <1>3 DEF IInv, BeforeFirst, GoingOn
  <1>5. Returned'
    BY <1>1, <1>3, NoneYet DEF IInv, BeforeFirst, Returned, Size
  <1> QED
    BY <1>2, <1>3, <1>4, <1>5 DEF IInv, AfterFirst, BetweenRounds, WithinRound

\* The first token is the first of the reply, and is reported unless it is EOG.
LEMMA FirstTokenInv ==
    ASSUME IInv, FirstToken
    PROVE  IInv'
  <1> DEFINE token == Draw(<<>>, <<>>, 0)
  <1>1. /\ text = <<>> /\ gen.cache = <<>> /\ gen.drafter = <<>> /\ gen.nPast = 0
        /\ GoingOn /\ Shape
    BY DEF IInv, BeforeFirst, FirstToken, At
  <1>2. token = Tokens[1] /\ token \in Word
    BY <1>1, TokensFacts, FirstEmpty, DrawIsNext, 0 + 1 = 1 DEF Tokens
  <1>3. /\ gen' = [gen EXCEPT !.presence = <<token>>, !.drawn = 1, !.idLast = token]
        /\ UNCHANGED <<stream, round>>
    BY DEF FirstToken, QuietUnchanged
  <1>4. Known(<<>>, 0) /\ Known(<<token>>, 1)
    BY <1>1, <1>2, TokensFacts, FirstEmpty DEF Known, FirstOf
  <1>5. gen' \in [cache : Seq(Word), drafter : Seq(Word), presence : Seq(Word),
                  drawn : Nat, nPast : Nat, idLast : Word]
    <2> HIDE DEF token
    <2>1. <<token>> \in Seq(Word) /\ 1 \in Nat
      BY <1>2
    <2> QED
      BY <1>1, <1>2, <1>3, <2>1 DEF Shape
  <1>6. CASE token = "eog"
    <2>1. /\ pc' = "end" /\ ended' = [ended EXCEPT !.eog = TRUE] /\ UNCHANGED text
      BY <1>6 DEF FirstToken
    <2>2. Shape'
      BY <1>1, <1>3, <1>5, <2>1 DEF Shape, Known, Tokens, Size
    <2>3. Plain!Complete(Tokens, text)'
      BY <1>1, <1>2, <1>3, <1>6, <2>1 DEF Plain!Complete, Tokens
    <2>4. ~ended'.cancelled
      BY <1>1, <2>1 DEF GoingOn, Shape
    <2> QED
      BY <1>1, <2>1, <2>2, <2>3, <2>4
      DEF IInv, BeforeFirst, AfterFirst, BetweenRounds, WithinRound, Returned
  <1>7. CASE token # "eog"
    <2>1. /\ pc' = "firstSaid" /\ UNCHANGED ended /\ text' = <<token>>
      BY <1>1, <1>7 DEF FirstToken, ReportToken
    <2>2. Shape'
      BY <1>1, <1>3, <1>4, <1>5, <2>1, TokensFacts DEF Shape, Known, Tokens, Size
    <2>3. AfterFirst'
      BY <1>1, <1>3, <1>7, <2>1 DEF AfterFirst, GoingOn, Size, Shape
    <2> QED
      BY <2>1, <2>2, <2>3 DEF IInv, BeforeFirst, BetweenRounds, WithinRound, Returned
  <1> QED
    BY <1>6, <1>7

LEMMA FirstSaidInv ==
    ASSUME IInv, FirstSaid
    PROVE  IInv'
  <1>1. /\ Size = 1 /\ gen.cache = <<>> /\ gen.drafter = <<>> /\ gen.nPast = 0
        /\ gen.presence = text /\ gen.drawn = 1 /\ gen.idLast = text[1] /\ text[1] # "eog"
        /\ GoingOn /\ Shape
    BY DEF IInv, AfterFirst, FirstSaid, At
  <1>2. UNCHANGED <<stream, text, gen, round>> /\ Last(text) = text[1]
    BY <1>1, TextFacts DEF FirstSaid, QuietUnchanged
  <1>3. /\ ended' \in [eog : BOOLEAN, cancelled : BOOLEAN]
        /\ \/ pc' = "end" /\ IF ended'.cancelled THEN Size < MaxNew
                             ELSE Plain!Complete(Tokens, text)
           \/ /\ pc' = "poll" /\ ~ended'.eog /\ ~ended'.cancelled
              /\ Size < MaxNew /\ text[1] # "last"
    <2> DEFINE complete == Last(text) = "last"
               stops == Size < MaxNew /\ ShouldStop
    <2>1. /\ ended' = [eog |-> complete, cancelled |-> stops]
          /\ pc' = IF complete \/ stops \/ ~(Size < MaxNew) THEN "end" ELSE "poll"
      BY DEF FirstSaid, Size
    <2>2. ended'.eog = complete /\ ended'.cancelled = stops
      BY <2>1
    <2>3. complete \/ ~(Size < MaxNew) => Plain!Complete(Tokens, text)
      <3>1. Len(text) = 1 /\ text # <<>> /\ (1 < MaxNew \/ 1 = MaxNew)
        BY <1>1, TokensFacts, TextFacts DEF Shape
      <3> QED
        BY <1>1, <1>2, <3>1 DEF Plain!Complete, Plain!Ended
    <2>4. ended' \in [eog : BOOLEAN, cancelled : BOOLEAN]
      BY <2>1
    <2>5. CASE complete \/ ~(Size < MaxNew)
      BY <2>1, <2>2, <2>3, <2>4, <2>5
    <2>6. CASE ~complete /\ Size < MaxNew /\ ShouldStop
      BY <2>1, <2>2, <2>4, <2>6
    <2>7. CASE ~complete /\ Size < MaxNew /\ ~ShouldStop
      BY <1>2, <2>1, <2>2, <2>4, <2>7
    <2> QED
      BY <2>5, <2>6, <2>7
  <1>4. Shape'
    BY <1>1, <1>2, <1>3 DEF Shape, Known, Tokens, Size
  <1>5. Known(<<>>, 0) /\ Least({0, DraftCtx}) = 0 /\ text # <<>>
    <2>1. Known(<<>>, 0)
      BY <1>1, TokensFacts, FirstEmpty DEF Known
    <2>2. 0 \in Nat /\ DraftCtx \in Nat /\ 0 <= DraftCtx
      BY <1>1, TokensFacts
    <2>3. Least({0, DraftCtx}) = 0
      BY <2>2, LeastOfTwo
    <2> QED
      BY <1>1, <2>1, <2>3, TextFacts
  <1> Size' = 1 /\ Size' - 1 = 0 /\ Size - 1 = 0 /\ Tokens' = Tokens
    BY <1>1, <1>2 DEF Size, Tokens
  <1>6. BetweenRounds'
    BY <1>1, <1>2, <1>3, <1>5 DEF BetweenRounds, GoingOn, EndsWalk, Known
  <1>7. Returned'
    BY <1>1, <1>2, <1>3, <1>5 DEF Returned, Known, Plain!Complete, Plain!Ended
  <1> QED
    BY <1>3, <1>4, <1>6, <1>7 DEF IInv, BeforeFirst, AfterFirst, WithinRound

LEMMA PollInv ==
    ASSUME IInv, StopAtPoll \/ GoOn
    PROVE  IInv'
  <1>1. UNCHANGED <<stream, text, gen, round>> /\ Shape
    BY DEF IInv, StopAtPoll, GoOn, QuietUnchanged
  <1>2. CASE StopAtPoll
    <2>1. /\ pc' = "end" /\ ended'.cancelled /\ ended' \in [eog : BOOLEAN, cancelled : BOOLEAN]
          /\ pc \in {"first", "poll"}
      BY <1>1, <1>2 DEF StopAtPoll, Shape, At
    <2>2. Shape'
      BY <1>1, <2>1 DEF Shape, Known, Tokens, Size
    <2>3. text # <<>> => pc = "poll"
      BY <2>1 DEF IInv, BeforeFirst
    <2>4. Returned'
      <3>1. Size < MaxNew
        BY <2>1, NoneYet DEF IInv, BeforeFirst, BetweenRounds, Size
      <3> QED
        BY <1>1, <2>1, <2>3, <3>1 DEF IInv, BetweenRounds, Returned, Known, Tokens, Size
    <2> QED
      BY <2>1, <2>2, <2>4 DEF IInv, BeforeFirst, AfterFirst, BetweenRounds, WithinRound
  <1>3. CASE GoOn
    <2>1. pc = "poll" /\ pc' = "round" /\ UNCHANGED ended
      BY <1>3 DEF GoOn, At
    <2>2. Shape'
      BY <1>1, <2>1 DEF Shape, Known, Tokens, Size
    <2>3. BetweenRounds'
      BY <1>1, <2>1 DEF IInv, BetweenRounds, GoingOn, Known, Tokens, Size
    <2> QED
      BY <2>1, <2>2, <2>3 DEF IInv, BeforeFirst, AfterFirst, WithinRound, Returned
  <1> QED
    BY <1>2, <1>3

\* Between rounds: the next token exists, and id_last is where the cache ends.
LEMMA RoundFacts ==
    ASSUME IInv, pc = "round"
    PROVE  /\ Shape /\ GoingOn
           /\ Size \in Nat /\ Size >= 1 /\ Size < MaxNew /\ Size < Len(Tokens)
           /\ ~EndsWalk(Tokens[Size])
           /\ Known(gen.cache, Size - 1) /\ Len(gen.cache) = Size - 1
           /\ gen.nPast = Size - 1 /\ gen.drawn = Size /\ gen.idLast = Tokens[Size]
           /\ gen.presence = text /\ Known(text, Size)
           /\ Known(gen.drafter, Least({Size - 1, DraftCtx}))
           /\ Len(gen.drafter) = Least({Size - 1, DraftCtx})
  <1>1. Shape /\ BetweenRounds
    BY DEF IInv
  <1>2. /\ Size >= 1 /\ Size < MaxNew /\ ~EndsWalk(text[Size])
        /\ Size \in Nat /\ Size <= Len(Tokens) /\ text[Size] = Tokens[Size]
    BY <1>1, TextFacts DEF BetweenRounds
  <1>3. Size < Len(Tokens)
    BY <1>1, <1>2, GoesOn
  <1> QED
    BY <1>1, <1>2, <1>3 DEF BetweenRounds, Known, FirstOf, Shape

\* One row through the target: its draw is the next token of the reply, and
\* the drafter takes the row if it is live.
LEMMA PlainRoundInv ==
    ASSUME IInv, PlainRound
    PROVE  IInv'
  <1> DEFINE n == Size
             cache == Append(gen.cache, gen.idLast)
             token == Draw(cache, gen.presence, gen.drawn)
             drafter == IF SpecLive THEN Append(gen.drafter, gen.idLast) ELSE gen.drafter
  <1>1. pc = "round" /\ pc' = "emit" /\ UNCHANGED <<stream, text, ended>>
    BY DEF PlainRound, At, QuietUnchanged
  <1>2. /\ gen' = [gen EXCEPT !.cache = cache, !.drafter = drafter,
                              !.presence = Append(@, token), !.drawn = @ + 1, !.idLast = token]
        /\ round' = [span |-> <<>>, committed |-> <<token>>, emitted |-> 0]
    BY DEF PlainRound
  <1>3. /\ n \in Nat /\ n - 1 \in Nat /\ (n - 1) + 1 = n /\ n < Len(Tokens) /\ n < MaxNew
        /\ DraftCtx \in Nat /\ Tokens \in Seq(Word)
    BY <1>1, RoundFacts, TokensFacts
  <1>4. Known(cache, n)
    BY <1>1, <1>3, RoundFacts, FirstAppend DEF Known
  <1>5. token = Tokens[n + 1] /\ token \in Word
    <2>1. cache = gen.presence
      BY <1>1, <1>3, <1>4, RoundFacts, FirstSame DEF Known
    <2> QED
      BY <1>1, <1>3, <1>4, <2>1, RoundFacts, DrawIsNext DEF Known, Tokens
  <1>6. Known(Append(gen.presence, token), n + 1)
    BY <1>1, <1>3, <1>5, RoundFacts, FirstAppend DEF Known
  <1>7. Known(drafter, Least({n, DraftCtx}))
    <2>1. /\ Least({n - 1, DraftCtx}) = IF n - 1 <= DraftCtx THEN n - 1 ELSE DraftCtx
          /\ Least({n, DraftCtx}) = IF n <= DraftCtx THEN n ELSE DraftCtx
      BY <1>3, LeastOfTwo
    <2>2. CASE SpecLive
      <3>1. n - 1 < DraftCtx /\ Known(gen.drafter, n - 1)
        BY <1>1, <1>3, <2>1, <2>2, RoundFacts DEF SpecLive
      <3>2. Known(drafter, n)
        BY <1>1, <1>3, <2>2, <3>1, RoundFacts, FirstAppend DEF Known
      <3> QED
        BY <1>3, <2>1, <3>1, <3>2
    <2>3. CASE ~SpecLive
      <3>1. n - 1 >= DraftCtx
        BY <1>1, <1>3, <2>1, <2>3, RoundFacts DEF SpecLive
      <3>2. Least({n - 1, DraftCtx}) = Least({n, DraftCtx})
        BY <1>3, <2>1, <3>1
      <3> QED
        BY <1>1, <2>3, <3>2, RoundFacts
    <2> QED
      BY <2>2, <2>3
  <1> HIDE DEF cache, token, drafter
  <1>8. /\ gen'.cache = cache /\ gen'.drafter = drafter /\ gen'.presence = Append(gen.presence, token)
        /\ gen'.drawn = n + 1 /\ gen'.nPast = n - 1 /\ gen'.idLast = token
    BY <1>1, <1>2, RoundFacts DEF Shape
  <1>9. /\ round'.span = <<>> /\ round'.committed = <<token>> /\ round'.emitted = 0
        /\ Tokens' = Tokens /\ Size' = n /\ Base' = n /\ Count' = 1
    BY <1>1, <1>2, <1>3 DEF Tokens, Size, Base, Count
  <1>10. Shape'
    <2>1. cache \in Seq(Word) /\ drafter \in Seq(Word) /\ Append(gen.presence, token) \in Seq(Word)
      BY <1>4, <1>6, <1>7 DEF Known, FirstOf
    <2>2. gen' \in [cache : Seq(Word), drafter : Seq(Word), presence : Seq(Word),
                    drawn : Nat, nPast : Nat, idLast : Word]
      <3>1. gen \in [cache : Seq(Word), drafter : Seq(Word), presence : Seq(Word),
                     drawn : Nat, nPast : Nat, idLast : Word] /\ gen.drawn + 1 \in Nat
        BY <1>1, RoundFacts DEF Shape
      <3> QED
        BY <1>2, <1>5, <2>1, <3>1
    <2>3. round' \in [span : Seq(Word), committed : Seq(Word), emitted : Nat]
      BY <1>2, <1>5, EmptySeq
    <2> QED
      BY <1>1, <1>9, <2>2, <2>3, RoundFacts DEF Shape, Known
  <1>11. Committed'
    <2>1. \A i \in 0..0 : ~EndsWalk(Tokens[n + i])
      BY <1>1, <1>3, RoundFacts
    <2>2. \A i \in 1..1 : round'.committed[i] = Tokens[n + i]
      BY <1>3, <1>5, <1>9
    <2>3. n + 1 <= MaxNew /\ n + 1 <= Len(Tokens) /\ 1 - 1 = 0 /\ n >= 1
      BY <1>1, <1>3, RoundFacts, TokensFacts
    <2> QED
      BY <1>6, <1>8, <1>9, <2>1, <2>2, <2>3 DEF Committed, Known, EndsWalk
  <1>12. PlainRows' /\ VerifiedRows'
    BY <1>4, <1>5, <1>7, <1>8, <1>9 DEF PlainRows, VerifiedRows, Known
  <1>13. Emitting'
    BY <1>1, <1>9, RoundFacts DEF Emitting, GoingOn
  <1> QED
    BY <1>1, <1>10, <1>11, <1>12, <1>13
    DEF IInv, BeforeFirst, AfterFirst, BetweenRounds, WithinRound, Returned

---------------------------------------------------------------------------
(* A verify round.                                                         *)

\* The first rows of a span are the reply's, and there is more of it.
Right(span, i) ==
    Size - 1 + i < Len(Tokens) /\ \A j \in 1..i : span[j] = Tokens[Size - 1 + j]

\* On a context that is the reply so far, a row's draw is the next token.
LEMMA RowIsNext ==
    ASSUME IInv, pc = "round", NEW span \in Seq(Word), NEW i \in 1..Len(span), Right(span, i)
    PROVE  Row(span, i) = Tokens[Size + i]
  <1> DEFINE n == Size
             context == gen.cache \o SubSeq(span, 1, i)
             presence == gen.presence \o SubSeq(span, 2, i)
  <1>1. /\ n \in Nat /\ n >= 1 /\ i \in Nat /\ i >= 1 /\ Len(span) \in Nat /\ i <= Len(span)
        /\ Tokens \in Seq(Word) /\ Len(Tokens) \in Nat /\ n - 1 + i < Len(Tokens)
        /\ n - 1 \in Nat /\ i - 1 \in Nat /\ n - 1 + i \in Nat /\ n + (i - 1) = n - 1 + i
    <2>1. n \in Nat /\ n >= 1 /\ Tokens \in Seq(Word) /\ Len(Tokens) \in Nat
      BY RoundFacts, TokensFacts
    <2>2. n - 1 + i < Len(Tokens) /\ Len(span) \in Nat
      BY LenProperties DEF Right
    <2> QED
      BY <2>1, <2>2
  <1>2. \A j \in 1..i : span[j] = Tokens[n - 1 + j]
    BY DEF Right
  <1>3. /\ SubSeq(span, 1, i) \in Seq(Word) /\ Len(SubSeq(span, 1, i)) = i
        /\ \A j \in 1..i : SubSeq(span, 1, i)[j] = span[j]
    <2>1. \A j \in 1..i : span[j] \in Word
      BY <1>1, ElementOfSeq
    <2>2. 1 \in Int /\ i \in Int /\ i - 1 + 1 = i /\ 1 <= i
      BY <1>1
    <2> QED
      BY <1>1, <2>1, <2>2, SubSeqProperties
  <1>4. /\ SubSeq(span, 2, i) \in Seq(Word) /\ Len(SubSeq(span, 2, i)) = i - 1
        /\ \A j \in 1..(i - 1) : SubSeq(span, 2, i)[j] = span[j + 1]
    <2>1. \A j \in 2..i : span[j] \in Word
      BY <1>1, ElementOfSeq
    <2>2. /\ 2 \in Int /\ i \in Int /\ i - 2 + 1 = i - 1
          /\ (IF 2 <= i THEN i - 2 + 1 ELSE 0) = i - 1
          /\ \A j \in 1..(i - 1) : 2 + j - 1 = j + 1
      BY <1>1
    <2>3. /\ SubSeq(span, 2, i) \in Seq(Word)
          /\ Len(SubSeq(span, 2, i)) = IF 2 <= i THEN i - 2 + 1 ELSE 0
          /\ \A j \in 1..(i - 2 + 1) : SubSeq(span, 2, i)[j] = span[2 + j - 1]
      BY <2>1, <2>2, SubSeqProperties
    <2> QED
      BY <2>2, <2>3
  <1>5. Known(context, n - 1 + i)
    <2>1. \A j \in 1..i : SubSeq(span, 1, i)[j] = Tokens[(n - 1) + j]
      BY <1>2, <1>3
    <2>2. (n - 1) + i <= Len(Tokens) /\ Known(gen.cache, n - 1)
      BY <1>1, RoundFacts
    <2> DEFINE t == SubSeq(span, 1, i)
               k == n - 1
    <2>3. t \in Seq(Word) /\ Len(t) = i /\ k \in Nat /\ Tokens \in Seq(Word)
      BY <1>1, <1>3
    <2>4. k + Len(t) <= Len(Tokens) /\ \A j \in 1..Len(t) : t[j] = Tokens[k + j]
      BY <2>1, <2>2, <2>3
    <2>5. FirstOf(Tokens, gen.cache, k)
      BY <2>2 DEF Known
    <2> HIDE DEF t, k
    <2>6. FirstOf(Tokens, gen.cache \o t, k + Len(t))
      BY <2>3, <2>4, <2>5, FirstConcat
    <2> QED
      BY <2>3, <2>6 DEF Known, t, k
  <1>6. Known(presence, n - 1 + i)
    <2>1. \A j \in 1..(i - 1) : SubSeq(span, 2, i)[j] = Tokens[n + j]
      <3> TAKE j \in 1..(i - 1)
      <3>1. j + 1 \in 1..i /\ n - 1 + (j + 1) = n + j
        BY <1>1
      <3> QED
        BY <1>2, <1>4, <3>1
    <2>2. n + (i - 1) <= Len(Tokens) /\ Known(gen.presence, n)
      BY <1>1, RoundFacts
    <2>3. Known(presence, n + (i - 1))
      <3> DEFINE t == SubSeq(span, 2, i)
      <3>1. n + Len(t) <= Len(Tokens) /\ \A j \in 1..Len(t) : t[j] = Tokens[n + j]
        BY <1>4, <2>1, <2>2
      <3>2. Known(gen.presence \o t, n + Len(t))
        BY <1>1, <1>4, <2>2, <3>1, FirstConcat DEF Known
      <3> QED
        BY <1>4, <3>2
    <2> QED
      BY <1>1, <2>3
  <1>7. context = presence
    BY <1>1, <1>5, <1>6, FirstSame DEF Known
  <1>8. Draw(context, context, n - 1 + i) = Tokens[(n - 1 + i) + 1]
    BY <1>1, <1>5, DrawIsNext DEF Known, Tokens
  <1>9. gen.drawn + i - 1 = n - 1 + i /\ (n - 1 + i) + 1 = n + i
    BY <1>1, RoundFacts
  <1> QED
    BY <1>7, <1>8, <1>9 DEF Row

\* What a walk commits is the reply: up to its budget, and past no end.
LEMMA WalkCommitsTheReply ==
    ASSUME IInv, pc = "round", NEW span \in Seq(Word), Len(span) >= 1, span[1] = gen.idLast,
           NEW budget, budget = MaxNew - Size
    PROVE  \E rows \in 1..Len(span) :
              /\ Walked(span, budget) = [i \in 1..rows |-> Tokens[Size + i]]
              /\ rows <= budget /\ Size + rows <= Len(Tokens)
              /\ \A i \in 1..rows : span[i] = Tokens[Size - 1 + i]
              /\ \A i \in 0..(rows - 1) : ~EndsWalk(Tokens[Size + i])
  <1> DEFINE S == {i \in 1..Len(span) : WalkStops(span, i, budget)}
             rows == Least(S)
             Bad == {i \in 1..rows : ~Right(span, i)}
  <1>1. /\ Size \in Nat /\ Size >= 1 /\ Size < MaxNew /\ Size < Len(Tokens) /\ MaxNew \in Nat
        /\ Len(Tokens) \in Nat /\ Len(span) \in Nat /\ budget \in Nat /\ budget >= 1
        /\ gen.idLast = Tokens[Size] /\ ~EndsWalk(Tokens[Size]) /\ Shape
    BY RoundFacts, TokensFacts, LenProperties
  <1>2. /\ rows \in S /\ rows \in 1..Len(span) /\ rows \in Nat
        /\ \A m \in S : rows <= m
    <2>1. Len(span) \in S /\ S \subseteq Nat
      BY <1>1 DEF WalkStops
    <2> QED
      BY <2>1, LeastIsLeast
  <1>3. \A i \in 1..rows : i < rows => ~WalkStops(span, i, budget)
    BY <1>1, <1>2
  <1>4. rows <= budget
    <2>1. CASE budget <= Len(span)
      <3>1. budget \in S
        BY <1>1, <2>1 DEF WalkStops
      <3> QED
        BY <1>2, <3>1
    <2>2. CASE ~(budget <= Len(span))
      BY <1>1, <1>2, <2>2
    <2> QED
      BY <2>1, <2>2
  <1> HIDE DEF S, rows
  <1>5. ASSUME NEW i \in 1..rows, i < rows, Right(span, i)
        PROVE  Right(span, i + 1) /\ ~EndsWalk(Tokens[Size + i])
    <2>1. i \in 1..Len(span) /\ i \in Nat /\ i + 1 \in 1..Len(span)
      BY <1>1, <1>2, <1>5
    <2>2. Row(span, i) = Tokens[Size + i]
      BY <1>5, <2>1, RowIsNext
    <2>3. ~WalkStops(span, i, budget)
      BY <1>3, <1>5
    <2>4. span[i + 1] = Tokens[Size + i] /\ ~EndsWalk(Tokens[Size + i])
      BY <2>2, <2>3 DEF WalkStops
    <2>5. /\ Size + i \in Nat /\ Size + i >= 1 /\ Size + i <= Len(Tokens) /\ Size + i < MaxNew
          /\ Size - 1 + (i + 1) = Size + i
      BY <1>1, <1>2, <1>4, <1>5, <2>1 DEF Right
    <2>6. Size + i < Len(Tokens)
      BY <1>1, <2>4, <2>5, GoesOn
    <2>7. \A j \in 1..(i + 1) : span[j] = Tokens[Size - 1 + j]
      <3> TAKE j \in 1..(i + 1)
      <3>1. CASE j = i + 1
        BY <2>4, <2>5, <3>1
      <3>2. CASE j # i + 1
        <4>1. j \in 1..i
          BY <2>1, <3>2
        <4> QED
          BY <1>5, <4>1 DEF Right
      <3> QED
        BY <3>1, <3>2
    <2> QED
      BY <2>4, <2>5, <2>6, <2>7 DEF Right
  <1>6. Right(span, 1)
    BY <1>1 DEF Right
  <1>7. \A i \in 1..rows : Right(span, i)
    <2>1. SUFFICES ASSUME Bad # {} PROVE FALSE
      OBVIOUS
    <2>2. Bad \subseteq Nat
      BY <1>2
    <2>3. Least(Bad) \in Bad /\ \A m \in Bad : Least(Bad) <= m
      BY <2>1, <2>2, LeastIsLeast
    <2> DEFINE b == Least(Bad)
    <2>4. b \in 1..rows /\ ~Right(span, b) /\ b \in Nat
      BY <2>2, <2>3
    <2>5. b # 1
      BY <1>6, <2>4
    <2> HIDE DEF b
    <2>6. b - 1 \in 1..rows /\ b - 1 < rows /\ (b - 1) + 1 = b /\ ~(b <= b - 1)
      BY <1>2, <2>4, <2>5
    <2>7. Right(span, b - 1)
      <3> DEFINE c == b - 1
      <3>1. c \notin Bad
        BY <2>3, <2>6 DEF b
      <3> QED
        BY <2>6, <3>1
    <2>8. Right(span, (b - 1) + 1)
      BY <1>5, <2>6, <2>7
    <2> QED
      BY <2>4, <2>6, <2>8
  <1>8. \A i \in 1..rows : Row(span, i) = Tokens[Size + i]
    <2> TAKE i \in 1..rows
    <2>1. i \in 1..Len(span)
      BY <1>1, <1>2
    <2> QED
      BY <1>7, <2>1, RowIsNext
  <1>9. Walked(span, budget) = [i \in 1..rows |-> Tokens[Size + i]]
    BY <1>8 DEF Walked, rows, S
  <1>10. Size + rows <= Len(Tokens)
    <2>1. Right(span, rows)
      BY <1>2, <1>7
    <2> QED
      BY <1>1, <1>2, <2>1 DEF Right
  <1>11. \A i \in 1..rows : span[i] = Tokens[Size - 1 + i]
    <2> TAKE i \in 1..rows
    <2>1. Right(span, i) /\ i \in 1..i
      BY <1>2, <1>7
    <2> QED
      BY <2>1 DEF Right
  <1>12. \A i \in 0..(rows - 1) : ~EndsWalk(Tokens[Size + i])
    <2> TAKE i \in 0..(rows - 1)
    <2>1. CASE i = 0
      <3>1. Size + i = Size
        BY <1>1, <2>1
      <3> QED
        BY <1>1, <3>1
    <2>2. CASE i # 0
      <3>1. i \in 1..rows /\ i < rows
        BY <1>2, <2>2
      <3> QED
        BY <1>5, <1>7, <3>1
    <2> QED
      BY <2>1, <2>2
  <1> QED
    BY <1>2, <1>4, <1>9, <1>10, <1>11, <1>12

\* What is drafted fits the drafter's cache, behind the anchor.
LEMMA DraftsFit ==
    ASSUME IInv, pc = "round", SpecLive, NEW drafts \in Drafts
    PROVE  drafts \in Seq(Word) /\ Len(drafts) \in Nat /\ gen.nPast + 1 + Len(drafts) <= DraftCtx
  <1> DEFINE Rooms == {DraftMax} \cup {IF ctx > gen.nPast THEN ctx - gen.nPast - 1 ELSE 0 :
                                       ctx \in {MaxCtx, DraftCtx}}
             ahead == SubSeq(stream.tokens, gen.drawn + 1, Len(stream.tokens))
  <1>1. /\ Tokens \in Seq(Word) /\ Len(Tokens) \in Nat /\ gen.nPast \in Nat /\ gen.drawn \in Nat
        /\ DraftCtx \in Nat /\ DraftMax \in Nat /\ MaxCtx \in Nat /\ gen.nPast < DraftCtx
    <2>1. Shape
      BY DEF IInv
    <2>2. gen.nPast \in Nat /\ gen.drawn \in Nat
      BY <2>1 DEF Shape
    <2> QED
      BY <2>1, <2>2, TokensFacts DEF SpecLive
  <1>2. DraftRoom \in Nat /\ DraftRoom <= DraftCtx - gen.nPast - 1
    <2>1. Rooms \subseteq Nat /\ Rooms # {} /\ DraftCtx - gen.nPast - 1 \in Rooms
      BY <1>1
    <2>2. DraftRoom = Least(Rooms)
      BY DEF DraftRoom
    <2> HIDE DEF Rooms
    <2> QED
      BY <2>1, <2>2, LeastIsLeast
  <1>3. ahead \in Seq(Word) /\ Len(ahead) \in Nat
    <2>1. \A i \in (gen.drawn + 1)..Len(Tokens) : Tokens[i] \in Word
      BY <1>1, ElementOfSeq
    <2>2. ahead \in Seq(Word)
      BY <1>1, <2>1, SubSeqProperties DEF Tokens
    <2> QED
      BY <2>2, LenProperties
  <1>4. PICK g \in [right : 0..Len(ahead), wrong : 0..DraftRoom] :
           /\ g.right + g.wrong <= DraftRoom
           /\ drafts = SubSeq(ahead, 1, g.right) \o [i \in 1..g.wrong |-> "wrong"]
    BY DEF Drafts
  <1> HIDE DEF ahead
  <1> DEFINE m == g.right
             wrong == [i \in 1..g.wrong |-> "wrong"]
  <1>5. m \in Nat /\ m <= Len(ahead) /\ g.wrong \in Nat /\ m + g.wrong <= DraftRoom
    BY <1>2, <1>3, <1>4
  <1>6. SubSeq(ahead, 1, m) \in Seq(Word) /\ Len(SubSeq(ahead, 1, m)) = m
    <2>1. \A i \in 1..m : ahead[i] \in Word
      BY <1>3, <1>5, ElementOfSeq
    <2>2. SubSeq(ahead, 1, m) \in Seq(Word) /\ Len(SubSeq(ahead, 1, m)) = IF 1 <= m THEN m - 1 + 1 ELSE 0
      BY <1>5, <2>1, SubSeqProperties
    <2> QED
      BY <1>5, <2>2
  <1>7. wrong \in Seq(Word) /\ Len(wrong) = g.wrong
    <2>1. "wrong" \in Word
      BY DEF Word
    <2> QED
      BY <1>5, <2>1
  <1> HIDE DEF wrong
  <1>8. drafts = SubSeq(ahead, 1, m) \o wrong
    BY <1>4 DEF wrong
  <1>9. drafts \in Seq(Word) /\ Len(drafts) = m + Len(wrong)
    BY <1>6, <1>7, <1>8, ConcatProperties
  <1> QED
    BY <1>1, <1>2, <1>5, <1>7, <1>9

\* The walk leaves the target's cache ahead of the reply by what was drafted.
LEMMA VerifyRoundInv ==
    ASSUME IInv, NEW drafts \in Drafts, VerifyRound(drafts)
    PROVE  IInv'
  <1> DEFINE n == Size
             span == <<gen.idLast>> \o drafts
             committed == Walked(span, MaxNew - Len(text))
  <1>1. pc = "round" /\ pc' = "emit" /\ SpecLive /\ UNCHANGED <<stream, text, ended>>
    BY DEF VerifyRound, At, QuietUnchanged
  <1>2. /\ gen' = [gen EXCEPT !.cache = @ \o span, !.presence = @ \o committed,
                              !.drawn = @ + Len(committed)]
        /\ round' = [span |-> span, committed |-> committed, emitted |-> 0]
    BY DEF VerifyRound
  <1>3. /\ n \in Nat /\ n >= 1 /\ n - 1 \in Nat /\ n < Len(Tokens) /\ n < MaxNew
        /\ DraftCtx \in Nat /\ MaxNew \in Nat /\ Tokens \in Seq(Word) /\ Len(Tokens) \in Nat
        /\ gen.idLast \in Word /\ gen.cache \in Seq(Word) /\ gen.presence \in Seq(Word)
        /\ gen.drafter \in Seq(Word)
    <2>1. Shape
      BY DEF IInv
    <2> QED
      BY <1>1, <2>1, RoundFacts, TokensFacts DEF Shape
  <1>4. /\ span \in Seq(Word) /\ Len(span) \in Nat /\ Len(span) >= 1 /\ span[1] = gen.idLast
        /\ n - 1 + Len(span) <= DraftCtx /\ span # <<>>
    <2>1. drafts \in Seq(Word) /\ Len(drafts) \in Nat /\ n - 1 + 1 + Len(drafts) <= DraftCtx
      BY <1>1, DraftsFit, RoundFacts
    <2>2. <<gen.idLast>> \in Seq(Word) /\ Len(<<gen.idLast>>) = 1
      BY <1>3
    <2>3. /\ span \in Seq(Word) /\ Len(span) = 1 + Len(drafts)
          /\ \A i \in 1..(1 + Len(drafts)) :
                span[i] = IF i <= 1 THEN <<gen.idLast>>[i] ELSE drafts[i - 1]
      BY <2>1, <2>2, ConcatProperties
    <2>4. span[1] = gen.idLast
      BY <2>1, <2>3
    <2> QED
      BY <1>3, <2>1, <2>3, <2>4, EmptySeq
  <1> HIDE DEF span
  <1>5. PICK rows \in 1..Len(span) :
           /\ committed = [i \in 1..rows |-> Tokens[n + i]]
           /\ rows <= MaxNew - n /\ n + rows <= Len(Tokens)
           /\ \A i \in 1..rows : span[i] = Tokens[n - 1 + i]
           /\ \A i \in 0..(rows - 1) : ~EndsWalk(Tokens[n + i])
    BY <1>1, <1>4, WalkCommitsTheReply DEF Size
  <1>6. /\ committed \in Seq(Word) /\ Len(committed) = rows /\ rows \in Nat /\ rows >= 1
        /\ \A i \in 1..rows : committed[i] = Tokens[n + i]
    <2>1. rows \in Nat /\ rows >= 1 /\ \A i \in 1..rows : n + i \in 1..Len(Tokens)
      BY <1>3, <1>4, <1>5
    <2>2. \A i \in 1..rows : Tokens[n + i] \in Word
      BY <1>3, <2>1, ElementOfSeq
    <2> HIDE DEF committed
    <2> QED
      BY <1>5, <2>1, <2>2
  <1> HIDE DEF committed
  <1>7. Known(gen.presence \o committed, n + rows)
    <2>1. n + Len(committed) <= Len(Tokens) /\ Known(gen.presence, n)
          /\ \A i \in 1..Len(committed) : committed[i] = Tokens[n + i]
      BY <1>1, <1>5, <1>6, RoundFacts
    <2>2. Known(gen.presence \o committed, n + Len(committed))
      BY <1>3, <1>6, <2>1, FirstConcat DEF Known
    <2> QED
      BY <1>6, <2>2
  <1>8. /\ gen.cache \o span \in Seq(Word) /\ Len(gen.cache \o span) = n - 1 + Len(span)
        /\ \A i \in 1..(n - 1 + rows) : (gen.cache \o span)[i] = Tokens[i]
    <2>1. Len(gen.cache) = n - 1 /\ \A i \in 1..(n - 1) : gen.cache[i] = Tokens[i]
      BY <1>1, RoundFacts DEF Known, FirstOf
    <2>2. /\ gen.cache \o span \in Seq(Word) /\ Len(gen.cache \o span) = n - 1 + Len(span)
          /\ \A i \in 1..(n - 1 + Len(span)) :
                (gen.cache \o span)[i] = IF i <= n - 1 THEN gen.cache[i] ELSE span[i - (n - 1)]
      <3> DEFINE s == gen.cache \o span
      <3>1. /\ s \in Seq(Word) /\ Len(s) = Len(gen.cache) + Len(span)
            /\ \A i \in 1..(Len(gen.cache) + Len(span)) :
                  s[i] = IF i <= Len(gen.cache) THEN gen.cache[i] ELSE span[i - Len(gen.cache)]
        BY <1>3, <1>4, ConcatProperties
      <3> HIDE DEF s
      <3>2. /\ s \in Seq(Word) /\ Len(s) = n - 1 + Len(span)
            /\ \A i \in 1..(n - 1 + Len(span)) :
                  s[i] = IF i <= n - 1 THEN gen.cache[i] ELSE span[i - (n - 1)]
        BY <2>1, <3>1
      <3> QED
        BY <3>2 DEF s
    <2>3. ASSUME NEW i \in 1..(n - 1 + rows) PROVE (gen.cache \o span)[i] = Tokens[i]
      <3>1. i \in 1..(n - 1 + Len(span)) /\ i \in Nat
        BY <1>3, <1>4, <1>5
      <3>2. CASE i <= n - 1
        BY <1>3, <2>1, <2>2, <3>1, <3>2
      <3>3. CASE ~(i <= n - 1)
        <4>1. i - (n - 1) \in 1..rows /\ n - 1 + (i - (n - 1)) = i
          BY <1>3, <1>6, <3>1, <3>3
        <4>2. span[i - (n - 1)] = Tokens[i]
          BY <1>5, <4>1
        <4> QED
          BY <2>2, <3>1, <3>3, <4>2
      <3> QED
        BY <3>2, <3>3
    <2> QED
      BY <2>2, <2>3
  <1>9. Known(gen.drafter, n - 1)
    <2>1. Len(gen.drafter) = n - 1 /\ Known(gen.drafter, Least({n - 1, DraftCtx}))
          /\ Len(gen.drafter) = Least({n - 1, DraftCtx})
      BY <1>1, RoundFacts DEF SpecLive
    <2> QED
      BY <2>1
  <1>10. /\ gen'.cache = gen.cache \o span /\ gen'.drafter = gen.drafter
         /\ gen'.presence = gen.presence \o committed /\ gen'.drawn = n + rows
         /\ gen'.nPast = n - 1 /\ gen'.idLast = Tokens[n]
    BY <1>1, <1>2, <1>6, RoundFacts DEF Shape
  <1>11. /\ round'.span = span /\ round'.committed = committed /\ round'.emitted = 0
         /\ Tokens' = Tokens /\ Size' = n /\ Base' = n /\ Count' = rows
    BY <1>1, <1>2, <1>3, <1>6 DEF Tokens, Size, Base, Count
  <1>12. Shape'
    <2>1. gen \in [cache : Seq(Word), drafter : Seq(Word), presence : Seq(Word),
                   drawn : Nat, nPast : Nat, idLast : Word] /\ gen.drawn + Len(committed) \in Nat
      BY <1>1, <1>6, RoundFacts DEF Shape
    <2>2. gen.presence \o committed \in Seq(Word)
      BY <1>7 DEF Known, FirstOf
    <2>3. gen' \in [cache : Seq(Word), drafter : Seq(Word), presence : Seq(Word),
                    drawn : Nat, nPast : Nat, idLast : Word]
      BY <1>2, <1>8, <2>1, <2>2
    <2>4. round' \in [span : Seq(Word), committed : Seq(Word), emitted : Nat]
      BY <1>2, <1>4, <1>6
    <2> QED
      BY <1>1, <1>11, <2>3, <2>4, RoundFacts DEF Shape, Known
  <1>13. Committed'
    <2>1. n + rows <= MaxNew /\ 0 <= rows
      BY <1>3, <1>5, <1>6
    <2> QED
      BY <1>3, <1>5, <1>6, <1>7, <1>10, <1>11, <2>1 DEF Committed, Known, EndsWalk
  <1>14. PlainRows' /\ VerifiedRows'
    <2>1. rows <= Len(span)
      BY <1>4, <1>5
    <2>2. Known(gen.drafter, n - 1)' /\ round'.span # <<>>
      BY <1>4, <1>9, <1>10, <1>11 DEF Known
    <2> QED
      BY <1>4, <1>5, <1>8, <1>10, <1>11, <2>1, <2>2 DEF PlainRows, VerifiedRows
  <1>15. Emitting'
    BY <1>1, <1>6, <1>11, RoundFacts DEF Emitting, GoingOn
  <1> QED
    BY <1>1, <1>12, <1>13, <1>14, <1>15
    DEF IInv, BeforeFirst, AfterFirst, BetweenRounds, WithinRound, Returned

---------------------------------------------------------------------------
(* The emit loop.                                                          *)

LEMMA WithinFacts ==
    ASSUME IInv, pc \in {"emit", "emitted", "commit"}
    PROVE  /\ Shape /\ Committed /\ PlainRows /\ VerifiedRows /\ Emitting
           /\ Size \in Nat /\ round.emitted \in Nat /\ Count \in Nat /\ Base \in Nat
           /\ Size = Base + round.emitted /\ Base >= 1 /\ Count >= 1 /\ Size >= 1
           /\ round.emitted <= Count /\ Size <= MaxNew
           /\ Base + Count <= MaxNew /\ Base + Count <= Len(Tokens)
           /\ MaxNew \in Nat /\ Len(Tokens) \in Nat /\ DraftCtx \in Nat /\ Tokens \in Seq(Word)
           /\ round.span \in Seq(Word) /\ round.committed \in Seq(Word)
  <1>1. Shape /\ Committed /\ PlainRows /\ VerifiedRows /\ Emitting
    BY DEF IInv, WithinRound
  <1>2. round.emitted \in Nat /\ round.span \in Seq(Word) /\ round.committed \in Seq(Word)
    BY <1>1 DEF Shape
  <1>3. Count \in Nat
    BY <1>2, LenProperties DEF Count
  <1>4. Size \in Nat /\ Size <= MaxNew
    BY <1>1, TokensFacts DEF Shape
  <1> QED
    BY <1>1, <1>2, <1>3, <1>4, TokensFacts DEF Committed, Base

\* A step within the emit loop leaves what the round committed as it was.
LEMMA RoundKept ==
    ASSUME Committed, PlainRows, VerifiedRows, UNCHANGED <<stream, gen>>,
           round'.span = round.span, round'.committed = round.committed,
           Base' = Base, round'.emitted <= Count
    PROVE  Committed' /\ PlainRows' /\ VerifiedRows'
  <1>1. Count' = Count /\ Tokens' = Tokens
    BY DEF Count, Tokens
  <1>2. Committed'
    BY <1>1 DEF Committed, Known, FirstOf
  <1>3. PlainRows'
    BY <1>1 DEF PlainRows, Known, FirstOf
  <1>4. VerifiedRows'
    BY <1>1 DEF VerifiedRows, Known, FirstOf
  <1> QED
    BY <1>2, <1>3, <1>4

\* What Emit takes up is the next token; and there was one to report.
LEMMA EmitTakesTheNext ==
    ASSUME IInv, Emit
    PROVE  /\ round.committed[round.emitted + 1] = Tokens[Size + 1]
           /\ round.emitted < Count /\ GoingOn /\ Size < MaxNew /\ Size < Len(Tokens)
           /\ ~EndsWalk(Tokens[Size])
           /\ Tokens[Size + 1] = "eog" => round.emitted = Count - 1
  <1>1. pc = "emit"
    BY DEF Emit, At
  <1>2. round.emitted < Count /\ GoingOn
    BY <1>1, WithinFacts DEF Emitting
  <1>3. /\ round.emitted + 1 \in 1..Count /\ Base + (round.emitted + 1) = Size + 1
        /\ round.emitted \in 0..(Count - 1) /\ Base + round.emitted = Size
        /\ Size < MaxNew /\ Size < Len(Tokens)
    <2>1. /\ Size \in Nat /\ round.emitted \in Nat /\ Count \in Nat /\ Base \in Nat
          /\ Size = Base + round.emitted /\ MaxNew \in Nat /\ Len(Tokens) \in Nat
          /\ Base + Count <= MaxNew /\ Base + Count <= Len(Tokens)
      BY <1>1, WithinFacts
    <2> QED
      BY <1>2, <2>1
  <1>4. round.committed[round.emitted + 1] = Tokens[Size + 1] /\ ~EndsWalk(Tokens[Size])
    BY <1>1, <1>3, WithinFacts DEF Committed
  <1>5. ASSUME Tokens[Size + 1] = "eog" PROVE round.emitted = Count - 1
    <2>1. SUFFICES ASSUME round.emitted # Count - 1 PROVE FALSE
      OBVIOUS
    <2>2. round.emitted + 1 \in 0..(Count - 1)
      BY <1>1, <1>2, <2>1, WithinFacts
    <2>3. ~EndsWalk(Tokens[Base + (round.emitted + 1)])
      BY <1>1, <2>2, WithinFacts DEF Committed
    <2> QED
      BY <1>3, <1>5, <2>3 DEF EndsWalk
  <1> QED
    BY <1>2, <1>3, <1>4, <1>5

LEMMA EmitInv ==
    ASSUME IInv, Emit
    PROVE  IInv'
  <1>1. pc = "emit" /\ UNCHANGED <<stream, gen>>
    BY DEF Emit, At, QuietUnchanged
  <1>2. Tokens' = Tokens
    BY <1>1 DEF Tokens
  <1>3. CASE Tokens[Size + 1] = "eog"
    <2>1. /\ ended' = [ended EXCEPT !.eog = TRUE] /\ pc' = "commit"
          /\ UNCHANGED <<text, round>>
      BY <1>3, EmitTakesTheNext DEF Emit
    <2>2. Size' = Size /\ Base' = Base /\ Count' = Count
      BY <2>1 DEF Size, Base, Count
    <2>3. Committed' /\ PlainRows' /\ VerifiedRows'
      BY <1>1, <2>1, <2>2, RoundKept, WithinFacts
    <2>4. /\ ended' \in [eog : BOOLEAN, cancelled : BOOLEAN]
          /\ ended'.eog /\ ended'.cancelled = ended.cancelled
      BY <1>1, <2>1, WithinFacts DEF Shape
    <2>5. Emitting'
      BY <1>2, <1>3, <2>1, <2>2, <2>4, EmitTakesTheNext DEF Emitting, GoingOn
    <2>6. Shape'
      BY <1>1, <1>2, <2>1, <2>2, <2>4, WithinFacts DEF Shape, Known
    <2> QED
      BY <2>1, <2>3, <2>5, <2>6
      DEF IInv, BeforeFirst, AfterFirst, BetweenRounds, WithinRound, Returned
  <1>4. CASE Tokens[Size + 1] # "eog"
    <2>1. /\ text' = Append(text, Tokens[Size + 1]) /\ pc' = "emitted" /\ UNCHANGED ended
          /\ round' = [round EXCEPT !.emitted = @ + 1]
      BY <1>4, EmitTakesTheNext DEF Emit, ReportToken
    <2>2. /\ round'.span = round.span /\ round'.committed = round.committed
          /\ round'.emitted = round.emitted + 1 /\ Count' = Count
          /\ round' \in [span : Seq(Word), committed : Seq(Word), emitted : Nat]
      <3>1. round \in [span : Seq(Word), committed : Seq(Word), emitted : Nat]
        BY <1>1, WithinFacts DEF Shape
      <3>2. round' = [round EXCEPT !.emitted = @ + 1] /\ round.emitted + 1 \in Nat
        BY <2>1, <3>1
      <3>3. /\ round'.span = round.span /\ round'.committed = round.committed
            /\ round'.emitted = round.emitted + 1
        BY <3>1, <3>2
      <3>4. round' \in [span : Seq(Word), committed : Seq(Word), emitted : Nat]
        BY <3>1, <3>2
      <3> QED
        BY <3>3, <3>4 DEF Count
    <2>3. Known(text', Size + 1) /\ Size' = Size + 1
      <3>1. Known(text, Size)
        BY <1>1, WithinFacts DEF Shape
      <3>2. Known(Append(text, Tokens[Size + 1]), Size + 1)
        BY <1>1, <3>1, WithinFacts, EmitTakesTheNext, FirstAppend DEF Known
      <3> QED
        BY <2>1, <3>2 DEF Known, FirstOf, Size
    <2>4. Base' = Base
      <3>1. Base' = Size' - round'.emitted /\ Base = Size - round.emitted
        BY DEF Base
      <3>2. Size \in Nat /\ round.emitted \in Nat
        BY <1>1, WithinFacts
      <3> QED
        BY <2>2, <2>3, <3>1, <3>2
    <2>5. Committed' /\ PlainRows' /\ VerifiedRows'
      <3>1. round'.emitted <= Count
        BY <1>1, <2>2, WithinFacts, EmitTakesTheNext
      <3> QED
        BY <1>1, <2>2, <2>4, <3>1, RoundKept, WithinFacts
    <2>6. Emitting'
      <3>1. text'[Size'] # "eog" /\ round'.emitted >= 1
        <4>1. Size + 1 \in 1..(Size + 1) /\ round.emitted + 1 >= 1
          BY <1>1, WithinFacts
        <4>2. text'[Size + 1] = Tokens[Size + 1]
          BY <2>3, <4>1 DEF Known, FirstOf
        <4> QED
          BY <1>4, <2>2, <2>3, <4>1, <4>2
      <3> QED
        BY <2>1, <3>1, EmitTakesTheNext DEF Emitting, GoingOn
    <2>7. Shape'
      <3>1. Size + 1 <= MaxNew
        BY <1>1, WithinFacts, EmitTakesTheNext
      <3> QED
        BY <1>1, <1>2, <2>1, <2>2, <2>3, <3>1, WithinFacts DEF Shape, Known
    <2> QED
      BY <2>1, <2>5, <2>6, <2>7
      DEF IInv, BeforeFirst, AfterFirst, BetweenRounds, WithinRound, Returned
  <1> QED
    BY <1>3, <1>4

LEMMA EmittedInv ==
    ASSUME IInv, Emitted
    PROVE  IInv'
  <1> DEFINE capped == Len(text) >= MaxNew
             stops == ~capped /\ ShouldStop
             spent == round.emitted = Len(round.committed)
  <1>1. /\ pc = "emitted" /\ UNCHANGED <<stream, text, gen, round>>
        /\ ended' = [ended EXCEPT !.cancelled = stops]
        /\ pc' = IF capped \/ stops \/ spent THEN "commit" ELSE "emit"
    BY DEF Emitted, At, QuietUnchanged
  <1>2. Tokens' = Tokens /\ Size' = Size /\ Base' = Base /\ Count' = Count
    BY <1>1 DEF Tokens, Size, Base, Count
  <1>3. Committed' /\ PlainRows' /\ VerifiedRows'
    BY <1>1, <1>2, RoundKept, WithinFacts
  <1>4. round.emitted >= 1 /\ text[Size] # "eog" /\ GoingOn
    BY <1>1, WithinFacts DEF Emitting
  <1>5. /\ ended' \in [eog : BOOLEAN, cancelled : BOOLEAN] /\ ended'.eog = ended.eog
        /\ ended'.cancelled = stops
    BY <1>1, WithinFacts DEF Shape
  <1>6. capped => Size = MaxNew
    BY <1>1, WithinFacts DEF Size
  <1>7. stops => Size < MaxNew
    BY WithinFacts, <1>1 DEF Size
  <1>8. Emitting'
    <2>1. CASE capped \/ spent
      <3>1. pc' = "commit" /\ ~ended'.eog
        BY <1>1, <1>4, <1>5, <2>1 DEF GoingOn
      <3> QED
        BY <1>1, <1>2, <1>4, <1>5, <1>6, <1>7, <2>1, <3>1 DEF Emitting, Count
    <2>2. CASE ~capped /\ ~spent /\ ShouldStop
      <3>1. pc' = "commit" /\ ~ended'.eog /\ ended'.cancelled
        BY <1>1, <1>4, <1>5, <2>2 DEF GoingOn
      <3> QED
        BY <1>1, <1>2, <1>4, <1>7, <2>2, <3>1 DEF Emitting
    <2>3. CASE ~capped /\ ~spent /\ ~ShouldStop
      <3>1. pc' = "emit" /\ ~ended'.eog /\ ~ended'.cancelled
        BY <1>1, <1>4, <1>5, <2>3 DEF GoingOn
      <3>2. round.emitted < Count
        BY <1>1, <2>3, WithinFacts DEF Count
      <3> QED
        BY <1>1, <1>2, <3>1, <3>2 DEF Emitting, GoingOn
    <2> QED
      BY <2>1, <2>2, <2>3
  <1>9. Shape'
    BY <1>1, <1>2, <1>5, WithinFacts DEF Shape, Known
  <1> QED
    BY <1>1, <1>3, <1>8, <1>9
    DEF IInv, BeforeFirst, AfterFirst, BetweenRounds, WithinRound, Returned

---------------------------------------------------------------------------
(* The rollback.                                                           *)

\* Either drafter is given the rows of the reply, the anchor first.
LEMMA SyncRowsAreTheReply ==
    ASSUME IInv, pc = "commit", round.span # <<>>, NEW keep \in 1..Count
    PROVE  /\ SyncRows(keep) \in Seq(Word) /\ Len(SyncRows(keep)) = keep
           /\ \A i \in 1..keep : SyncRows(keep)[i] = Tokens[Base - 1 + i]
  <1>1. /\ Base \in Nat /\ Base >= 1 /\ Count \in Nat /\ keep \in Nat /\ keep >= 1 /\ keep <= Count
        /\ round.span \in Seq(Word) /\ round.committed \in Seq(Word)
        /\ Base + Count <= Len(Tokens) /\ Len(Tokens) \in Nat /\ Tokens \in Seq(Word)
    BY WithinFacts
  <1>2. /\ Count <= Len(round.span) /\ gen.idLast = Tokens[Base]
        /\ \A i \in 1..Count : round.span[i] = Tokens[Base - 1 + i]
        /\ \A i \in 1..Count : round.committed[i] = Tokens[Base + i]
    BY WithinFacts DEF VerifiedRows, Committed
  <1>3. CASE stream.drafter = "dflash"
    <2> DEFINE rows == SubSeq(round.span, 1, keep)
    <2>1. \A i \in 1..keep : i \in 1..Count /\ i \in 1..Len(round.span) /\ round.span[i] \in Word
      BY <1>1, <1>2, ElementOfSeq, LenProperties
    <2>2. /\ rows \in Seq(Word) /\ Len(rows) = IF 1 <= keep THEN keep - 1 + 1 ELSE 0
          /\ \A i \in 1..(keep - 1 + 1) : rows[i] = round.span[1 + i - 1]
      BY <1>1, <2>1, SubSeqProperties
    <2> HIDE DEF rows
    <2>3. Len(rows) = keep /\ \A i \in 1..keep : rows[i] = round.span[i]
      BY <1>1, <2>2
    <2>4. \A i \in 1..keep : rows[i] = Tokens[Base - 1 + i]
      BY <1>2, <2>1, <2>3
    <2> QED
      BY <1>3, <2>2, <2>3, <2>4 DEF SyncRows, rows
  <1>4. CASE stream.drafter # "dflash"
    <2> DEFINE tail == SubSeq(round.committed, 1, keep - 1)
               rows == <<gen.idLast>> \o tail
    <2>1. \A i \in 1..(keep - 1) : round.committed[i] \in Word
      BY <1>1, ElementOfSeq DEF Count
    <2>2. /\ tail \in Seq(Word) /\ Len(tail) = IF 1 <= keep - 1 THEN keep - 1 - 1 + 1 ELSE 0
          /\ \A i \in 1..(keep - 1 - 1 + 1) : tail[i] = round.committed[1 + i - 1]
      BY <1>1, <2>1, SubSeqProperties
    <2> HIDE DEF tail
    <2>3. Len(tail) = keep - 1 /\ \A i \in 1..(keep - 1) : tail[i] = round.committed[i]
      BY <1>1, <2>2
    <2>4. Tokens[Base] \in Word
      BY <1>1, ElementOfSeq
    <2>5. <<gen.idLast>> \in Seq(Word) /\ Len(<<gen.idLast>>) = 1
      BY <1>2, <2>4
    <2>6. /\ rows \in Seq(Word) /\ Len(rows) = 1 + Len(tail)
          /\ \A i \in 1..(1 + Len(tail)) :
                rows[i] = IF i <= 1 THEN <<gen.idLast>>[i] ELSE tail[i - 1]
      BY <2>2, <2>5, ConcatProperties
    <2> HIDE DEF rows
    <2>7. Len(rows) = keep
      BY <1>1, <2>3, <2>6
    <2>8. ASSUME NEW i \in 1..keep PROVE rows[i] = Tokens[Base - 1 + i]
      <3>1. CASE i = 1
        <4>1. rows[1] = gen.idLast /\ Base - 1 + 1 = Base
          BY <1>1, <2>6, <2>7
        <4> QED
          BY <1>2, <3>1, <4>1
      <3>2. CASE i # 1
        <4>1. /\ i - 1 \in 1..(keep - 1) /\ i - 1 \in 1..Count /\ ~(i <= 1)
              /\ Base + (i - 1) = Base - 1 + i /\ i \in 1..(1 + Len(tail))
          BY <1>1, <2>3, <3>2
        <4>2. rows[i] = tail[i - 1]
          BY <2>6, <4>1
        <4>3. tail[i - 1] = round.committed[i - 1]
          BY <2>3, <4>1
        <4> QED
          BY <1>2, <4>1, <4>2, <4>3
      <3> QED
        BY <3>1, <3>2
    <2> QED
      BY <1>4, <2>6, <2>7, <2>8 DEF SyncRows, rows, tail
  <1> QED
    BY <1>3, <1>4

\* However far the emit got, what is kept in both caches is the reply, up to
\* the rows the round may keep.
LEMMA CommitKeeps ==
    ASSUME IInv, Commit
    PROVE  \E keep \in 1..Count :
              /\ keep = IF Count <= round.emitted + 1 THEN Count ELSE round.emitted + 1
              /\ gen' \in [cache : Seq(Word), drafter : Seq(Word), presence : Seq(Word),
                           drawn : Nat, nPast : Nat, idLast : Word]
              /\ gen'.nPast = Base - 1 + keep /\ Known(gen'.cache, Base - 1 + keep)
              /\ Known(gen'.drafter, Least({Base - 1 + keep, DraftCtx}))
              /\ gen'.presence = text /\ gen'.drawn = Base + Count
              /\ gen'.idLast = Tokens[Base + Count]
  <1> DEFINE keep == VerifyKeep(Len(round.committed), round.emitted)
             presence == SubSeq(gen.presence, 1, Len(text))
             p == Base - 1 + keep
  <1>1. /\ pc = "commit"
        /\ gen' = IF round.span = <<>>
                  THEN [gen EXCEPT !.presence = presence, !.nPast = @ + 1]
                  ELSE [gen EXCEPT !.presence = presence, !.nPast = @ + keep,
                                   !.cache = SubSeq(@, 1, gen.nPast + keep),
                                   !.drafter = @ \o SyncRows(keep),
                                   !.idLast = Last(round.committed)]
    BY DEF Commit, At
  <1>2. /\ Base \in Nat /\ Base >= 1 /\ Count \in Nat /\ Count >= 1 /\ round.emitted \in Nat
        /\ round.emitted <= Count /\ Size = Base + round.emitted /\ Size \in Nat
        /\ Base + Count <= Len(Tokens) /\ Len(Tokens) \in Nat /\ Tokens \in Seq(Word)
        /\ DraftCtx \in Nat /\ round.committed \in Seq(Word) /\ round.span \in Seq(Word)
    BY <1>1, WithinFacts
  <1>3. /\ gen \in [cache : Seq(Word), drafter : Seq(Word), presence : Seq(Word),
                    drawn : Nat, nPast : Nat, idLast : Word]
        /\ gen.nPast = Base - 1 /\ gen.drawn = Base + Count
        /\ Known(gen.presence, Base + Count) /\ Known(text, Size)
        /\ \A i \in 1..Count : round.committed[i] = Tokens[Base + i]
    BY <1>1, WithinFacts DEF Committed, Shape
  <1>4. keep = IF Count <= round.emitted + 1 THEN Count ELSE round.emitted + 1
    <2>1. Least({Count, round.emitted + 1}) =
             IF Count <= round.emitted + 1 THEN Count ELSE round.emitted + 1
      BY <1>2, LeastOfTwo
    <2> QED
      BY <2>1 DEF VerifyKeep, Count
  <1>5. keep \in 1..Count /\ keep \in Nat /\ p \in Nat /\ p <= Len(Tokens)
    BY <1>2, <1>4
  <1>6. presence = text
    <2>1. Size \in 0..(Base + Count) /\ Base + Count \in Nat
      BY <1>2
    <2>2. Known(SubSeq(gen.presence, 1, Size), Size)
      BY <1>2, <1>3, <2>1, FirstCut DEF Known
    <2> QED
      BY <1>2, <1>3, <2>2, FirstSame DEF Known, Size
  <1> HIDE DEF keep, presence
  <1>7. Tokens[Base + Count] \in Word
    BY <1>2, ElementOfSeq
  <1>8. CASE round.span = <<>>
    <2>1. /\ Count = 1 /\ gen.idLast = Tokens[Base + 1]
          /\ Known(gen.cache, Base) /\ Known(gen.drafter, Least({Base, DraftCtx}))
      BY <1>1, <1>8, WithinFacts DEF PlainRows
    <2>2. keep = 1 /\ p = Base /\ gen.nPast + 1 = Base
      BY <1>2, <1>3, <1>5, <2>1
    <2>3. gen' = [gen EXCEPT !.presence = text, !.nPast = @ + 1]
      BY <1>1, <1>6, <1>8
    <2>4. text \in Seq(Word) /\ gen.nPast + 1 \in Nat
      BY <1>2, <1>3, <2>2 DEF Known, FirstOf
    <2>5. gen' \in [cache : Seq(Word), drafter : Seq(Word), presence : Seq(Word),
                    drawn : Nat, nPast : Nat, idLast : Word]
      BY <1>3, <2>3, <2>4
    <2>6. /\ gen'.cache = gen.cache /\ gen'.drafter = gen.drafter /\ gen'.presence = text
          /\ gen'.drawn = gen.drawn /\ gen'.nPast = gen.nPast + 1 /\ gen'.idLast = gen.idLast
      BY <1>3, <2>3
    <2> HIDE DEF p
    <2>7. gen'.nPast = p /\ Known(gen'.cache, p) /\ Known(gen'.drafter, Least({p, DraftCtx}))
      BY <2>1, <2>2, <2>6
    <2>8. gen'.idLast = Tokens[Base + Count]
      BY <2>1, <2>6
    <2> QED
      BY <1>3, <1>4, <1>5, <2>5, <2>6, <2>7, <2>8 DEF p
  <1>9. CASE round.span # <<>>
    <2>1. /\ Base - 1 + Len(round.span) <= DraftCtx /\ Count <= Len(round.span)
          /\ Len(gen.cache) = Base - 1 + Len(round.span)
          /\ \A i \in 1..(Base - 1 + Count) : gen.cache[i] = Tokens[i]
          /\ Known(gen.drafter, Base - 1)
      BY <1>1, <1>9, WithinFacts DEF VerifiedRows
    <2>2. /\ Len(round.span) \in Nat /\ p <= DraftCtx /\ p <= Len(gen.cache)
          /\ p <= Base - 1 + Count /\ gen.nPast + keep = p
      <3>1. Len(round.span) \in Nat
        BY <1>2, LenProperties
      <3>2. keep <= Count /\ keep \in Nat /\ Base \in Nat /\ Count \in Nat /\ DraftCtx \in Nat
        BY <1>2, <1>5
      <3>3. gen.nPast = Base - 1 /\ Count <= Len(round.span)
            /\ Base - 1 + Len(round.span) <= DraftCtx
            /\ Len(gen.cache) = Base - 1 + Len(round.span)
        BY <1>3, <2>1
      <3> QED
        BY <3>1, <3>2, <3>3
    <2> DEFINE cache == SubSeq(gen.cache, 1, p)
               drafter == gen.drafter \o SyncRows(keep)
    <2>3. Known(cache, p)
      <3>1. \A i \in 1..p : gen.cache[i] = Tokens[i] /\ gen.cache[i] \in Word
        <4> TAKE i \in 1..p
        <4>1. i \in 1..(Base - 1 + Count) /\ i \in 1..Len(gen.cache)
          <5>1. p \in Nat /\ p <= Len(gen.cache) /\ p <= Base - 1 + Count
                /\ Base \in Nat /\ Count \in Nat /\ Len(gen.cache) \in Nat
            BY <1>2, <1>3, <1>5, <2>2, LenProperties
          <5> HIDE DEF p
          <5> QED
            BY <5>1
        <4> QED
          BY <1>3, <2>1, <4>1, ElementOfSeq
      <3>2. /\ cache \in Seq(Word) /\ Len(cache) = IF 1 <= p THEN p - 1 + 1 ELSE 0
            /\ \A i \in 1..(p - 1 + 1) : cache[i] = gen.cache[1 + i - 1]
        BY <1>5, <3>1, SubSeqProperties
      <3> HIDE DEF cache, p
      <3>3. Len(cache) = p /\ \A i \in 1..p : cache[i] = gen.cache[i]
        BY <1>5, <3>2
      <3> QED
        BY <1>5, <3>1, <3>2, <3>3 DEF Known, FirstOf
    <2>4. Known(drafter, p)
      <3> DEFINE rows == SyncRows(keep)
      <3>1. /\ rows \in Seq(Word) /\ Len(rows) = keep
            /\ \A i \in 1..keep : rows[i] = Tokens[Base - 1 + i]
        BY <1>1, <1>5, <1>9, SyncRowsAreTheReply
      <3> HIDE DEF rows
      <3>2. Base - 1 \in Nat /\ Base - 1 + Len(rows) <= Len(Tokens)
            /\ \A i \in 1..Len(rows) : rows[i] = Tokens[(Base - 1) + i]
        BY <1>2, <1>5, <3>1
      <3>3. Known(gen.drafter \o rows, Base - 1 + Len(rows))
        BY <1>2, <2>1, <3>1, <3>2, FirstConcat DEF Known
      <3> QED
        BY <3>1, <3>3 DEF rows
    <2>5. Least({p, DraftCtx}) = p
      BY <1>2, <1>5, <2>2, LeastOfTwo
    <2>6. Last(round.committed) = Tokens[Base + Count]
      <3>1. Count \in 1..Count
        BY <1>2
      <3> QED
        BY <1>3, <3>1 DEF Last, Count
    <2> HIDE DEF cache, drafter
    <2>7. gen' = [gen EXCEPT !.presence = text, !.nPast = p, !.cache = cache,
                             !.drafter = drafter, !.idLast = Tokens[Base + Count]]
      BY <1>1, <1>6, <1>9, <2>2, <2>6 DEF cache, drafter
    <2>8. cache \in Seq(Word) /\ drafter \in Seq(Word) /\ text \in Seq(Word)
      BY <1>3, <2>3, <2>4 DEF Known, FirstOf
    <2> HIDE DEF p
    <2>9. gen' \in [cache : Seq(Word), drafter : Seq(Word), presence : Seq(Word),
                    drawn : Nat, nPast : Nat, idLast : Word]
      BY <1>3, <1>5, <1>7, <2>7, <2>8
    <2>10. /\ gen'.cache = cache /\ gen'.drafter = drafter /\ gen'.presence = text
           /\ gen'.drawn = gen.drawn /\ gen'.nPast = p /\ gen'.idLast = Tokens[Base + Count]
      BY <1>3, <2>7
    <2> QED
      BY <1>3, <1>4, <1>5, <2>3, <2>4, <2>5, <2>9, <2>10 DEF p
  <1> QED
    BY <1>8, <1>9

LEMMA CommitInv ==
    ASSUME IInv, Commit
    PROVE  IInv'
  <1> DEFINE complete == Last(round.committed) = "last"
             eog == ended.eog \/ complete
  <1>1. /\ pc = "commit" /\ UNCHANGED <<stream, text>> /\ round' = NoRound
        /\ ended' = [ended EXCEPT !.eog = eog]
        /\ pc' = IF eog \/ ended.cancelled \/ Len(text) >= MaxNew THEN "end" ELSE "poll"
    BY DEF Commit, At, QuietUnchanged
  <1>2. /\ Size \in Nat /\ Base \in Nat /\ Base >= 1 /\ Count \in Nat /\ round.emitted \in Nat
        /\ Size = Base + round.emitted /\ Size >= 1 /\ Size <= MaxNew /\ MaxNew \in Nat
        /\ Count >= 1 /\ round.emitted <= Count /\ Base + Count <= MaxNew /\ DraftCtx \in Nat
        /\ Shape /\ Emitting
    BY <1>1, WithinFacts
  <1>3. /\ text \in Seq(Word) /\ Len(text) = Size /\ text # <<>> /\ Last(text) = text[Size]
        /\ Known(text, Size)
    BY <1>2, TextFacts DEF Shape
  <1>4. PICK keep \in 1..Count :
           /\ keep = IF Count <= round.emitted + 1 THEN Count ELSE round.emitted + 1
           /\ gen' \in [cache : Seq(Word), drafter : Seq(Word), presence : Seq(Word),
                        drawn : Nat, nPast : Nat, idLast : Word]
           /\ gen'.nPast = Base - 1 + keep /\ Known(gen'.cache, Base - 1 + keep)
           /\ Known(gen'.drafter, Least({Base - 1 + keep, DraftCtx}))
           /\ gen'.presence = text /\ gen'.drawn = Base + Count
           /\ gen'.idLast = Tokens[Base + Count]
    BY CommitKeeps
  <1>5. /\ ended' \in [eog : BOOLEAN, cancelled : BOOLEAN]
        /\ ended'.eog = eog /\ ended'.cancelled = ended.cancelled
    BY <1>1, <1>2 DEF Shape
  <1>6. Tokens' = Tokens /\ Size' = Size /\ text' = text
    BY <1>1 DEF Tokens, Size
  <1>7. Shape'
    <2>1. <<>> \in Seq(Word)
      BY EmptySeq
    <2>2. round' \in [span : Seq(Word), committed : Seq(Word), emitted : Nat]
      BY <1>1, <2>1 DEF NoRound
    <2> QED
      BY <1>1, <1>2, <1>4, <1>5, <1>6, <2>2 DEF Shape, Known
  <1>8. Base - 1 + keep \in {Size - 1, Size}
    <2>1. keep = IF Count <= round.emitted + 1 THEN Count ELSE round.emitted + 1
      BY <1>4
    <2>2. CASE Count <= round.emitted + 1
      <3>1. keep = round.emitted \/ keep = round.emitted + 1
        BY <1>2, <2>1, <2>2
      <3> QED
        BY <1>2, <3>1
    <2>3. CASE ~(Count <= round.emitted + 1)
      <3>1. keep = round.emitted + 1
        BY <2>1, <2>3
      <3> QED
        BY <1>2, <3>1
    <2> QED
      BY <2>2, <2>3
  <1>9. Last(round.committed) = Tokens[Base + Count]
    <2>1. Committed /\ round.committed \in Seq(Word)
      BY <1>1 DEF IInv, WithinRound, Shape
    <2>2. Count \in 1..Count
      BY <1>2
    <2> QED
      BY <2>1, <2>2 DEF Last, Count, Committed
  <1>10. CASE eog \/ ended.cancelled \/ Size >= MaxNew
    <2>1. pc' = "end"
      BY <1>1, <1>3, <1>10
    <2>2. IF ended'.cancelled THEN Size < MaxNew ELSE Plain!Complete(Tokens, text)
      <3>1. ended.eog => Tokens[Size + 1] = "eog"
        BY <1>1, <1>2 DEF Emitting
      <3>2. Size >= MaxNew => Len(text) = MaxNew
        BY <1>2, <1>3
      <3>3. ASSUME complete, ~ended.eog, ~ended.cancelled, Size # MaxNew PROVE Last(text) = "last"
        <4>1. Base + Count = Size
          BY <1>1, <1>2, <3>3 DEF Emitting
        <4>2. text[Size] = Tokens[Size]
          BY <1>2, <1>3 DEF Known, FirstOf
        <4> QED
          BY <1>3, <1>9, <3>3, <4>1, <4>2
      <3>4. ended.cancelled => Size < MaxNew
        BY <1>1, <1>2 DEF Emitting
      <3> QED
        BY <1>2, <1>3, <1>5, <1>10, <3>1, <3>2, <3>3, <3>4 DEF Plain!Complete, Plain!Ended
    <2>3. Returned'
      BY <1>4, <1>6, <1>8, <2>1, <2>2 DEF Returned, Known, Plain!Complete, Plain!Ended
    <2> QED
      BY <1>7, <2>1, <2>3 DEF IInv, BeforeFirst, AfterFirst, BetweenRounds, WithinRound
  <1>11. CASE ~(eog \/ ended.cancelled \/ Size >= MaxNew)
    <2>1. pc' = "poll" /\ ~ended'.eog /\ ~ended'.cancelled
      BY <1>1, <1>3, <1>5, <1>11
    <2>2. round.emitted = Count /\ text[Size] # "eog" /\ Size < MaxNew
      BY <1>1, <1>2, <1>3, <1>11 DEF Emitting
    <2>3. keep = Count /\ Base - 1 + keep = Size - 1 /\ Base + Count = Size
      BY <1>2, <1>4, <2>2
    <2>4. text[Size] = Tokens[Size] /\ text[Size] # "last"
      BY <1>2, <1>3, <1>11, <1>9, <2>3 DEF Known, FirstOf
    <2>5. BetweenRounds'
      <3>1. /\ gen'.nPast = Size - 1 /\ Known(gen'.cache, Size - 1)
            /\ Known(gen'.drafter, Least({Size - 1, DraftCtx}))
            /\ gen'.presence = text /\ gen'.drawn = Size /\ gen'.idLast = text[Size]
        BY <1>4, <2>3, <2>4
      <3>2. ~EndsWalk(text[Size])
        BY <2>2, <2>4 DEF EndsWalk
      <3> QED
        BY <1>2, <1>6, <2>1, <2>2, <3>1, <3>2 DEF BetweenRounds, GoingOn, Known, EndsWalk
    <2> QED
      BY <1>7, <2>1, <2>5 DEF IInv, BeforeFirst, AfterFirst, WithinRound, Returned
  <1> QED
    BY <1>10, <1>11

LEMMA FinishTurnInv ==
    ASSUME IInv, FinishTurn
    PROVE  IInv'
  <1>1. pc = "end" /\ pc' = "finished" /\ UNCHANGED <<stream, text, gen, round, ended>>
    BY DEF FinishTurn, At, QuietUnchanged
  <1>2. Shape'
    BY <1>1 DEF IInv, Shape, Known, Tokens, Size
  <1>3. Returned'
    BY <1>1 DEF IInv, Returned, Tokens, Size, Plain!Complete, Plain!Ended
  <1> QED
    BY <1>1, <1>2, <1>3 DEF IInv, BeforeFirst, AfterFirst, BetweenRounds, WithinRound

LEMMA NextInv == IInv /\ [Next]_vars => IInv'
  <1> SUFFICES ASSUME IInv, [Next]_vars PROVE IInv'
    OBVIOUS
  <1>1. CASE UNCHANGED vars
    BY <1>1, LoopUnchanged DEF vars, engine, loop
  <1>2. CASE \/ Deliver \/ Stall \/ GiveUp \/ Suppress
             \/ Read \/ (\E part \in {"receiver", "guard"} : Drop(part)) \/ ShutDown \/ Tick
    BY <1>2, OthersLeaveLoop, LoopUnchanged
  <1>3. CASE \/ AbandonDispatch \/ AbandonPrefill \/ OpenReply \/ NobodyToOpenFor \/ Prefilled
    BY <1>3, BeforeDecodeInv
  <1>4. CASE FirstToken
    BY <1>4, FirstTokenInv
  <1>5. CASE FirstSaid
    BY <1>5, FirstSaidInv
  <1>6. CASE StopAtPoll \/ GoOn
    BY <1>6, PollInv
  <1>7. CASE PlainRound
    BY <1>7, PlainRoundInv
  <1>8. CASE \E drafts \in Drafts : VerifyRound(drafts)
    BY <1>8, VerifyRoundInv
  <1>9. CASE Emit
    BY <1>9, EmitInv
  <1>10. CASE Emitted
    BY <1>10, EmittedInv
  <1>11. CASE Commit
    BY <1>11, CommitInv
  <1>12. CASE FinishTurn
    BY <1>12, FinishTurnInv
  <1> QED
    BY <1>1, <1>2, <1>3, <1>4, <1>5, <1>6, <1>7, <1>8, <1>9, <1>10, <1>11, <1>12
    DEF Next, Engine

---------------------------------------------------------------------------
(* The theorems.                                                           *)

LEMMA IInvIsSafe == IInv => SafeToResume
  <1> SUFFICES ASSUME IInv, pc \in {"poll", "round", "end"}, text # <<>>
      PROVE  /\ IsPrefix(gen.cache, text)
             /\ Len(gen.cache) >= Len(text) - 1
             /\ gen.nPast = Len(gen.cache)
             /\ gen.drafter = SubSeq(gen.cache, 1, Least({Len(gen.cache), DraftCtx}))
             /\ pc # "end" => gen.cache \o <<gen.idLast>> = text
    BY DEF SafeToResume
  <1> DEFINE n == gen.nPast
             d == Least({n, DraftCtx})
  <1>1. /\ Shape /\ Size \in Nat /\ Size >= 1 /\ Len(text) = Size /\ Known(text, Size)
        /\ Tokens \in Seq(Word) /\ DraftCtx \in Nat /\ Size <= Len(Tokens)
    <2>1. Shape
      BY DEF IInv
    <2> QED
      BY <2>1, TextFacts, TokensFacts DEF Shape
  <1>2. n \in {Size - 1, Size} /\ Known(gen.cache, n) /\ Known(gen.drafter, d)
    BY <1>1 DEF IInv, BetweenRounds, Returned
  <1>3. n \in Nat /\ Len(gen.cache) = n /\ n <= Size
    BY <1>1, <1>2 DEF Known, FirstOf
  <1>4. d \in 0..n
    <2>1. d = IF n <= DraftCtx THEN n ELSE DraftCtx
      BY <1>1, <1>3, LeastOfTwo
    <2> HIDE DEF d
    <2> QED
      BY <1>1, <1>3, <2>1
  <1> HIDE DEF d
  <1>5. IsPrefix(gen.cache, text)
    <2>1. Known(SubSeq(text, 1, n), n) /\ Known(SubSeq(gen.cache, 1, n), n)
      BY <1>1, <1>2, <1>3, FirstCut DEF Known
    <2>2. SubSeq(gen.cache, 1, n) = SubSeq(text, 1, n)
      BY <1>1, <1>3, <2>1, FirstSame DEF Known
    <2> QED
      BY <1>1, <1>3, <2>2 DEF IsPrefix
  <1>6. gen.drafter = SubSeq(gen.cache, 1, d)
    <2>1. Known(SubSeq(gen.cache, 1, d), d) /\ d \in Nat
      BY <1>1, <1>2, <1>3, <1>4, FirstCut DEF Known
    <2> QED
      BY <1>1, <1>2, <2>1, FirstSame DEF Known
  <1>7. ASSUME pc # "end" PROVE gen.cache \o <<gen.idLast>> = text
    <2>1. n = Size - 1 /\ gen.idLast = text[Size] /\ text[Size] = Tokens[Size]
      BY <1>1, <1>7, TextFacts DEF IInv, BetweenRounds
    <2>2. gen.cache \in Seq(Word) /\ gen.idLast \in Word
      BY <1>1 DEF Shape
    <2>3. n < Len(Tokens) /\ n + 1 = Size
      BY <1>1, <2>1
    <2>4. Known(Append(gen.cache, Tokens[n + 1]), n + 1)
      BY <1>1, <1>2, <1>3, <2>3, FirstAppend DEF Known
    <2>5. Append(gen.cache, gen.idLast) = text
      BY <1>1, <2>1, <2>3, <2>4, FirstSame DEF Known
    <2> QED
      BY <2>2, <2>5, AppendIsConcat
  <1> QED
    BY <1>1, <1>2, <1>3, <1>5, <1>6, <1>7 DEF d

\* Between rounds, and once the loop is over, the caches hold what was
\* reported and nothing else: what a next request resumes from is what its
\* client was told, wherever a stop, a cap or an EOG cut the last round.
THEOREM ResumeIsSafe == Spec => []SafeToResume
  <1>1. Init => IInv
    BY InitInv
  <1>2. IInv /\ [Next]_vars => IInv'
    BY NextInv
  <1> QED
    BY <1>1, <1>2, IInvIsSafe, PTL DEF Spec

---------------------------------------------------------------------------
(* The refinement: rounds, walks and rollbacks are steps of plain decoding.*)

Going(p) == p \notin {"end", "finished"}

LEMMA ToStay ==
    ASSUME UNCHANGED <<stream, text>>, Going(pc), Going(pc')
    PROVE  UNCHANGED Plain!vars
  BY DEF Plain!vars, Going

LEMMA ToReport ==
    ASSUME UNCHANGED stream, Going(pc), Going(pc'), text' = Append(text, Tokens[Len(text) + 1]),
           ~Plain!Complete(Tokens, text)
    PROVE  Plain!Next
  BY DEF Plain!Next, Plain!Report, Going, Tokens

LEMMA ToReturn ==
    ASSUME Returned', UNCHANGED <<stream, text>>, Going(pc), ~Going(pc')
    PROVE  Plain!Next
  <1>1. CASE ended'.cancelled /\ ~GrammarDone
    <2>1. ~Plain!Ended(text)
      BY <1>1 DEF Returned, Going, Size, GrammarDone, Plain!Ended, Last
    <2> QED
      BY <1>1, <2>1 DEF Plain!Next, Plain!Stop, Going, GrammarDone
  <1>2. CASE ~ended'.cancelled \/ GrammarDone
    <2>1. Plain!Complete(Tokens, text)
      BY <1>2 DEF Returned, Going, Plain!Complete, Plain!Ended, Tokens, GrammarDone, Last
    <2> QED
      BY <1>2, <2>1 DEF Plain!Next, Plain!Finish, Going, Tokens, GrammarDone
  <1> QED
    BY <1>1, <1>2

LEMMA FirstTokenRefines ==
    ASSUME IInv, FirstToken
    PROVE  [Plain!Next]_(Plain!vars)
  <1>1. /\ text = <<>> /\ Shape /\ pc = "first" /\ UNCHANGED stream
    BY DEF IInv, BeforeFirst, FirstToken, At, QuietUnchanged
  <1>2. Draw(<<>>, <<>>, 0) = Tokens[1] /\ Len(text) + 1 = 1
    BY <1>1, TokensFacts, FirstEmpty, DrawIsNext, 0 + 1 = 1 DEF Tokens
  <1>3. CASE Tokens[1] = "eog"
    <2>1. pc' = "end" /\ UNCHANGED text
      BY <1>2, <1>3 DEF FirstToken
    <2>2. Returned'
      BY FirstTokenInv DEF IInv
    <2> QED
      BY <1>1, <2>1, <2>2, ToReturn DEF Going
  <1>4. CASE Tokens[1] # "eog"
    <2>1. pc' = "firstSaid" /\ text' = Append(text, Tokens[1])
      BY <1>2, <1>4 DEF FirstToken, ReportToken
    <2>2. ~Plain!Complete(Tokens, text)
      BY <1>1, <1>2, <1>4, TokensFacts DEF Plain!Complete, Plain!Ended
    <2> QED
      BY <1>1, <1>2, <2>1, <2>2, ToReport DEF Going
  <1> QED
    BY <1>3, <1>4

LEMMA EmitRefines ==
    ASSUME IInv, Emit
    PROVE  [Plain!Next]_(Plain!vars)
  <1>1. pc = "emit" /\ UNCHANGED stream
    BY DEF Emit, At, QuietUnchanged
  <1>2. CASE Tokens[Size + 1] = "eog"
    <2>1. pc' = "commit" /\ UNCHANGED text
      BY <1>2, EmitTakesTheNext DEF Emit
    <2> QED
      BY <1>1, <2>1, ToStay DEF Going
  <1>3. CASE Tokens[Size + 1] # "eog"
    <2>1. text' = Append(text, Tokens[Size + 1]) /\ pc' = "emitted"
      BY <1>3, EmitTakesTheNext DEF Emit, ReportToken
    <2>2. ~Plain!Complete(Tokens, text)
      <3>1. /\ text # <<>> /\ Len(text) = Size /\ text[Size] = Tokens[Size] /\ Size < MaxNew
            /\ Size \in Nat /\ MaxNew \in Nat
        <4>1. Shape /\ Size >= 1
          BY <1>1, WithinFacts
        <4> QED
          BY <4>1, TextFacts, TokensFacts, EmitTakesTheNext
      <3>2. ~EndsWalk(Tokens[Size])
        BY EmitTakesTheNext
      <3> QED
        BY <1>3, <3>1, <3>2 DEF Plain!Complete, Plain!Ended, EndsWalk
    <2> QED
      BY <1>1, <2>1, <2>2, ToReport DEF Going, Size
  <1> QED
    BY <1>2, <1>3

LEMMA StepRefines ==
    ASSUME IInv, [Next]_vars
    PROVE  [Plain!Next]_(Plain!vars)
  <1>1. Returned'
    BY NextInv DEF IInv
  <1>2. CASE UNCHANGED loop
    BY <1>2 DEF loop, Plain!vars, GrammarDone
  <1>3. CASE \/ AbandonDispatch \/ AbandonPrefill \/ OpenReply \/ NobodyToOpenFor \/ Prefilled
             \/ FirstSaid \/ StopAtPoll \/ GoOn \/ Commit
    <2>1. UNCHANGED <<stream, text>> /\ Going(pc)
      BY <1>3 DEF AbandonDispatch, AbandonPrefill, OpenReply, NobodyToOpenFor, Prefilled,
                  FirstSaid, StopAtPoll, GoOn, Commit, EndBeforeDecode, QuietUnchanged, At, Going
    <2> QED
      BY <1>1, <2>1, ToStay, ToReturn
  <1>4. CASE PlainRound \/ (\E drafts \in Drafts : VerifyRound(drafts)) \/ Emitted
    <2>1. UNCHANGED <<stream, text>> /\ Going(pc) /\ Going(pc')
      BY <1>4 DEF PlainRound, VerifyRound, Emitted, QuietUnchanged, At, Going
    <2> QED
      BY <2>1, ToStay
  <1>5. CASE FirstToken
    BY <1>5, FirstTokenRefines
  <1>6. CASE Emit
    BY <1>6, EmitRefines
  <1>7. CASE FinishTurn
    BY <1>7 DEF FinishTurn, At, QuietUnchanged, Plain!vars, GrammarDone
  <1>8. CASE UNCHANGED vars
    BY <1>8 DEF vars, engine, Plain!vars, GrammarDone
  <1> QED
    BY <1>2, <1>3, <1>4, <1>5, <1>6, <1>7, <1>8, OthersLeaveLoop DEF Next, Engine

\* The speculative loop reports what plain decoding reports, token for token
\* and to the same end, for every drafter, draft and budget: every step of it
\* is a step of decode_tokens' loop or no step at all.
THEOREM SpeculationIsPlain == Spec => ImplementsPlain
  <1>1. Init => Plain!Init
    BY DEF Init, Plain!Init
  <1>2. Init => IInv
    BY InitInv
  <1>3. IInv /\ [Next]_vars => IInv'
    BY NextInv
  <1>4. IInv /\ [Next]_vars => [Plain!Next]_(Plain!vars)
    BY StepRefines
  <1> QED
    BY <1>1, <1>2, <1>3, <1>4, PTL DEF Spec, ImplementsPlain, Plain!Spec
=============================================================================
