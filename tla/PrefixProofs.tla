---------------------------- MODULE PrefixProofs ----------------------------
(***************************************************************************)
(* The lemmas on which the proofs about warm conversations rest: what a    *)
(* prefix of a token history is, how far a prompt shares one, where a      *)
(* snapshot lets it resume, what the ring keeps, and where a prefill stops.*)
(***************************************************************************)
EXTENDS PrefixCache, FiniteSetTheorems, SequenceTheorems, WellFoundedInduction, TLAPS

---------------------------------------------------------------------------
(* Prefixes.                                                               *)

\* A prefix, element by element.
LEMMA PrefixPointwise ==
    ASSUME NEW T, NEW s \in Seq(T), NEW t \in Seq(T)
    PROVE  IsPrefix(s, t) <=> Len(s) <= Len(t) /\ \A n \in 1..Len(s) : s[n] = t[n]
  <1>1. ASSUME IsPrefix(s, t) PROVE \A n \in 1..Len(s) : s[n] = t[n]
    <2>1. SubSeq(s, 1, Len(s)) = SubSeq(t, 1, Len(s)) /\ Len(s) <= Len(t)
      BY <1>1 DEF IsPrefix
    <2>2. \A n \in 1..Len(s) : SubSeq(s, 1, Len(s))[n] = s[n] /\ SubSeq(t, 1, Len(s))[n] = t[n]
      BY <2>1
    <2> QED
      BY <2>1, <2>2
  <1>2. ASSUME Len(s) <= Len(t), \A n \in 1..Len(s) : s[n] = t[n] PROVE IsPrefix(s, t)
    <2>1. /\ SubSeq(s, 1, Len(s)) \in Seq(T) /\ Len(SubSeq(s, 1, Len(s))) = Len(s)
          /\ SubSeq(t, 1, Len(s)) \in Seq(T) /\ Len(SubSeq(t, 1, Len(s))) = Len(s)
      BY <1>2
    <2>2. \A n \in 1..Len(s) : SubSeq(s, 1, Len(s))[n] = SubSeq(t, 1, Len(s))[n]
      BY <1>2
    <2>3. SubSeq(s, 1, Len(s)) = SubSeq(t, 1, Len(s))
      BY <2>1, <2>2, SeqEqual
    <2> QED
      BY <1>2, <2>3 DEF IsPrefix
  <1> QED
    BY <1>1, <1>2 DEF IsPrefix

\* What Upto returns.
LEMMA UptoIs ==
    ASSUME NEW T, NEW s \in Seq(T), NEW n \in 0..Len(s)
    PROVE  /\ Upto(s, n) \in Seq(T) /\ Len(Upto(s, n)) = n
           /\ \A i \in 1..n : Upto(s, n)[i] = s[i]
  BY DEF Upto

LEMMA UptoPrefix ==
    ASSUME NEW T, NEW s \in Seq(T), NEW n \in 0..Len(s)
    PROVE  IsPrefix(Upto(s, n), s)
  BY UptoIs, PrefixPointwise

LEMMA UptoAll ==
    ASSUME NEW T, NEW s \in Seq(T)
    PROVE  Upto(s, Len(s)) = s
  BY SubSeqFull DEF Upto

LEMMA PrefixReflexive ==
    ASSUME NEW T, NEW s \in Seq(T)
    PROVE  IsPrefix(s, s)
  BY DEF IsPrefix

LEMMA EmptyIsPrefix ==
    ASSUME NEW T, NEW s \in Seq(T)
    PROVE  IsPrefix(<<>>, s)
  <1>1. Upto(s, 0) \in Seq(T) /\ Len(Upto(s, 0)) = 0 /\ IsPrefix(Upto(s, 0), s)
    BY UptoIs, UptoPrefix
  <1>2. Upto(s, 0) = <<>>
    BY <1>1
  <1> QED
    BY <1>1, <1>2

LEMMA PrefixTransitive ==
    ASSUME NEW T, NEW s \in Seq(T), NEW t \in Seq(T), NEW u \in Seq(T),
           IsPrefix(s, t), IsPrefix(t, u)
    PROVE  IsPrefix(s, u)
  BY PrefixPointwise

\* A prefix is what the longer history holds up to its length.
LEMMA PrefixIsUpto ==
    ASSUME NEW T, NEW s \in Seq(T), NEW t \in Seq(T)
    PROVE  /\ IsPrefix(s, t) <=> Len(s) <= Len(t) /\ s = Upto(t, Len(s))
           /\ IsPrefix(s, t) => \A n \in 0..Len(s) : Upto(s, n) = Upto(t, n)
  <1>1. ASSUME Len(s) <= Len(t) PROVE IsPrefix(s, t) <=> s = Upto(t, Len(s))
    <2>1. Upto(s, Len(s)) = s
      BY UptoAll
    <2> QED
      BY <1>1, <2>1 DEF IsPrefix, Upto
  <1>2. ASSUME IsPrefix(s, t), NEW n \in 0..Len(s) PROVE Upto(s, n) = Upto(t, n)
    <2>1. Len(s) <= Len(t) /\ \A i \in 1..Len(s) : s[i] = t[i]
      BY <1>2, PrefixPointwise
    <2>2. /\ Upto(s, n) \in Seq(T) /\ Len(Upto(s, n)) = n /\ \A i \in 1..n : Upto(s, n)[i] = s[i]
      BY UptoIs
    <2>3. n \in 0..Len(t)
      BY <2>1
    <2>4. /\ Upto(t, n) \in Seq(T) /\ Len(Upto(t, n)) = n /\ \A i \in 1..n : Upto(t, n)[i] = t[i]
      BY <2>3, UptoIs
    <2>5. \A i \in 1..n : Upto(s, n)[i] = Upto(t, n)[i]
      BY <2>1, <2>2, <2>4
    <2> QED
      BY <2>2, <2>4, <2>5, SeqEqual
  <1> QED
    BY <1>1, <1>2 DEF IsPrefix

\* Of two prefixes of one history, the shorter is a prefix of the longer.
LEMMA PrefixesNest ==
    ASSUME NEW T, NEW s \in Seq(T), NEW t \in Seq(T), NEW u \in Seq(T),
           IsPrefix(s, u), IsPrefix(t, u), Len(s) <= Len(t)
    PROVE  IsPrefix(s, t)
  BY PrefixPointwise

LEMMA PrefixesOfOneLength ==
    ASSUME NEW T, NEW s \in Seq(T), NEW t \in Seq(T), NEW u \in Seq(T),
           IsPrefix(s, u), IsPrefix(t, u), Len(s) = Len(t)
    PROVE  s = t
  BY PrefixPointwise, SeqEqual

LEMMA PrefixOfConcat ==
    ASSUME NEW T, NEW s \in Seq(T), NEW t \in Seq(T)
    PROVE  IsPrefix(s, s \o t) /\ s \o t \in Seq(T) /\ Len(s \o t) = Len(s) + Len(t)
  <1>1. /\ s \o t \in Seq(T) /\ Len(s \o t) = Len(s) + Len(t)
        /\ Len(s) \in Nat /\ Len(t) \in Nat
    OBVIOUS
  <1>2. \A n \in 1..Len(s) : (s \o t)[n] = s[n]
    OBVIOUS
  <1>3. Len(s) <= Len(s \o t)
    BY <1>1
  <1>4. IsPrefix(s, s \o t)
    BY <1>1, <1>2, <1>3, PrefixPointwise
  <1> QED
    BY <1>1, <1>4

\* Appending to a prefix what comes next in the history gives the longer prefix.
LEMMA PrefixGrows ==
    ASSUME NEW T, NEW s \in Seq(T), NEW t \in Seq(T), IsPrefix(s, t), NEW n \in Len(s)..Len(t)
    PROVE  s \o SubSeq(t, Len(s) + 1, n) = Upto(t, n)
  <1>1. s = Upto(t, Len(s)) /\ Len(s) <= Len(t)
    BY PrefixIsUpto
  <1>2. Len(s) \in Nat /\ Len(t) \in Nat
    OBVIOUS
  <1>3. 1 \in 1..(Len(t) + 1) /\ Len(s) \in (1 - 1)..Len(t) /\ n \in Len(s)..Len(t)
    BY <1>1, <1>2
  <1>4. SubSeq(t, 1, Len(s)) \o SubSeq(t, Len(s) + 1, n) = SubSeq(t, 1, n)
    BY <1>3, ConcatAdjacentSubSeq
  <1> QED
    BY <1>1, <1>4 DEF Upto

LEMMA UptoConcat ==
    ASSUME NEW T, NEW s \in Seq(T), NEW t \in Seq(T), NEW n \in 0..Len(t)
    PROVE  s \o Upto(t, n) = Upto(s \o t, Len(s) + n)
  <1>1. /\ Len(s) \in Nat /\ Len(t) \in Nat /\ s \o t \in Seq(T)
        /\ Len(s \o t) = Len(s) + Len(t) /\ Len(s) + n \in 0..Len(s \o t)
    OBVIOUS
  <1>2. /\ Upto(t, n) \in Seq(T) /\ Len(Upto(t, n)) = n /\ \A i \in 1..n : Upto(t, n)[i] = t[i]
    BY UptoIs
  <1>3. /\ Upto(s \o t, Len(s) + n) \in Seq(T) /\ Len(Upto(s \o t, Len(s) + n)) = Len(s) + n
        /\ \A i \in 1..(Len(s) + n) : Upto(s \o t, Len(s) + n)[i] = (s \o t)[i]
    BY <1>1, UptoIs
  <1>4. s \o Upto(t, n) \in Seq(T) /\ Len(s \o Upto(t, n)) = Len(s) + n
    BY <1>2
  <1>5. ASSUME NEW i \in 1..(Len(s) + n) PROVE (s \o Upto(t, n))[i] = (s \o t)[i]
    <2>1. CASE i <= Len(s)
      BY <1>1, <1>2, <2>1
    <2>2. CASE ~(i <= Len(s))
      <3>1. i - Len(s) \in 1..n
        BY <1>1, <2>2
      <3>2. (s \o Upto(t, n))[i] = Upto(t, n)[i - Len(s)] /\ (s \o t)[i] = t[i - Len(s)]
        BY <1>1, <1>2, <2>2
      <3> QED
        BY <1>2, <3>1, <3>2
    <2> QED
      BY <2>1, <2>2
  <1> DEFINE a == s \o Upto(t, n)
             b == Upto(s \o t, Len(s) + n)
  <1>6. a \in Seq(T) /\ b \in Seq(T) /\ Len(a) = Len(s) + n /\ Len(b) = Len(s) + n
    BY <1>3, <1>4
  <1>7. \A i \in 1..Len(a) : a[i] = b[i]
    BY <1>3, <1>4, <1>5
  <1> HIDE DEF a, b
  <1>8. a = b
    BY <1>6, <1>7, SeqEqual
  <1> QED
    BY <1>8 DEF a, b

---------------------------------------------------------------------------
(* Least and greatest.                                                     *)

LEMMA MinIs ==
    ASSUME NEW S, S \subseteq Nat, S # {}
    PROVE  Min(S) \in S /\ \A m \in S : Min(S) <= m
  <1>1. PICK x \in S : \A y \in S : ~(<<y, x>> \in OpToRel(<, Nat))
    BY WFMin, NatLessThanWellFounded
  <1>2. \A y \in S : x <= y
    <2> TAKE y \in S
    <2>1. x \in Nat /\ y \in Nat
      OBVIOUS
    <2>2. ~(y < x)
      BY <1>1, <2>1 DEF OpToRel
    <2> QED
      BY <2>1, <2>2
  <1> QED
    BY <1>1, <1>2 DEF Min

LEMMA MaxIs ==
    ASSUME NEW k \in Nat, NEW S, S \subseteq 0..k, S # {}
    PROVE  Max(S) \in S /\ \A m \in S : m <= Max(S)
  <1> DEFINE Gaps == {n \in 0..k : k - n \in S}
  <1>1. Gaps \subseteq Nat /\ Gaps # {}
    <2>1. PICK x \in S : x \in 0..k
      OBVIOUS
    <2>2. k - x \in 0..k /\ k - (k - x) = x
      BY <2>1
    <2>3. k - x \in Gaps
      BY <2>2
    <2>4. Gaps \subseteq Nat
      OBVIOUS
    <2> HIDE DEF Gaps
    <2> QED
      BY <2>3, <2>4
  <1>2. PICK g \in Gaps : \A h \in Gaps : g <= h
    <2> HIDE DEF Gaps
    <2> QED
      BY <1>1, MinIs
  <1>3. k - g \in S
    BY <1>2
  <1>4. \A m \in S : m <= k - g
    <2> TAKE m \in S
    <2>1. m \in 0..k /\ k - (k - m) = m
      OBVIOUS
    <2>2. k - m \in Gaps
      BY <2>1
    <2>3. g <= k - m
      BY <1>2, <2>2
    <2> QED
      BY <2>1, <2>3, <1>2
  <1>5. \A m \in S : k - g >= m
    BY <1>4, <1>3
  <1>6. \E x \in S : \A y \in S : x >= y
    BY <1>3, <1>5
  <1>7. Max(S) \in S /\ \A y \in S : Max(S) >= y
    BY <1>6 DEF Max
  <1> QED
    BY <1>7

---------------------------------------------------------------------------
(* Where a prompt may resume.                                              *)

\* The common length is that of a common prefix, and of the longest.
LEMMA CommonLenIs ==
    ASSUME NEW T, NEW s \in Seq(T), NEW t \in Seq(T)
    PROVE  /\ CommonLen(s, t) \in 0..Len(s) /\ CommonLen(s, t) <= Len(t)
           /\ Upto(s, CommonLen(s, t)) = Upto(t, CommonLen(s, t))
           /\ \A n \in 0..Len(s) : n <= Len(t) /\ Upto(s, n) = Upto(t, n) => n <= CommonLen(s, t)
  <1> DEFINE S == {n \in 0..Shorter(Len(s), Len(t)) : Upto(s, n) = Upto(t, n)}
  <1>1. /\ Shorter(Len(s), Len(t)) \in Nat
        /\ \A n \in Nat : n <= Shorter(Len(s), Len(t)) <=> n <= Len(s) /\ n <= Len(t)
    BY DEF Shorter
  <1>2. Upto(s, 0) = Upto(t, 0)
    BY SubSeqEmpty DEF Upto
  <1>3. S \subseteq 0..Shorter(Len(s), Len(t)) /\ 0 \in S
    BY <1>1, <1>2
  <1>4. Max(S) \in S /\ \A m \in S : m <= Max(S)
    <2> HIDE DEF S
    <2> QED
      BY <1>1, <1>3, MaxIs
  <1>5. CommonLen(s, t) = Max(S)
    BY DEF CommonLen
  <1>6. CommonLen(s, t) \in S
    BY <1>4, <1>5
  <1>7. \A n \in 0..Len(s) : n <= Len(t) /\ Upto(s, n) = Upto(t, n) => n <= CommonLen(s, t)
    BY <1>1, <1>4, <1>5
  <1> HIDE DEF S
  <1>8. /\ CommonLen(s, t) \in 0..Shorter(Len(s), Len(t))
        /\ Upto(s, CommonLen(s, t)) = Upto(t, CommonLen(s, t))
    BY <1>6 DEF S
  <1> QED
    BY <1>1, <1>7, <1>8

\* Histories that agree so far agree up to any earlier position.
LEMMA AgreeBelow ==
    ASSUME NEW T, NEW s \in Seq(T), NEW t \in Seq(T), NEW n \in Nat, n <= Len(s), n <= Len(t),
           Upto(s, n) = Upto(t, n), NEW m \in 0..n
    PROVE  Upto(s, m) = Upto(t, m)
  <1>1. n \in 0..Len(s) /\ n \in 0..Len(t)
    OBVIOUS
  <1>2. /\ Upto(s, n) \in Seq(T) /\ Len(Upto(s, n)) = n /\ IsPrefix(Upto(s, n), s)
        /\ Upto(t, n) \in Seq(T) /\ Len(Upto(t, n)) = n /\ IsPrefix(Upto(t, n), t)
    BY <1>1, UptoIs, UptoPrefix
  <1>3. Upto(Upto(s, n), m) = Upto(s, m) /\ Upto(Upto(t, n), m) = Upto(t, m)
    BY <1>2, PrefixIsUpto
  <1> QED
    BY <1>3

LEMMA SharedWithIs ==
    ASSUME NEW T, NEW c, c.tokens \in Seq(T), NEW prompt \in Seq(T), prompt # <<>>
    PROVE  /\ SharedWith(c, prompt) \in 0..Len(c.tokens)
           /\ SharedWith(c, prompt) < Len(prompt)
           /\ Upto(c.tokens, SharedWith(c, prompt)) = Upto(prompt, SharedWith(c, prompt))
  <1> DEFINE common == CommonLen(c.tokens, prompt)
             shared == SharedWith(c, prompt)
  <1>1. /\ common \in 0..Len(c.tokens) /\ common <= Len(prompt)
        /\ Upto(c.tokens, common) = Upto(prompt, common)
    BY CommonLenIs
  <1>2. Len(prompt) \in Nat \ {0} /\ Len(c.tokens) \in Nat
    OBVIOUS
  <1>3. shared \in 0..common /\ shared < Len(prompt)
    <2>1. shared = IF common <= Len(prompt) - 1 THEN common ELSE Len(prompt) - 1
      BY DEF SharedWith, Shorter
    <2> QED
      BY <2>1, <1>1, <1>2
  <1> HIDE DEF common, shared
  <1>4. Upto(c.tokens, shared) = Upto(prompt, shared)
    BY <1>1, <1>2, <1>3, AgreeBelow
  <1>5. shared \in 0..Len(c.tokens) /\ shared < Len(prompt)
    BY <1>1, <1>2, <1>3
  <1> QED
    BY <1>4, <1>5 DEF shared

\* The deepest snapshot at or below a position.
LEMMA RewindToIs ==
    ASSUME NEW c, NEW pos \in Nat
    PROVE  /\ RewindTo(c, pos) \in 0..pos
           /\ RewindTo(c, pos) > 0 => HasSnapshotAt(c, RewindTo(c, pos))
           /\ \A n \in 1..pos : HasSnapshotAt(c, n) => n <= RewindTo(c, pos)
  <1> DEFINE S == {0} \cup {n \in 1..pos : HasSnapshotAt(c, n)}
  <1>1. S \subseteq 0..pos /\ 0 \in S
    OBVIOUS
  <1>2. \A n \in S : n > 0 => HasSnapshotAt(c, n)
    OBVIOUS
  <1>3. \A n \in 1..pos : HasSnapshotAt(c, n) => n \in S
    OBVIOUS
  <1>4. RewindTo(c, pos) = Max(S)
    BY DEF RewindTo
  <1> HIDE DEF S
  <1>5. Max(S) \in S /\ \A m \in S : m <= Max(S)
    BY <1>1, MaxIs
  <1> QED
    BY <1>1, <1>2, <1>3, <1>4, <1>5

LEMMA SnapshotAtIs ==
    ASSUME NEW c, NEW pos, HasSnapshotAt(c, pos)
    PROVE  SnapshotAt(c, pos) \in AllSnapshots(c) /\ Len(SnapshotAt(c, pos)) = pos
  BY DEF HasSnapshotAt, SnapshotAt

---------------------------------------------------------------------------
(* What a ring keeps.                                                      *)

\* No two snapshots of a set are of one length.
OfDistinctLengths(S) == \A s \in S, t \in S : Len(s) = Len(t) => s = t

\* Prefixes of one history are finitely many, each of its own length.
LEMMA PrefixesAreFew ==
    ASSUME NEW T, NEW h \in Seq(T), NEW S \in SUBSET Seq(T), \A s \in S : IsPrefix(s, h)
    PROVE  IsFiniteSet(S) /\ OfDistinctLengths(S)
  <1>1. OfDistinctLengths(S)
    BY PrefixesOfOneLength DEF OfDistinctLengths
  <1> DEFINE f == [s \in S |-> Len(s)]
  <1>2. \A s \in S : Len(s) \in 0..Len(h)
    BY PrefixPointwise
  <1>3. f \in [S -> 0..Len(h)]
    BY <1>2
  <1>4. \A s \in S, t \in S : f[s] = f[t] => s = t
    BY <1>1 DEF OfDistinctLengths
  <1>5. f \in Injection(S, 0..Len(h))
    <2> HIDE DEF f
    <2> QED
      BY <1>3, <1>4 DEF Injection, IsInjective
  <1>6. IsFiniteSet(0..Len(h))
    BY FS_Interval
  <1>7. IsFiniteSet(S)
    <2> HIDE DEF f
    <2> QED
      BY <1>5, <1>6, FS_Injection
  <1> QED
    BY <1>1, <1>7

\* Keeping the snapshots fewer than n others outreach keeps at most n, and the
\* longest among them.
LEMMA NewestAreKept ==
    ASSUME NEW T, NEW S \in SUBSET Seq(T), IsFiniteSet(S), OfDistinctLengths(S), NEW n \in Nat,
           NEW R, R = {s \in S : Cardinality({t \in S : Len(t) > Len(s)}) < n}
    PROVE  /\ IsFiniteSet(R) /\ Cardinality(R) <= n
           /\ n > 0 => \A s \in S : (\A t \in S : Len(t) <= Len(s)) => s \in R
  <1> DEFINE Past(s) == {t \in S : Len(t) > Len(s)}
             rank == [s \in R |-> Cardinality(Past(s))]
  <1>1. \A s \in S : IsFiniteSet(Past(s)) /\ Cardinality(Past(s)) \in Nat
    BY FS_Subset, FS_CardinalityType
  <1>2. \A s \in R : s \in S /\ Cardinality(Past(s)) \in 0..(n - 1)
    BY <1>1
  <1>3. rank \in [R -> 0..(n - 1)]
    BY <1>2
  <1>4. ASSUME NEW s \in S, NEW t \in S, Len(s) < Len(t)
        PROVE  Cardinality(Past(t)) < Cardinality(Past(s))
    <2>1. /\ Len(s) \in Nat /\ Len(t) \in Nat
          /\ \A u \in S : Len(u) \in Nat
      OBVIOUS
    <2>2. Past(t) \subseteq Past(s) /\ t \in Past(s) /\ t \notin Past(t)
      BY <1>4, <2>1
    <2>3. /\ IsFiniteSet(Past(s)) /\ Cardinality(Past(s)) \in Nat
          /\ IsFiniteSet(Past(t)) /\ Cardinality(Past(t)) \in Nat
      BY <1>1
    <2> HIDE DEF Past
    <2>4. Cardinality(Past(t)) <= Cardinality(Past(s)) /\ Cardinality(Past(t)) # Cardinality(Past(s))
      BY <2>2, <2>3, FS_Subset
    <2> QED
      BY <2>3, <2>4
  <1>5. \A s \in R, t \in R : Cardinality(Past(s)) = Cardinality(Past(t)) => s = t
    <2> TAKE s \in R, t \in R
    <2>1. Len(s) \in Nat /\ Len(t) \in Nat
      BY <1>2
    <2>2. s \in S /\ t \in S
      BY <1>2
    <2>3. Cardinality(Past(s)) \in Nat /\ Cardinality(Past(t)) \in Nat
      BY <2>2, <1>1
    <2>4. Len(s) < Len(t) => Cardinality(Past(t)) < Cardinality(Past(s))
      BY <2>2, <1>4
    <2>5. Len(t) < Len(s) => Cardinality(Past(s)) < Cardinality(Past(t))
      BY <2>2, <1>4
    <2> HIDE DEF Past
    <2>6. Cardinality(Past(s)) = Cardinality(Past(t)) => Len(s) = Len(t)
      BY <2>1, <2>3, <2>4, <2>5
    <2> QED
      BY <2>2, <2>6 DEF OfDistinctLengths
  <1>6. rank \in Injection(R, 0..(n - 1))
    <2>1. \A s \in R, t \in R : rank[s] = rank[t] => s = t
      BY <1>5
    <2> HIDE DEF rank
    <2> QED
      BY <1>3, <2>1 DEF Injection, IsInjective
  <1>7. IsFiniteSet(0..(n - 1)) /\ Cardinality(0..(n - 1)) = n
    BY FS_Interval
  <1>8. IsFiniteSet(R) /\ Cardinality(R) <= n
    <2> HIDE DEF rank
    <2> QED
      BY <1>6, <1>7, FS_Injection
  <1>9. ASSUME n > 0, NEW s \in S, \A t \in S : Len(t) <= Len(s) PROVE s \in R
    <2>1. \A t \in S : Len(t) \in Nat /\ Len(s) \in Nat
      OBVIOUS
    <2>2. Past(s) = {}
      BY <1>9, <2>1
    <2>3. Cardinality(Past(s)) = 0
      BY <2>2, FS_EmptySet
    <2> QED
      BY <1>9, <2>3
  <1> QED
    BY <1>8, <1>9

---------------------------------------------------------------------------
(* What the operations on a cache make of it.                              *)

CacheOf(T) == [tokens : Seq(T), ring : SUBSET Seq(T), anchor : SUBSET Seq(T)]

\* The most snapshots a ring may hold: a page-out's tail ignores a zero cap.
RingBound == IF RingCapacity = 0 THEN 1 ELSE RingCapacity

\* The ring is within its bound and the anchor is one snapshot or none.
Fits(c) ==
    /\ IsFiniteSet(c.ring) /\ Cardinality(c.ring) <= RingBound
    /\ \A s \in c.anchor, t \in c.anchor : s = t

\* Every snapshot of the cache was taken along h.
Along(c, h) == \A s \in AllSnapshots(c) : IsPrefix(s, h)

LEMMA RingBoundIs == RingBound \in Nat \ {0} /\ Max({1, RingCapacity}) = RingBound
  <1>1. RingCapacity \in Nat
    BY PrefixConstantsOK
  <1>2. Max({1, RingCapacity}) \in {1, RingCapacity} /\ \A m \in {1, RingCapacity} : m <= Max({1, RingCapacity})
    <2>1. {1, RingCapacity} \subseteq 0..(RingCapacity + 1)
      BY <1>1
    <2> QED
      BY <1>1, <2>1, MaxIs
  <1> QED
    BY <1>1, <1>2 DEF RingBound

LEMMA FewerFit ==
    ASSUME NEW c, NEW d, Fits(c), d.ring \subseteq c.ring, d.anchor \subseteq c.anchor
    PROVE  Fits(d)
  <1>1. IsFiniteSet(d.ring) /\ Cardinality(d.ring) <= Cardinality(c.ring)
    BY FS_Subset DEF Fits
  <1>2. Cardinality(d.ring) \in Nat /\ Cardinality(c.ring) \in Nat /\ RingBound \in Nat
    BY <1>1, FS_CardinalityType, RingBoundIs DEF Fits
  <1> QED
    BY <1>1, <1>2 DEF Fits

LEMMA DropAfterIs ==
    ASSUME NEW T, NEW c \in CacheOf(T), NEW pos \in Nat
    PROVE  /\ DropAfter(c, pos) \in CacheOf(T) /\ DropAfter(c, pos).tokens = c.tokens
           /\ AllSnapshots(DropAfter(c, pos)) = {s \in AllSnapshots(c) : Len(s) <= pos}
           /\ Fits(c) => Fits(DropAfter(c, pos))
  <1>1. /\ DropAfter(c, pos) \in CacheOf(T) /\ DropAfter(c, pos).tokens = c.tokens
        /\ AllSnapshots(DropAfter(c, pos)) = {s \in AllSnapshots(c) : Len(s) <= pos}
        /\ DropAfter(c, pos).ring \subseteq c.ring /\ DropAfter(c, pos).anchor \subseteq c.anchor
    BY DEF DropAfter, CacheOf, AllSnapshots
  <1> QED
    BY <1>1, FewerFit

\* A snapshot recorded is the newest: those at or past it are gone, it is
\* itself kept, and nothing else is new.
LEMMA RecordIs ==
    ASSUME NEW T, NEW c \in CacheOf(T), NEW s \in Seq(T), NEW h \in Seq(T), Along(c, h),
           NEW n \in Nat \ {0}
    PROVE  /\ Record(c, s, n) \in CacheOf(T) /\ Record(c, s, n).tokens = c.tokens
           /\ s \in AllSnapshots(Record(c, s, n))
           /\ \A t \in AllSnapshots(Record(c, s, n)) :
                 t = s \/ (t \in AllSnapshots(c) /\ Len(t) < Len(s))
           /\ IsFiniteSet(Record(c, s, n).ring) /\ Cardinality(Record(c, s, n).ring) <= n
           /\ Record(c, s, n).anchor \subseteq c.anchor
  <1> DEFINE older == {t \in c.ring : Len(t) < Len(s)}
             kept == older \cup {s}
             R == {t \in kept : Cardinality({u \in kept : Len(u) > Len(t)}) < n}
  <1>1. c.ring \in SUBSET Seq(T) /\ c.anchor \in SUBSET Seq(T) /\ c.tokens \in Seq(T)
    BY DEF CacheOf
  <1>2. IsFiniteSet(older) /\ OfDistinctLengths(older)
    <2>1. older \in SUBSET Seq(T) /\ \A t \in older : IsPrefix(t, h)
      BY <1>1 DEF Along, AllSnapshots
    <2> HIDE DEF older
    <2> QED
      BY <2>1, PrefixesAreFew
  <1>3. kept \in SUBSET Seq(T) /\ IsFiniteSet(kept)
    <2>1. kept \in SUBSET Seq(T)
      BY <1>1
    <2> HIDE DEF older
    <2> QED
      BY <1>2, <2>1, FS_AddElement
  <1>4. OfDistinctLengths(kept)
    <2>1. \A t \in older : Len(t) # Len(s)
      BY <1>1
    <2> HIDE DEF older
    <2> QED
      BY <1>2, <2>1 DEF OfDistinctLengths
  <1>5. \A t \in kept : Len(t) <= Len(s)
    BY <1>1
  <1>6. Record(c, s, n) = [c EXCEPT !.ring = R, !.anchor = {t \in @ : Len(t) < Len(s)}]
    BY DEF Record
  <1> HIDE DEF older
  <1>7. s \in kept /\ R \subseteq kept /\ n \in Nat /\ n > 0
    OBVIOUS
  <1> HIDE DEF kept
  <1>8. R = {t \in kept : Cardinality({u \in kept : Len(u) > Len(t)}) < n}
    OBVIOUS
  <1> HIDE DEF R
  <1>9. IsFiniteSet(R) /\ Cardinality(R) <= n /\ s \in R
    BY <1>3, <1>4, <1>5, <1>7, <1>8, NewestAreKept
  <1>10. \A t \in R : t \in Seq(T) /\ (t = s \/ (t \in c.ring /\ Len(t) < Len(s)))
    BY <1>3, <1>7 DEF kept, older
  <1>11. /\ Record(c, s, n).ring = R
         /\ Record(c, s, n).anchor = {t \in c.anchor : Len(t) < Len(s)}
         /\ Record(c, s, n).tokens = c.tokens
         /\ Record(c, s, n) \in CacheOf(T)
    BY <1>1, <1>6, <1>10 DEF CacheOf
  <1> QED
    BY <1>9, <1>10, <1>11 DEF AllSnapshots

LEMMA PushIs ==
    ASSUME NEW T, NEW c \in CacheOf(T), NEW s \in Seq(T), NEW h \in Seq(T), Along(c, h), Fits(c)
    PROVE  /\ Push(c, s) \in CacheOf(T) /\ Push(c, s).tokens = c.tokens /\ Fits(Push(c, s))
           /\ \A t \in AllSnapshots(Push(c, s)) : t = s \/ t \in AllSnapshots(c)
  <1>1. CASE RingCapacity = 0
    BY <1>1 DEF Push
  <1>2. CASE RingCapacity # 0
    <2>1. RingBound = RingCapacity /\ RingCapacity \in Nat \ {0}
      BY <1>2, PrefixConstantsOK DEF RingBound
    <2>2. Push(c, s) = Record(c, s, RingCapacity)
      BY <1>2 DEF Push
    <2>3. /\ Record(c, s, RingCapacity) \in CacheOf(T) /\ Record(c, s, RingCapacity).tokens = c.tokens
          /\ s \in AllSnapshots(Record(c, s, RingCapacity))
          /\ \A t \in AllSnapshots(Record(c, s, RingCapacity)) :
                t = s \/ (t \in AllSnapshots(c) /\ Len(t) < Len(s))
          /\ IsFiniteSet(Record(c, s, RingCapacity).ring) /\ Cardinality(Record(c, s, RingCapacity).ring) <= RingCapacity
          /\ Record(c, s, RingCapacity).anchor \subseteq c.anchor
      BY <2>1, RecordIs
    <2> QED
      BY <2>1, <2>2, <2>3 DEF Fits
  <1> QED
    BY <1>1, <1>2

LEMMA PushTailIs ==
    ASSUME NEW T, NEW c \in CacheOf(T), NEW s \in Seq(T), NEW h \in Seq(T), Along(c, h), Fits(c)
    PROVE  /\ PushTail(c, s) \in CacheOf(T) /\ PushTail(c, s).tokens = c.tokens
           /\ Fits(PushTail(c, s)) /\ s \in AllSnapshots(PushTail(c, s))
           /\ \A t \in AllSnapshots(PushTail(c, s)) : t = s \/ t \in AllSnapshots(c)
  <1>1. PushTail(c, s) = Record(c, s, RingBound) /\ RingBound \in Nat \ {0}
    BY RingBoundIs DEF PushTail, RingBound
  <1>2. /\ Record(c, s, RingBound) \in CacheOf(T) /\ Record(c, s, RingBound).tokens = c.tokens
        /\ s \in AllSnapshots(Record(c, s, RingBound))
        /\ \A t \in AllSnapshots(Record(c, s, RingBound)) :
              t = s \/ (t \in AllSnapshots(c) /\ Len(t) < Len(s))
        /\ IsFiniteSet(Record(c, s, RingBound).ring) /\ Cardinality(Record(c, s, RingBound).ring) <= RingBound
        /\ Record(c, s, RingBound).anchor \subseteq c.anchor
    BY <1>1, RecordIs
  <1> QED
    BY <1>1, <1>2 DEF Fits

LEMMA SetAnchorIs ==
    ASSUME NEW T, NEW c \in CacheOf(T), NEW s \in Seq(T), Fits(c)
    PROVE  /\ SetAnchor(c, s) \in CacheOf(T) /\ SetAnchor(c, s).tokens = c.tokens
           /\ Fits(SetAnchor(c, s))
           /\ \A t \in AllSnapshots(SetAnchor(c, s)) : t = s \/ t \in AllSnapshots(c)
  BY DEF SetAnchor, CacheOf, AllSnapshots, Fits

---------------------------------------------------------------------------
(* Where a prefill stops.                                                  *)

\* The stops lie strictly between the resume point and the prompt's end, and
\* each has a position of its own.
StopsBetween(stops, resume, prompt) ==
    \A s \in stops :
        /\ s \in [at : Nat, why : {"anchor", "turn", "branch"}]
        /\ resume < s.at /\ s.at < Len(prompt)
        /\ \A t \in stops : t.at = s.at => t = s

LEMMA StopsAre ==
    ASSUME NEW T, NEW c, c.tokens \in Seq(T), NEW prompt \in Seq(T), prompt # <<>>,
           NEW resume \in Nat, NEW boundary \in Nat, NEW anchor \in Nat, NEW elsewhere \in Nat,
           boundary < Len(prompt),
           NEW stops, stops = SnapshotStops(c, prompt, resume, boundary, anchor, elsewhere)
    PROVE  StopsBetween(stops, resume, prompt)
  <1> DEFINE pinned == {p \in {anchor} : WorthTaking(p, resume, boundary, 0)}
             turn == {p \in {boundary} : resume < p /\ p < Len(prompt)}
             branch == Shorter(Max({SharedWith(c, prompt), elsewhere}), Len(prompt) - 1)
             already == Max({RewindTo(c, branch), resume}
                              \cup {p \in pinned \cup turn : p <= branch})
             fork == {p \in {branch} : WorthTaking(p, resume, Len(prompt), already)}
  <1>1. Len(prompt) \in Nat \ {0}
    OBVIOUS
  <1>2. \A p \in pinned : p = anchor /\ resume < p /\ p < boundary
    BY DEF WorthTaking
  <1>3. \A p \in turn : p = boundary /\ resume < p /\ p < Len(prompt)
    OBVIOUS
  <1>4. branch \in Nat
    <2>1. SharedWith(c, prompt) \in Nat
      <3>1. Len(c.tokens) \in Nat /\ SharedWith(c, prompt) \in 0..Len(c.tokens)
        BY SharedWithIs
      <3> QED
        BY <3>1
    <2> DEFINE both == {SharedWith(c, prompt), elsewhere}
    <2>2. both \subseteq 0..(SharedWith(c, prompt) + elsewhere) /\ both # {}
      BY <2>1
    <2>3. SharedWith(c, prompt) + elsewhere \in Nat
      BY <2>1
    <2>4. Max(both) \in both
      <3> HIDE DEF both
      <3> QED
        BY <2>2, <2>3, MaxIs
    <2>5. Max(both) \in Nat
      BY <2>1, <2>4
    <2> HIDE DEF both
    <2>6. Shorter(Max(both), Len(prompt) - 1) \in Nat
      BY <2>5, <1>1 DEF Shorter
    <2> QED
      BY <2>6 DEF both
  <1> HIDE DEF branch
  <1>5. \A p \in fork : p = branch /\ resume < p /\ p < Len(prompt)
    BY DEF WorthTaking
  <1> HIDE DEF pinned, turn, fork
  <1>6. stops \subseteq {[at |-> p, why |-> "anchor"] : p \in pinned}
                        \cup {[at |-> p, why |-> "turn"] : p \in turn}
                        \cup {[at |-> p, why |-> "branch"] : p \in fork \ (pinned \cup turn)}
    BY DEF SnapshotStops, pinned, turn, fork, branch
  <1>7. \A s \in stops :
           \/ s.why = "anchor" /\ s.at \in pinned /\ s = [at |-> s.at, why |-> "anchor"]
           \/ s.why = "turn" /\ s.at \in turn /\ s = [at |-> s.at, why |-> "turn"]
           \/ s.why = "branch" /\ s.at \in fork \ (pinned \cup turn) /\ s = [at |-> s.at, why |-> "branch"]
    BY <1>6
  <1>8. \A s \in stops : s.at \in Nat /\ resume < s.at /\ s.at < Len(prompt)
    BY <1>1, <1>2, <1>3, <1>4, <1>5, <1>7
  <1>9. \A p \in pinned : p \notin turn
    BY <1>2, <1>3
  <1>10. \A s \in stops, t \in stops : t.at = s.at => t = s
    BY <1>7, <1>9
  <1>11. \A s \in stops : s \in [at : Nat, why : {"anchor", "turn", "branch"}]
    BY <1>7, <1>8
  <1> QED
    BY <1>8, <1>10, <1>11 DEF StopsBetween
=============================================================================
