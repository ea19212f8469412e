----------------------------- MODULE SeqLemmas -----------------------------
(***************************************************************************)
(* Facts about cutting an element out of a sequence without repetitions:   *)
(* what the claim script and LREM do to sn:waiting.  And induction, stated *)
(* about sets of numbers instead of predicates, so that it can be used for *)
(* what a recursive function computes.                                     *)
(***************************************************************************)
EXTENDS Integers, SequencesExt, SequenceTheorems, FiniteSetTheorems, WellFoundedInduction, TLAPS

\* Every non-empty set of natural numbers has a least element.
LEMMA LeastNat ==
  ASSUME NEW T, T \subseteq Nat, T # {}
  PROVE  \E m \in T : \A n \in T : m <= n
<1> DEFINE U == {1 .. n : n \in T}
           R == StrictSubsetOrdering(Nat)
           F == FiniteSubsetsOf(Nat)
<1>1. U \subseteq F /\ U # {}
  <2> SUFFICES ASSUME NEW n \in T PROVE 1 .. n \in F
    BY DEF U
  <2>1. IsFiniteSet(1 .. n)
    BY FS_Interval
  <2> QED BY <2>1 DEF FiniteSubsetsOf
<1>2. IsWellFoundedOn(R, F)
  BY FS_StrictSubsetOrderingWellFounded
<1> HIDE DEF R, F, U
<1>3. \E x \in U : \A y \in U : <<y, x>> \notin R
  BY <1>1, <1>2, WFMin
<1>4. PICK m \in T : \A y \in U : <<y, 1 .. m>> \notin R
  BY <1>3 DEF U
<1>5. ASSUME NEW n \in T, n < m PROVE FALSE
  <2>1. 1 .. n \in U
    BY DEF U
  <2>2. 1 .. n \subseteq 1 .. m /\ m \in 1 .. m /\ m \notin 1 .. n
    BY <1>5
  <2>3. <<1 .. n, 1 .. m>> \in R
    BY <2>2 DEF R, StrictSubsetOrdering
  <2> QED BY <2>1, <2>3, <1>4
<1> QED BY <1>5
\* A non-empty set of positions has a last one.
LEMMA GreatestIndex ==
  ASSUME NEW n \in Nat, NEW T, T \subseteq 1 .. n, T # {}
  PROVE  \E m \in T : \A k \in T : k <= m
<1> DEFINE U == {n - k : k \in T}
<1>1. U \subseteq Nat /\ U # {}
  <2>1. ASSUME NEW k \in T PROVE n - k \in Nat
    OBVIOUS
  <2>2. PICK k : k \in T
    OBVIOUS
  <2>3. n - k \in U
    BY <2>2
  <2> QED BY <2>1, <2>3
<1> HIDE DEF U
<1>2. PICK u \in U : \A v \in U : u <= v
  BY <1>1, LeastNat
<1>3. PICK m \in T : u = n - m
  BY DEF U
<1>4. ASSUME NEW k \in T PROVE k <= m
  <2>1. u <= n - k
    BY <1>2 DEF U
  <2> QED BY <2>1, <1>3
<1> QED BY <1>4

\* Induction over an interval, for the set of the numbers it holds for.
LEMMA Induction ==
  ASSUME NEW N \in Nat, NEW S, 0 \in S, \A n \in 1 .. N : n - 1 \in S => n \in S
  PROVE  0 .. N \subseteq S
<1> DEFINE T == (0 .. N) \ S
<1>1. SUFFICES ASSUME T # {} PROVE FALSE
  BY DEF T
<1>2. T \subseteq Nat
  OBVIOUS
<1>3. PICK m \in T : \A n \in T : m <= n
  <2> HIDE DEF T
  <2> QED BY <1>1, <1>2, LeastNat
<1>4. m \in 1 .. N /\ m - 1 \notin T
  BY <1>3
<1> QED
  BY <1>3, <1>4

\* A function g on 0 .. N is built from c step by step.
IsStep(step, X, N) == step \in [X \X (1 .. N) -> X]
BuiltBy(g, c, step, X, N) ==
  g \in [0 .. N -> X] /\ g[0] = c /\ \A n \in 1 .. N : g[n] = step[<<g[n - 1], n>>]

\* Such a function exists: what justifies a definition by recursion.
LEMMA Iterates ==
  ASSUME NEW X, NEW c \in X, NEW N \in Nat, NEW step, IsStep(step, X, N)
  PROVE  \E g : BuiltBy(g, c, step, X, N)
<1> USE DEF IsStep
<1> DEFINE Good(g, n) == g[0] = c /\ \A i \in 1 .. n : g[i] = step[<<g[i - 1], i>>]
           S == {n \in 0 .. N : \E g \in [0 .. n -> X] : Good(g, n)}
<1>1. 0 \in S
  <2> DEFINE g == [i \in 0 .. 0 |-> c]
  <2>1. g \in [0 .. 0 -> X] /\ Good(g, 0)
    OBVIOUS
  <2> HIDE DEF g, Good
  <2> QED BY <2>1
<1>2. ASSUME NEW n \in 1 .. N, n - 1 \in S PROVE n \in S
  <2>1. PICK g \in [0 .. n - 1 -> X] : Good(g, n - 1)
    BY <1>2
  <2> DEFINE h == [i \in 0 .. n |-> IF i = n THEN step[<<g[n - 1], n>>] ELSE g[i]]
  <2>2. g[n - 1] \in X /\ step[<<g[n - 1], n>>] \in X
    <3>1. g[n - 1] \in X
      BY <2>1
    <3>2. <<g[n - 1], n>> \in X \X (1 .. N)
      BY <3>1
    <3> QED BY <3>1, <3>2
  <2>3. h \in [0 .. n -> X]
    <3>1. ASSUME NEW i \in 0 .. n, i # n PROVE g[i] \in X
      BY <3>1, <2>1
    <3> QED BY <2>2, <3>1
  <2>4. h[0] = c
    BY <2>1
  <2>5. ASSUME NEW i \in 1 .. n PROVE h[i] = step[<<h[i - 1], i>>]
    <3>1. h[i - 1] = g[i - 1]
      OBVIOUS
    <3>2. CASE i = n
      <4>1. h[n] = step[<<g[n - 1], n>>]
        OBVIOUS
      <4> HIDE DEF h
      <4> QED BY <3>1, <3>2, <4>1
    <3>3. CASE i # n
      <4>1. i \in 1 .. n - 1 /\ h[i] = g[i]
        BY <3>3
      <4>2. g[i] = step[<<g[i - 1], i>>]
        BY <4>1, <2>1
      <4> QED BY <4>1, <4>2, <3>1
    <3> QED BY <3>2, <3>3
  <2>6. Good(h, n)
    <3> HIDE DEF h
    <3> QED BY <2>4, <2>5
  <2> HIDE DEF h, Good
  <2> QED BY <2>3, <2>6
<1> HIDE DEF S
<1>3. 0 .. N \subseteq S
  BY <1>1, <1>2, Induction
<1>4. N \in S
  BY <1>3
<1> QED
  BY <1>4 DEF S, BuiltBy

-----------------------------------------------------------------------------

\* No element occurs twice.
Distinct(s) == \A a, b \in 1 .. Len(s) : s[a] = s[b] => a = b

\* The elements of a sequence by its indices.
LEMMA ToSetIndices == ASSUME NEW S, NEW s \in Seq(S)
                      PROVE  ToSet(s) = {s[a] : a \in 1 .. Len(s)}
  BY LenProperties DEF ToSet

\* Two sequences without repetitions and without a common element, one after the other.
LEMMA ConcatDistinct ==
  ASSUME NEW S, NEW s \in Seq(S), NEW t \in Seq(S),
         Distinct(s), Distinct(t), ToSet(s) \intersect ToSet(t) = {}
  PROVE  /\ s \o t \in Seq(S)
         /\ Distinct(s \o t)
         /\ ToSet(s \o t) = ToSet(s) \union ToSet(t)
<1> DEFINE c == s \o t
<1>1. Len(s) \in Nat /\ Len(t) \in Nat
  BY LenProperties
<1>2. /\ c \in Seq(S)
      /\ Len(c) = Len(s) + Len(t)
      /\ \A a \in 1 .. Len(s) + Len(t) : c[a] = IF a <= Len(s) THEN s[a] ELSE t[a - Len(s)]
  BY ConcatProperties
<1> HIDE DEF c
<1>3. /\ ToSet(c) = {c[a] : a \in 1 .. Len(c)}
      /\ ToSet(s) = {s[a] : a \in 1 .. Len(s)}
      /\ ToSet(t) = {t[a] : a \in 1 .. Len(t)}
  BY <1>2, ToSetIndices
<1>4. ASSUME NEW a \in 1 .. Len(s) PROVE a \in 1 .. Len(c) /\ c[a] = s[a]
  BY <1>1, <1>2
<1>5. ASSUME NEW a \in 1 .. Len(t) PROVE Len(s) + a \in 1 .. Len(c) /\ c[Len(s) + a] = t[a]
  <2>1. Len(s) + a \in 1 .. Len(s) + Len(t) /\ ~(Len(s) + a <= Len(s))
    BY <1>1
  <2>2. (Len(s) + a) - Len(s) = a
    BY <1>1
  <2> QED BY <2>1, <2>2, <1>2
<1>6. ASSUME NEW a \in 1 .. Len(c), a > Len(s)
      PROVE  a - Len(s) \in 1 .. Len(t) /\ c[a] = t[a - Len(s)]
  BY <1>6, <1>1, <1>2
<1>7. ToSet(c) = ToSet(s) \union ToSet(t)
  <2>1. ASSUME NEW a \in 1 .. Len(c) PROVE c[a] \in ToSet(s) \union ToSet(t)
    <3>1. CASE a <= Len(s)
      BY <3>1, <1>1, <1>2, <1>3, <1>4
    <3>2. CASE a > Len(s)
      BY <3>2, <1>3, <1>6
    <3> QED BY <3>1, <3>2, <1>1, <1>2
  <2>2. ASSUME NEW a \in 1 .. Len(s) PROVE s[a] \in ToSet(c)
    BY <1>3, <1>4
  <2>3. ASSUME NEW a \in 1 .. Len(t) PROVE t[a] \in ToSet(c)
    BY <1>3, <1>5
  <2> QED BY <2>1, <2>2, <2>3, <1>3
<1>8. Distinct(c)
  <2> SUFFICES ASSUME NEW a \in 1 .. Len(c), NEW b \in 1 .. Len(c), c[a] = c[b], a <= b
               PROVE  a = b
    BY <1>1, <1>2 DEF Distinct
  <2>1. CASE b <= Len(s)
    BY <2>1, <1>1, <1>2, <1>4 DEF Distinct
  <2>2. CASE a > Len(s)
    <3>1. a - Len(s) \in 1 .. Len(t) /\ b - Len(s) \in 1 .. Len(t)
      BY <2>2, <1>1, <1>2, <1>6
    <3>2. t[a - Len(s)] = t[b - Len(s)]
      BY <2>2, <1>1, <1>2, <1>6
    <3>3. a - Len(s) = b - Len(s)
      BY <3>1, <3>2 DEF Distinct
    <3> QED BY <3>3, <1>1, <1>2
  <2>3. CASE a <= Len(s) /\ b > Len(s)
    <3>1. a \in 1 .. Len(s)
      BY <2>3, <1>1, <1>2
    <3>2. c[a] \in ToSet(s)
      BY <3>1, <1>3, <1>4
    <3>3. c[b] \in ToSet(t)
      BY <2>3, <1>3, <1>6
    <3> QED BY <3>2, <3>3
  <2> QED BY <2>1, <2>2, <2>3, <1>1, <1>2
<1> QED
  BY <1>2, <1>7, <1>8 DEF c

\* The parts before and after an element.
LEMMA SplitAt ==
  ASSUME NEW S, NEW s \in Seq(S), NEW i \in 1 .. Len(s), Distinct(s)
  PROVE  LET h == SubSeq(s, 1, i - 1)
             t == SubSeq(s, i + 1, Len(s))
         IN  /\ h \in Seq(S) /\ t \in Seq(S)
             /\ Distinct(h) /\ Distinct(t)
             /\ ToSet(h) \intersect ToSet(t) = {}
             /\ ToSet(h) \union ToSet(t) = ToSet(s) \ {s[i]}
<1> DEFINE h == SubSeq(s, 1, i - 1)
           t == SubSeq(s, i + 1, Len(s))
<1>1. i \in 1 .. Len(s) /\ Len(s) \in Nat /\ \A a \in 1 .. Len(s) : s[a] \in S
  BY LenProperties
<1>2. /\ h \in Seq(S) /\ Len(h) = i - 1
      /\ \A a \in 1 .. i - 1 : h[a] = s[a]
  BY <1>1, SubSeqProperties
<1>3. /\ t \in Seq(S) /\ Len(t) = Len(s) - i
      /\ \A a \in 1 .. Len(s) - i : t[a] = s[i + a]
  BY <1>1, SubSeqProperties
<1> HIDE DEF h, t
<1>4. /\ ToSet(h) = {h[a] : a \in 1 .. i - 1}
      /\ ToSet(t) = {t[a] : a \in 1 .. Len(s) - i}
      /\ ToSet(s) = {s[a] : a \in 1 .. Len(s)}
  <2>1. ToSet(h) = {h[a] : a \in 1 .. i - 1}
    BY <1>2, ToSetIndices
  <2>2. ToSet(t) = {t[a] : a \in 1 .. Len(s) - i}
    BY <1>3, ToSetIndices
  <2> QED BY <2>1, <2>2, ToSetIndices
<1>5. Distinct(h) /\ Distinct(t)
  <2>1. ASSUME NEW a \in 1 .. Len(h), NEW b \in 1 .. Len(h), h[a] = h[b] PROVE a = b
    <3>1. a \in 1 .. Len(s) /\ b \in 1 .. Len(s) /\ s[a] = s[b]
      BY <2>1, <1>1, <1>2
    <3> QED BY <3>1 DEF Distinct
  <2>2. ASSUME NEW a \in 1 .. Len(t), NEW b \in 1 .. Len(t), t[a] = t[b] PROVE a = b
    <3>1. i + a \in 1 .. Len(s) /\ i + b \in 1 .. Len(s) /\ s[i + a] = s[i + b]
      BY <2>2, <1>1, <1>3
    <3>2. i + a = i + b
      BY <3>1 DEF Distinct
    <3> QED BY <3>2, <1>1, <1>3
  <2> QED BY <2>1, <2>2 DEF Distinct
<1>6. ToSet(h) \intersect ToSet(t) = {}
  <2> SUFFICES ASSUME NEW a \in 1 .. i - 1, NEW b \in 1 .. Len(s) - i, h[a] = t[b]
               PROVE  FALSE
    BY <1>4
  <2>1. a \in 1 .. Len(s) /\ i + b \in 1 .. Len(s) /\ a # i + b
    BY <1>1
  <2>2. s[a] = s[i + b]
    BY <1>2, <1>3
  <2> QED BY <2>1, <2>2 DEF Distinct
<1>7. ToSet(h) \union ToSet(t) \subseteq ToSet(s) \ {s[i]}
  BY <1>1, <1>2, <1>3, <1>4 DEF Distinct
<1>8. ASSUME NEW b \in 1 .. Len(s), s[b] # s[i] PROVE s[b] \in ToSet(h) \union ToSet(t)
  <2>1. CASE b < i
    BY <2>1, <1>1, <1>2, <1>4
  <2>2. CASE b > i
    <3>1. b - i \in 1 .. Len(s) - i /\ i + (b - i) = b
      BY <2>2, <1>1
    <3>2. t[b - i] = s[b]
      BY <3>1, <1>3
    <3> QED BY <3>1, <3>2, <1>4
  <2> QED BY <2>1, <2>2, <1>8, <1>1
<1> QED
  BY <1>2, <1>3, <1>4, <1>5, <1>6, <1>7, <1>8 DEF h, t

\* Cutting an element out, with or without turning the rest, yields a sequence.
LEMMA SplitType ==
  ASSUME NEW S, NEW s \in Seq(S), NEW i \in DOMAIN s
  PROVE  /\ SubSeq(s, 1, i - 1) \o SubSeq(s, i + 1, Len(s)) \in Seq(S)
         /\ SubSeq(s, i + 1, Len(s)) \o SubSeq(s, 1, i - 1) \in Seq(S)
<1>1. i \in 1 .. Len(s) /\ Len(s) \in Nat /\ \A a \in 1 .. Len(s) : s[a] \in S
  BY LenProperties
<1>2. SubSeq(s, 1, i - 1) \in Seq(S) /\ SubSeq(s, i + 1, Len(s)) \in Seq(S)
  BY <1>1, SubSeqProperties
<1> QED
  BY <1>2, ConcatProperties

\* Either way exactly that element is gone.
LEMMA Shrinks ==
  ASSUME NEW S, NEW s \in Seq(S), Distinct(s), NEW i \in DOMAIN s
  PROVE  /\ LET c == SubSeq(s, i + 1, Len(s)) \o SubSeq(s, 1, i - 1)
            IN  Distinct(c) /\ ToSet(c) = ToSet(s) \ {s[i]}
         /\ LET c == RemoveAt(s, i)
            IN  Distinct(c) /\ ToSet(c) = ToSet(s) \ {s[i]}
<1> DEFINE h == SubSeq(s, 1, i - 1)
           t == SubSeq(s, i + 1, Len(s))
<1>1. i \in 1 .. Len(s)
  BY LenProperties
<1>2. /\ h \in Seq(S) /\ t \in Seq(S)
      /\ Distinct(h) /\ Distinct(t)
      /\ ToSet(h) \intersect ToSet(t) = {}
      /\ ToSet(h) \union ToSet(t) = ToSet(s) \ {s[i]}
  BY <1>1, SplitAt
<1> HIDE DEF h, t
<1>3. /\ Distinct(t \o h) /\ ToSet(t \o h) = ToSet(s) \ {s[i]}
  <2>1. ToSet(t) \intersect ToSet(h) = {}
    BY <1>2
  <2>2. Distinct(t \o h) /\ ToSet(t \o h) = ToSet(t) \union ToSet(h)
    BY <1>2, <2>1, ConcatDistinct
  <2> QED BY <1>2, <2>2
<1>4. /\ Distinct(h \o t) /\ ToSet(h \o t) = ToSet(s) \ {s[i]}
  <2>2. Distinct(h \o t) /\ ToSet(h \o t) = ToSet(h) \union ToSet(t)
    BY <1>2, ConcatDistinct
  <2> QED BY <1>2, <2>2
<1> QED
  BY <1>3, <1>4 DEF h, t, RemoveAt

\* Appending a new element.
LEMMA Grows ==
  ASSUME NEW S, NEW s \in Seq(S), Distinct(s), NEW e \in S, e \notin ToSet(s)
  PROVE  Distinct(Append(s, e)) /\ ToSet(Append(s, e)) = ToSet(s) \union {e}
<1> DEFINE t == <<e>>
<1>1. t \in Seq(S) /\ Distinct(t) /\ ToSet(t) = {e}
  BY DEF Distinct, ToSet
<1>2. Append(s, e) = s \o t
  BY AppendIsConcat
<1> HIDE DEF t
<1>3. Distinct(s \o t) /\ ToSet(s \o t) = ToSet(s) \union ToSet(t)
  BY <1>1, ConcatDistinct
<1> QED
  BY <1>1, <1>2, <1>3
=============================================================================
