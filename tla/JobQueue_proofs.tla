--------------------------- MODULE JobQueue_proofs ---------------------------
(***************************************************************************)
(* Proofs about JobQueue, for any jobs, profiles, operators and limits.    *)
(*                                                                         *)
(* Everything a call does ends in Tick, so the argument has three parts:   *)
(* what Without leaves of a queue (WithoutKeepsOrder; by induction over    *)
(* its loop), what Tick starts (StartedFacts; its budget is counted in     *)
(* Rationed), and Ready, which says that the queue, the running jobs and   *)
(* the states agree.  Every handler hands Tick a queue that is Ready, and  *)
(* Tick leaves one behind with no slot idle: that is the invariant Inv.    *)
(* The action properties then follow from what a tick and the end of a     *)
(* scrape do to each job, and the steps map to steps of ProfileQueue.      *)
(***************************************************************************)
EXTENDS JobQueue, SeqLemmas

-----------------------------------------------------------------------------
(* What Without computes.                                                  *)

\* The loop's next list of kept jobs.
Keeps(q, S, r, n) == IF q[n] \in S THEN r ELSE Append(r, q[n])

\* The loop is well defined, and does at each position what it says.
LEMMA WithoutLoop ==
  ASSUME NEW q \in Seq(Jobs), NEW S
  PROVE  \E kept \in [0 .. Len(q) -> Seq(Jobs)] :
            /\ kept[0] = <<>>
            /\ \A n \in 1 .. Len(q) : kept[n] = Keeps(q, S, kept[n - 1], n)
            /\ Without(q, S) = kept[Len(q)]
<1> DEFINE N == Len(q)
           X == Seq(Jobs)
           F(g) == [n \in 0 .. N |-> IF n = 0 THEN <<>> ELSE Keeps(q, S, g[n - 1], n)]
           step == [x \in X \X (1 .. N) |-> Keeps(q, S, x[1], x[2])]
           kept == CHOOSE g : g = F(g)
<1>1. N \in Nat /\ \A n \in 1 .. N : q[n] \in Jobs
  BY LenProperties
<1>2. Without(q, S) = kept[N]
  BY DEF Without, Keeps
<1>3. ASSUME NEW r \in X, NEW n \in 1 .. N PROVE Keeps(q, S, r, n) \in X
  <2>1. Append(r, q[n]) \in Seq(Jobs)
    BY <1>1, AppendProperties
  <2> QED BY <2>1 DEF Keeps
<1>4. <<>> \in X
  BY EmptySeq
<1> HIDE DEF N, X
<1>5. \E g : g = F(g)
  <2>1. IsStep(step, X, N)
    BY <1>3 DEF IsStep
  <2> HIDE DEF step
  <2>2. PICK g : BuiltBy(g, <<>>, step, X, N)
    BY <2>1, <1>1, <1>4, Iterates
  <2>3. ASSUME NEW n \in 1 .. N PROVE g[n] = Keeps(q, S, g[n - 1], n)
    <3>1. n - 1 \in 0 .. N
      BY <1>1
    <3>2. g[n - 1] \in X
      BY <3>1, <2>2 DEF BuiltBy
    <3> QED BY <3>2, <2>2 DEF step, BuiltBy
  <2>4. g = F(g)
    BY <2>2, <2>3, <1>1 DEF BuiltBy
  <2> QED BY <2>4
<1>6. kept = F(kept)
  BY <1>5
<1> HIDE DEF kept
<1>7. kept[0] = <<>> /\ \A n \in 1 .. N : kept[n] = Keeps(q, S, kept[n - 1], n)
  <2>1. ASSUME NEW n \in 0 .. N
        PROVE  F(kept)[n] = IF n = 0 THEN <<>> ELSE Keeps(q, S, kept[n - 1], n)
    OBVIOUS
  <2> HIDE DEF F
  <2>2. ASSUME NEW n \in 0 .. N
        PROVE  kept[n] = IF n = 0 THEN <<>> ELSE Keeps(q, S, kept[n - 1], n)
    BY <1>6, <2>1
  <2> QED BY <2>2, <1>1
<1>8. kept \in [0 .. N -> X]
  <2> DEFINE G == {n \in 0 .. N : kept[n] \in X}
  <2>1. 0 \in G
    BY <1>1, <1>4, <1>7
  <2>2. ASSUME NEW n \in 1 .. N, n - 1 \in G PROVE n \in G
    BY <2>2, <1>1, <1>3, <1>7
  <2> HIDE DEF G
  <2>3. 0 .. N \subseteq G
    BY <2>1, <2>2, <1>1, Induction
  <2>4. \A n \in 0 .. N : kept[n] \in X
    BY <2>3 DEF G
  <2> QED BY <2>4, <1>6
<1> QED
  BY <1>2, <1>7, <1>8 DEF N, X

\* The kept jobs are those outside the set, in their order.
InOrder(q, r) ==
  \A a, b \in 1 .. Len(r) : a < b =>
     \E c, d \in 1 .. Len(q) : c < d /\ q[c] = r[a] /\ q[d] = r[b]

LEMMA WithoutFacts ==
  ASSUME NEW q \in Seq(Jobs), NEW S
  PROVE  LET r == Without(q, S)
         IN  r \in Seq(Jobs) /\ ToSet(r) = ToSet(q) \ S /\ InOrder(q, r)
<1> DEFINE N == Len(q)
<1>1. N \in Nat /\ \A n \in 1 .. N : q[n] \in Jobs
  BY LenProperties
<1>2. PICK kept \in [0 .. N -> Seq(Jobs)] :
            /\ kept[0] = <<>>
            /\ \A n \in 1 .. N : kept[n] = Keeps(q, S, kept[n - 1], n)
            /\ Without(q, S) = kept[N]
  BY WithoutLoop
<1> HIDE DEF N
<1> DEFINE Seen(n) == {q[i] : i \in 1 .. n}
           Holds(n) == {kept[n][a] : a \in 1 .. Len(kept[n])}
           Sorted(n) == \A a, b \in 1 .. Len(kept[n]) : a < b =>
                          \E c, d \in 1 .. n : c < d /\ q[c] = kept[n][a] /\ q[d] = kept[n][b]
           G == {n \in 0 .. N : Holds(n) = Seen(n) \ S /\ Sorted(n)}
<1>3. 0 \in G
  BY <1>1, <1>2
<1>4. ASSUME NEW n \in 1 .. N, n - 1 \in G PROVE n \in G
  <2>1. /\ n - 1 \in 0 .. N /\ n \in 0 .. N /\ kept[n - 1] \in Seq(Jobs)
        /\ kept[n] = Keeps(q, S, kept[n - 1], n)
    BY <1>1, <1>2
  <2>2. Seen(n) = Seen(n - 1) \union {q[n]}
    <3>1. 1 .. n = (1 .. n - 1) \union {n}
      BY <1>1
    <3> QED BY <3>1
  <2>3. Holds(n - 1) = Seen(n - 1) \ S /\ Sorted(n - 1)
    BY <1>4
  <2>4. CASE q[n] \in S
    <3>1. kept[n] = kept[n - 1]
      BY <2>1, <2>4 DEF Keeps
    <3>2. Holds(n) = Seen(n) \ S
      BY <3>1, <2>2, <2>3, <2>4
    <3>3. Sorted(n)
      <4> SUFFICES ASSUME NEW a \in 1 .. Len(kept[n]), NEW b \in 1 .. Len(kept[n]), a < b
                   PROVE  \E c, d \in 1 .. n : c < d /\ q[c] = kept[n][a] /\ q[d] = kept[n][b]
        OBVIOUS
      <4>1. PICK c \in 1 .. n - 1, d \in 1 .. n - 1 :
                   c < d /\ q[c] = kept[n][a] /\ q[d] = kept[n][b]
        BY <3>1, <2>3
      <4>2. c \in 1 .. n /\ d \in 1 .. n
        BY <1>1
      <4> QED BY <4>1, <4>2
    <3> QED BY <3>2, <3>3, <2>1
  <2>5. CASE q[n] \notin S
    <3>1. PICK p \in Seq(Jobs) : p = kept[n - 1] /\ kept[n] = Append(p, q[n])
      BY <2>1, <2>5 DEF Keeps
    <3>2. PICK m \in Nat : m = Len(p)
      BY LenProperties
    <3>3. /\ Len(kept[n]) = m + 1 /\ kept[n][m + 1] = q[n]
          /\ \A a \in 1 .. m : kept[n][a] = p[a]
      BY <3>1, <3>2, <1>1, AppendProperties
    <3>4. 1 .. Len(kept[n]) = (1 .. m) \union {m + 1}
      BY <3>3
    <3>5. Holds(n) = Holds(n - 1) \union {q[n]}
      <4>1. Holds(n - 1) = {p[a] : a \in 1 .. m}
        BY <3>1, <3>2
      <4>2. Holds(n) = {kept[n][a] : a \in 1 .. m} \union {q[n]}
        BY <3>3, <3>4
      <4>3. {kept[n][a] : a \in 1 .. m} = {p[a] : a \in 1 .. m}
        BY <3>3
      <4> QED BY <4>1, <4>2, <4>3
    <3>6. Holds(n) = Seen(n) \ S
      BY <3>5, <2>2, <2>3, <2>5
    <3>7. Sorted(n)
      <4> SUFFICES ASSUME NEW a \in 1 .. Len(kept[n]), NEW b \in 1 .. Len(kept[n]), a < b
                   PROVE  \E c, d \in 1 .. n : c < d /\ q[c] = kept[n][a] /\ q[d] = kept[n][b]
        OBVIOUS
      <4>1. a \in 1 .. m /\ kept[n][a] = p[a]
        <5>1. a \in 1 .. m + 1 /\ b \in 1 .. m + 1 /\ a < b
          BY <3>3
        <5>2. a \in 1 .. m
          BY <5>1, <3>2
        <5> QED BY <5>2, <3>3
      <4>2. CASE b \in 1 .. m
        <5>1. PICK c \in 1 .. n - 1, d \in 1 .. n - 1 : c < d /\ q[c] = p[a] /\ q[d] = p[b]
          BY <4>1, <4>2, <2>3, <3>1, <3>2
        <5>2. c \in 1 .. n /\ d \in 1 .. n /\ kept[n][b] = p[b]
          BY <1>1, <3>3, <4>2
        <5> QED BY <5>1, <5>2, <4>1
      <4>3. CASE b = m + 1
        <5>1. p[a] \in Seen(n - 1)
          BY <4>1, <2>3, <3>1, <3>2
        <5>2. PICK c \in 1 .. n - 1 : q[c] = p[a]
          BY <5>1
        <5>3. c \in 1 .. n /\ n \in 1 .. n /\ c < n
          BY <1>1
        <5> QED BY <5>2, <5>3, <4>1, <4>3, <3>3
      <4> QED BY <4>2, <4>3, <3>4
    <3> QED BY <3>6, <3>7, <2>1
  <2> QED BY <2>4, <2>5
<1>5. N \in G
  <2> HIDE DEF G
  <2>1. 0 .. N \subseteq G
    BY <1>1, <1>3, <1>4, Induction
  <2> QED BY <2>1, <1>1
<1>6. kept[N] \in Seq(Jobs)
  BY <1>1, <1>2
<1>7. ToSet(kept[N]) = Holds(N) /\ ToSet(q) = Seen(N)
  <2>1. ToSet(kept[N]) = Holds(N)
    BY <1>6, ToSetIndices
  <2>2. ToSet(q) = Seen(N)
    BY ToSetIndices DEF N
  <2> QED BY <2>1, <2>2
<1> QED
  BY <1>2, <1>5, <1>6, <1>7 DEF InOrder, N

-----------------------------------------------------------------------------
(* What _tick starts.                                                      *)

\* The budget goes to the first positions of a set: no more than there is room for,
\* and to all of them if there is room left.
First(able, space) == {c \in able : Cardinality({h \in able : h < c}) < space}

LEMMA Rationed ==
  ASSUME NEW n \in Nat, NEW able, able \subseteq 1 .. n, NEW space \in Int
  PROVE  /\ IsFiniteSet(First(able, space))
         /\ Cardinality(First(able, space)) \in Nat
         /\ space >= 0 => Cardinality(First(able, space)) <= space
         /\ space <= 0 => First(able, space) = {}
         /\ Cardinality(First(able, space)) < space => First(able, space) = able
<1> DEFINE F == First(able, space)
           Before(c) == {h \in able : h < c}
<1>1. IsFiniteSet(able) /\ able \subseteq Nat
  <2>1. IsFiniteSet(1 .. n) /\ 1 .. n \subseteq Nat
    BY FS_Interval
  <2> QED BY <2>1, FS_Subset
<1>2. ASSUME NEW T, T \subseteq able
      PROVE  IsFiniteSet(T) /\ Cardinality(T) \in Nat
  BY <1>1, <1>2, FS_Subset, FS_CardinalityType
<1>3. F \subseteq able /\ \A c \in able : c \in F <=> Cardinality(Before(c)) < space
  BY DEF First
<1>4. \A c \in able : Before(c) \subseteq able
  OBVIOUS
<1> HIDE DEF F
<1>5. space <= 0 => F = {}
  <2> SUFFICES ASSUME space <= 0, NEW c \in F PROVE FALSE
    OBVIOUS
  <2>1. Cardinality(Before(c)) \in Nat /\ Cardinality(Before(c)) < space
    BY <1>2, <1>3, <1>4
  <2> QED BY <2>1
<1>6. ASSUME space >= 0 PROVE Cardinality(F) <= space
  <2>1. CASE F = {}
    BY <2>1, <1>6, FS_EmptySet
  <2>2. CASE F # {}
    <3>1. PICK c \in F : \A d \in F : d <= c
      BY <2>2, <1>3, GreatestIndex
    <3>2. F \subseteq Before(c) \union {c}
      BY <1>3, <3>1
    <3>3. c \in able /\ Cardinality(Before(c)) < space
      BY <1>3
    <3>4. IsFiniteSet(Before(c)) /\ Cardinality(Before(c)) \in Nat
      BY <1>2, <1>4, <3>3
    <3>5. c \notin Before(c)
      BY <3>3
    <3> HIDE DEF Before
    <3>6. /\ IsFiniteSet(Before(c) \union {c})
          /\ Cardinality(Before(c) \union {c}) = Cardinality(Before(c)) + 1
      BY <3>4, <3>5, FS_AddElement
    <3>7. Cardinality(F) <= Cardinality(Before(c) \union {c})
      BY <3>2, <3>6, FS_Subset
    <3>8. Cardinality(F) \in Nat
      BY <1>2, <1>3
    <3> QED BY <3>3, <3>4, <3>6, <3>7, <3>8
  <2> QED BY <2>1, <2>2
<1>7. ASSUME Cardinality(F) < space PROVE F = able
  <2> SUFFICES ASSUME able \ F # {} PROVE FALSE
    BY <1>3
  <2>1. PICK c \in able \ F : \A d \in able \ F : c <= d
    <3>1. able \ F \subseteq Nat
      BY <1>1
    <3> QED BY <3>1, LeastNat
  <2>2. ASSUME NEW h \in able, h < c PROVE h \in F
    <3>1. h \in Nat /\ c \in Nat
      BY <1>1
    <3>2. ~(c <= h)
      BY <3>1, <2>2
    <3> QED BY <3>2, <2>1
  <2>3. ~(Cardinality(Before(c)) < space) /\ Before(c) \subseteq F
    BY <1>3, <2>1, <2>2
  <2> HIDE DEF Before
  <2>4. IsFiniteSet(F) /\ Cardinality(F) \in Nat
    BY <1>2, <1>3
  <2>5. Cardinality(Before(c)) <= Cardinality(F) /\ Cardinality(Before(c)) \in Nat
    BY <2>3, <2>4, FS_Subset, FS_CardinalityType
  <2> QED BY <2>3, <2>4, <2>5, <1>7
<1> QED
  BY <1>2, <1>3, <1>5, <1>6, <1>7 DEF F

\* The jobs of a queue without repetitions that _tick starts, while run runs: each
\* waits, and is the first of a profile nobody drives; no two share a profile; they
\* fit into the free slots; with a slot left over no startable job is passed by.
LEMMA StartedFacts ==
  ASSUME NEW q \in Seq(Jobs), Distinct(q),
         NEW run, IsFiniteSet(run), Cardinality(run) <= MaxConcurrent
  PROVE  LET S == Started(q, run)
         IN  /\ S \subseteq ToSet(q) /\ IsFiniteSet(S)
             /\ mode # "up" => S = {}
             /\ \A j \in S : ProfileOf[j] \notin ProfilesOf(run)
             /\ \A j, k \in S : ProfileOf[j] = ProfileOf[k] => j = k
             /\ \A c, d \in 1 .. Len(q) :
                   c < d /\ q[d] \in S => ProfileOf[q[c]] # ProfileOf[q[d]]
             /\ Cardinality(run) + Cardinality(S) <= MaxConcurrent
             /\ mode = "up" /\ Cardinality(run) + Cardinality(S) < MaxConcurrent
                  => ProfilesOf(ToSet(q)) \subseteq ProfilesOf(run \union S)
<1> DEFINE n     == Len(q)
           able  == Startable(q, run)
           space == MaxConcurrent - Cardinality(run)
           F     == First(able, space)
           S     == Started(q, run)
<1>1. n \in Nat /\ DOMAIN q = 1 .. n /\ (\A i \in 1 .. n : q[i] \in Jobs)
  BY LenProperties
<1>2. Cardinality(run) \in Nat /\ space \in Nat
  BY FS_CardinalityType, BoundsAssumption
<1>3. mode # "up" => S = {}
  BY DEF Started
<1>4. mode = "up" => S = {q[i] : i \in F}
  BY DEF Started, First
<1>5. /\ able \subseteq 1 .. n
      /\ \A i \in 1 .. n : i \in able <=>
           /\ ProfileOf[q[i]] \notin ProfilesOf(run)
           /\ \A h \in 1 .. i - 1 : ProfileOf[q[h]] # ProfileOf[q[i]]
  BY <1>1 DEF Startable
<1> HIDE DEF n, able, space, S
<1>6. /\ IsFiniteSet(F) /\ Cardinality(F) \in Nat
      /\ Cardinality(F) <= space
      /\ Cardinality(F) < space => F = able
  <2>1. n \in Nat /\ able \subseteq 1 .. n /\ space \in Int /\ space >= 0
    BY <1>1, <1>2, <1>5
  <2> QED BY <2>1, Rationed
<1>7. F \subseteq able
  BY DEF First
<1> HIDE DEF F
<1>8. ASSUME mode = "up" PROVE IsFiniteSet(S) /\ Cardinality(S) = Cardinality(F)
  <2> DEFINE f == [i \in F |-> q[i]]
  <2>1. f \in Bijection(F, S)
    <3>1. \A a, b \in F : f[a] = f[b] => a = b
      <4> SUFFICES ASSUME NEW a \in F, NEW b \in F, q[a] = q[b] PROVE a = b
        OBVIOUS
      <4>1. a \in 1 .. n /\ b \in 1 .. n
        BY <1>5, <1>7
      <4> QED BY <4>1 DEF Distinct, n
    <3>2. f \in [F -> S]
      BY <1>4, <1>8
    <3>3. \A s \in S : \E a \in F : f[a] = s
      BY <1>4, <1>8
    <3> HIDE DEF f
    <3>4. f \in Injection(F, S)
      BY <3>1, <3>2 DEF Injection, IsInjective
    <3>5. f \in Surjection(F, S)
      BY <3>2, <3>3 DEF Surjection
    <3> QED BY <3>4, <3>5 DEF Bijection
  <2>2. ExistsBijection(F, S)
    BY <2>1 DEF ExistsBijection
  <2> QED BY <2>2, <1>6, FS_Bijection
<1>9. IsFiniteSet(S) /\ Cardinality(run) + Cardinality(S) <= MaxConcurrent
  <2>1. CASE mode = "up"
    <3>1. IsFiniteSet(S) /\ Cardinality(S) <= space /\ Cardinality(S) \in Nat
      BY <2>1, <1>6, <1>8
    <3> QED BY <3>1, <1>2, BoundsAssumption DEF space
  <2>2. CASE mode # "up"
    <3>1. S = {} /\ IsFiniteSet(S) /\ Cardinality(S) = 0
      BY <2>2, <1>3, FS_EmptySet
    <3> QED BY <3>1, <1>2
  <2> QED BY <2>1, <2>2
<1>10. ASSUME NEW j \in S
       PROVE  \E i \in able : j = q[i] /\ i \in 1 .. n
  BY <1>3, <1>4, <1>5, <1>7
<1>11. S \subseteq ToSet(q)
  BY <1>1, <1>10, ToSetIndices
<1>12. \A j \in S : ProfileOf[j] \notin ProfilesOf(run)
  BY <1>5, <1>10
<1>13. ASSUME NEW j \in S, NEW k \in S, ProfileOf[j] = ProfileOf[k] PROVE j = k
  <2>1. PICK a \in able : j = q[a] /\ a \in 1 .. n
    BY <1>10
  <2>2. PICK b \in able : k = q[b] /\ b \in 1 .. n
    BY <1>10
  <2>3. ~(a < b)
    <3>1. a < b => a \in 1 .. b - 1
      BY <1>1, <2>1, <2>2
    <3> QED BY <3>1, <1>5, <1>13, <2>1, <2>2
  <2>4. ~(b < a)
    <3>1. b < a => b \in 1 .. a - 1
      BY <1>1, <2>1, <2>2
    <3> QED BY <3>1, <1>5, <1>13, <2>1, <2>2
  <2>5. a = b
    BY <1>1, <2>1, <2>2, <2>3, <2>4
  <2> QED BY <2>1, <2>2, <2>5
<1>14. ASSUME NEW c \in 1 .. n, NEW d \in 1 .. n, c < d, q[d] \in S
       PROVE  ProfileOf[q[c]] # ProfileOf[q[d]]
  <2>1. PICK b \in able : q[d] = q[b] /\ b \in 1 .. n
    BY <1>10, <1>14
  <2>2. b = d
    BY <2>1 DEF Distinct, n
  <2>3. c \in 1 .. d - 1
    BY <1>1, <1>14
  <2> QED BY <2>1, <2>2, <2>3, <1>5
<1>15. ASSUME mode = "up", Cardinality(run) + Cardinality(S) < MaxConcurrent
       PROVE  ProfilesOf(ToSet(q)) \subseteq ProfilesOf(run \union S)
  <2>1. F = able
    BY <1>2, <1>6, <1>8, <1>15, BoundsAssumption DEF space
  <2> SUFFICES ASSUME NEW p \in ProfilesOf(ToSet(q)), p \notin ProfilesOf(run)
               PROVE  p \in ProfilesOf(S)
    BY DEF ProfilesOf
  <2> DEFINE T == {i \in 1 .. n : ProfileOf[q[i]] = p}
  <2>2. T # {}
    <3>1. PICK j \in ToSet(q) : p = ProfileOf[j]
      BY DEF ProfilesOf
    <3>2. PICK i \in 1 .. n : j = q[i]
      BY ToSetIndices DEF n
    <3> QED BY <3>1, <3>2
  <2>3. PICK i \in T : \A k \in T : i <= k
    <3>1. T \subseteq Nat
      OBVIOUS
    <3> HIDE DEF T
    <3> QED BY <2>2, <3>1, LeastNat
  <2>4. ASSUME NEW h \in 1 .. i - 1 PROVE ProfileOf[q[h]] # ProfileOf[q[i]]
    <3>1. h \in 1 .. n /\ ~(i <= h)
      BY <1>1, <2>3
    <3> QED BY <3>1, <2>3
  <2>5. i \in able
    BY <1>5, <2>3, <2>4
  <2>6. q[i] \in S
    BY <1>4, <1>15, <2>1, <2>5
  <2> QED BY <2>3, <2>6 DEF ProfilesOf
<1> QED
  BY <1>3, <1>9, <1>11, <1>12, <1>13, <1>14, <1>15 DEF S, n

-----------------------------------------------------------------------------
(* The inductive invariant.                                                *)

\* The queue and the running jobs agree with the states of the jobs, no job is queued
\* twice, no profile drives two browsers, and no more jobs run than there are slots.
Ready(st, q, run) ==
  /\ st \in [Jobs -> JobStates]
  /\ q \in Seq(Jobs) /\ Distinct(q)
  /\ run = {j \in Jobs : st[j] = "running"}
  /\ ToSet(q) = {j \in Jobs : st[j] = "queued"}
  /\ IsFiniteSet(run) /\ Cardinality(run) <= MaxConcurrent
  /\ \A j, k \in run : ProfileOf[j] = ProfileOf[k] => j = k

\* Taking jobs out of a queue leaves no repetition and turns no two jobs round.
LEMMA WithoutKeepsOrder ==
  ASSUME NEW q \in Seq(Jobs), Distinct(q), NEW S
  PROVE  LET r == Without(q, S)
         IN  /\ r \in Seq(Jobs) /\ Distinct(r) /\ ToSet(r) = ToSet(q) \ S
             /\ \A a, b \in 1 .. Len(q) : a < b /\ q[a] \notin S /\ q[b] \notin S =>
                  \E c, d \in 1 .. Len(r) : c < d /\ r[c] = q[a] /\ r[d] = q[b]
<1> DEFINE r == Without(q, S)
<1>1. r \in Seq(Jobs) /\ ToSet(r) = ToSet(q) \ S /\ InOrder(q, r)
  BY WithoutFacts
<1> HIDE DEF r
<1>2. Len(q) \in Nat /\ Len(r) \in Nat
  BY <1>1, LenProperties
<1>3. ASSUME NEW a \in 1 .. Len(r), NEW b \in 1 .. Len(r), a < b PROVE r[a] # r[b]
  <2>1. PICK c \in 1 .. Len(q), d \in 1 .. Len(q) : c < d /\ q[c] = r[a] /\ q[d] = r[b]
    BY <1>1, <1>3 DEF InOrder
  <2>2. c # d
    BY <1>2, <2>1
  <2> QED BY <2>1, <2>2 DEF Distinct
<1>4. Distinct(r)
  <2> SUFFICES ASSUME NEW a \in 1 .. Len(r), NEW b \in 1 .. Len(r), r[a] = r[b]
               PROVE  a = b
    BY DEF Distinct
  <2>1. ~(a < b) /\ ~(b < a)
    BY <1>3
  <2> QED BY <2>1, <1>2
<1>5. ASSUME NEW a \in 1 .. Len(q), NEW b \in 1 .. Len(q), a < b, q[a] \notin S, q[b] \notin S
      PROVE  \E c, d \in 1 .. Len(r) : c < d /\ r[c] = q[a] /\ r[d] = q[b]
  <2>1. q[a] \in ToSet(q) /\ q[b] \in ToSet(q)
    BY ToSetIndices
  <2>2. PICK c \in 1 .. Len(r), d \in 1 .. Len(r) : r[c] = q[a] /\ r[d] = q[b]
    <3>1. q[a] \in ToSet(r) /\ q[b] \in ToSet(r)
      BY <2>1, <1>1, <1>5
    <3>2. ToSet(r) = {r[c] : c \in 1 .. Len(r)}
      BY <1>1, ToSetIndices
    <3> QED BY <3>1, <3>2
  <2>3. c < d
    <3>1. CASE d < c
      <4>1. PICK e \in 1 .. Len(q), f \in 1 .. Len(q) : e < f /\ q[e] = r[d] /\ q[f] = r[c]
        BY <3>1, <1>1 DEF InOrder
      <4>2. e = b /\ f = a
        BY <4>1, <2>2 DEF Distinct
      <4> QED BY <4>1, <4>2, <1>5, <1>2
    <3>2. CASE d = c
      <4>1. a = b
        BY <2>2, <3>2 DEF Distinct
      <4> QED BY <4>1, <1>5, <1>2
    <3> QED BY <3>1, <3>2, <1>2
  <2> QED BY <2>2, <2>3
<1> QED
  BY <1>1, <1>4, <1>5 DEF r

\* A cancellation takes queued jobs only, and leaves the queue in step with the states.
LEMMA CancelKeeps ==
  ASSUME NEW st, NEW q, NEW run, Ready(st, q, run), NEW S
  PROVE  Ready(Cancelled(st, S), Without(q, S), run)
<1>1. /\ Without(q, S) \in Seq(Jobs) /\ Distinct(Without(q, S))
      /\ ToSet(Without(q, S)) = ToSet(q) \ S
  BY WithoutKeepsOrder DEF Ready
<1> DEFINE ct == Cancelled(st, S)
<1>2. /\ ct \in [Jobs -> JobStates]
      /\ \A j \in Jobs : /\ ct[j] = "running" <=> st[j] = "running"
                         /\ ct[j] = "queued" <=> st[j] = "queued" /\ j \notin S
  BY DEF Ready, Cancelled, JobStates
<1> HIDE DEF ct
<1>3. Ready(ct, Without(q, S), run)
  BY <1>1, <1>2 DEF Ready
<1> QED
  BY <1>3 DEF ct

\* A tick keeps them in step, and wastes no slot.
LEMMA TickKeeps ==
  ASSUME NEW st, NEW q, NEW run, Ready(st, q, run), Tick(st, q, run)
  PROVE  /\ Ready(state', queue', running')
         /\ run \subseteq running'
         /\ mode = "up" /\ Cardinality(running') < MaxConcurrent
              => ProfilesOf(ToSet(queue')) \subseteq ProfilesOf(running')
<1> DEFINE S == Started(q, run)
<1>1. /\ S \subseteq ToSet(q) /\ IsFiniteSet(S)
      /\ \A j \in S : ProfileOf[j] \notin ProfilesOf(run)
      /\ \A j, k \in S : ProfileOf[j] = ProfileOf[k] => j = k
      /\ Cardinality(run) + Cardinality(S) <= MaxConcurrent
      /\ mode = "up" /\ Cardinality(run) + Cardinality(S) < MaxConcurrent
           => ProfilesOf(ToSet(q)) \subseteq ProfilesOf(run \union S)
  <2>1. /\ q \in Seq(Jobs) /\ Distinct(q)
        /\ IsFiniteSet(run) /\ Cardinality(run) <= MaxConcurrent
    BY DEF Ready
  <2> QED BY <2>1, StartedFacts
<1>2. /\ state' = [j \in Jobs |-> IF j \in S THEN "running" ELSE st[j]]
      /\ queue' = Without(q, S)
      /\ running' = run \union S
  BY DEF Tick
<1> HIDE DEF S
<1>3. /\ queue' \in Seq(Jobs) /\ Distinct(queue') /\ ToSet(queue') = ToSet(q) \ S
  BY <1>2, WithoutKeepsOrder DEF Ready
<1>4. IsFiniteSet(running') /\ Cardinality(running') = Cardinality(run) + Cardinality(S)
  <2>1. run \intersect S = {}
    BY <1>1 DEF ProfilesOf
  <2>2. IsFiniteSet(run) /\ Cardinality(run) \in Nat /\ Cardinality(S) \in Nat
    BY <1>1, FS_CardinalityType DEF Ready
  <2>3. Cardinality(run \intersect S) = 0
    BY <2>1, FS_EmptySet
  <2>4. /\ IsFiniteSet(run \union S)
        /\ Cardinality(run \union S) = Cardinality(run) + Cardinality(S) - Cardinality(run \intersect S)
    BY <1>1, <2>2, FS_Union
  <2> QED BY <1>2, <2>2, <2>3, <2>4
<1>5. /\ state' \in [Jobs -> JobStates]
      /\ running' = {j \in Jobs : state'[j] = "running"}
      /\ ToSet(queue') = {j \in Jobs : state'[j] = "queued"}
  <2>1. S \subseteq Jobs
    BY <1>1 DEF Ready
  <2>2. \A j \in Jobs : state'[j] = IF j \in S THEN "running" ELSE st[j]
    BY <1>2
  <2>3. state' \in [Jobs -> JobStates]
    BY <1>2 DEF Ready, JobStates
  <2>4. running' = {j \in Jobs : state'[j] = "running"}
    BY <1>2, <2>1, <2>2 DEF Ready
  <2>5. ToSet(queue') = {j \in Jobs : state'[j] = "queued"}
    BY <1>3, <2>2 DEF Ready
  <2> QED BY <2>3, <2>4, <2>5
<1>6. ASSUME NEW j \in running', NEW k \in running', ProfileOf[j] = ProfileOf[k] PROVE j = k
  BY <1>1, <1>2, <1>6 DEF Ready, ProfilesOf
<1>7. Ready(state', queue', running')
  BY <1>1, <1>3, <1>4, <1>5, <1>6 DEF Ready
<1>8. mode = "up" /\ Cardinality(running') < MaxConcurrent
        => ProfilesOf(ToSet(queue')) \subseteq ProfilesOf(running')
  BY <1>1, <1>2, <1>3, <1>4 DEF ProfilesOf
<1> QED
  BY <1>2, <1>7, <1>8

Inv ==
  /\ Ready(state, queue, running)
  /\ paused \subseteq running
  /\ stopping \subseteq running
  /\ mode \in {"up", "draining", "gone"}
  /\ NoIdleSlot

LEMMA InitReady == Init => Inv
<1> SUFFICES ASSUME Init PROVE Inv
  OBVIOUS
<1>1. queue \in Seq(Jobs) /\ Distinct(queue) /\ ToSet(queue) = {}
  <2>1. queue \in Seq(Jobs) /\ Len(queue) = 0
    BY EmptySeq DEF Init
  <2>2. ToSet(queue) = {queue[a] : a \in 1 .. 0}
    BY <2>1, ToSetIndices
  <2>3. 1 .. 0 = {}
    OBVIOUS
  <2> QED BY <2>1, <2>2, <2>3 DEF Distinct
<1>2. IsFiniteSet(running) /\ Cardinality(running) <= MaxConcurrent
  BY FS_EmptySet, BoundsAssumption DEF Init
<1>3. state \in [Jobs -> JobStates] /\ \A j \in Jobs : state[j] = "absent"
  BY DEF Init, JobStates
<1>4. Ready(state, queue, running)
  BY <1>1, <1>2, <1>3 DEF Init, Ready
<1> QED
  BY <1>1, <1>4 DEF Init, Inv, NoIdleSlot, ProfilesOf

\* A new batch waits behind the others.
LEMMA AddReady ==
  ASSUME Inv, NEW b \in Batches, \A i \in DOMAIN b : state[b[i]] = "absent"
  PROVE  /\ Ready([j \in Jobs |-> IF j \in ToSet(b) THEN "queued" ELSE state[j]],
                  queue \o b, running)
         /\ \A j \in ToSet(b) : state[j] = "absent"
<1>1. b \in Seq(Jobs) /\ Distinct(b)
  <2>1. PICK n \in 1 .. MaxBatch : b \in [1 .. n -> Jobs]
    BY DEF Batches
  <2>2. n \in Nat
    BY BoundsAssumption
  <2>3. b \in Seq(Jobs) /\ DOMAIN b = 1 .. Len(b)
    BY <2>1, <2>2, SeqDef, LenProperties
  <2> QED BY <2>3 DEF Batches, Distinct
<1>2. ToSet(b) = {b[i] : i \in DOMAIN b} /\ ToSet(b) \subseteq Jobs
  BY <1>1, ToSetIndices, LenProperties
<1>3. \A j \in ToSet(b) : j \in Jobs /\ state[j] = "absent"
  BY <1>2
<1> DEFINE st == [j \in Jobs |-> IF j \in ToSet(b) THEN "queued" ELSE state[j]]
<1>4. st \in [Jobs -> JobStates]
  BY DEF Inv, Ready, JobStates
<1>5. \A j \in Jobs : /\ st[j] = "running" <=> state[j] = "running"
                      /\ st[j] = "queued" <=> state[j] = "queued" \/ j \in ToSet(b)
  BY <1>3
<1> HIDE DEF st
<1>6. /\ queue \o b \in Seq(Jobs) /\ Distinct(queue \o b)
      /\ ToSet(queue \o b) = ToSet(queue) \union ToSet(b)
  <2>1. queue \in Seq(Jobs) /\ Distinct(queue) /\ ToSet(queue) = {j \in Jobs : state[j] = "queued"}
    BY DEF Inv, Ready
  <2>2. ToSet(queue) \intersect ToSet(b) = {}
    BY <1>3, <2>1
  <2> QED BY <1>1, <2>1, <2>2, ConcatDistinct
<1>7. Ready(st, queue \o b, running)
  BY <1>3, <1>4, <1>5, <1>6 DEF Inv, Ready
<1> QED
  BY <1>3, <1>7 DEF st

\* The scrape that ended gives its slot back, and a rate limit takes its operator's
\* jobs out of the queue: what the last tick of _runJob finds.
EndedBy(j, how) == [state EXCEPT ![j] = how]
Cut(j, how) == IF how = "limited" THEN OfUser(UserOf[j]) ELSE {}

LEMMA FinishReady ==
  ASSUME Inv, NEW j \in running, NEW how \in Ends
  PROVE  Ready(Cancelled(EndedBy(j, how), Cut(j, how)), Without(queue, Cut(j, how)), running \ {j})
<1>1. EndedBy(j, how) \in [Jobs -> JobStates]
  BY DEF EndedBy, Inv, Ready, Ends, JobStates
<1>2. \A k \in Jobs : /\ EndedBy(j, how)[k] = "running" <=> state[k] = "running" /\ k # j
                      /\ EndedBy(j, how)[k] = "queued" <=> state[k] = "queued"
  BY DEF EndedBy, Inv, Ready, Ends
<1>3. IsFiniteSet(running \ {j}) /\ Cardinality(running \ {j}) <= MaxConcurrent
  <2>1. IsFiniteSet(running) /\ Cardinality(running) <= MaxConcurrent
    BY DEF Inv, Ready
  <2>2. /\ IsFiniteSet(running \ {j}) /\ Cardinality(running \ {j}) <= Cardinality(running)
        /\ Cardinality(running) \in Nat /\ Cardinality(running \ {j}) \in Nat
    BY <2>1, FS_Subset, FS_CardinalityType
  <2> QED BY <2>1, <2>2, BoundsAssumption
<1> DEFINE e == EndedBy(j, how)
<1> HIDE DEF e
<1>4. Ready(e, queue, running \ {j})
  BY <1>1, <1>2, <1>3 DEF Inv, Ready, e
<1>5. Ready(Cancelled(e, Cut(j, how)), Without(queue, Cut(j, how)), running \ {j})
  BY <1>4, CancelKeeps
<1> QED
  BY <1>5 DEF e

\* A cancellation outside a tick frees no slot, so it leaves none idle.
LEMMA CancelInv ==
  ASSUME Inv, NEW S, state' = Cancelled(state, S), queue' = Without(queue, S),
         UNCHANGED <<running, mode>>
  PROVE  Ready(state', queue', running') /\ NoIdleSlot'
<1>1. Ready(state', queue', running')
  BY CancelKeeps DEF Inv
<1>2. ToSet(queue') \subseteq ToSet(queue)
  BY WithoutKeepsOrder DEF Inv, Ready
<1> QED
  BY <1>1, <1>2 DEF Inv, NoIdleSlot, ProfilesOf

LEMMA FinishIsTick ==
  ASSUME NEW j, NEW how, Finish(j, how)
  PROVE  Tick(Cancelled(EndedBy(j, how), Cut(j, how)), Without(queue, Cut(j, how)), running \ {j})
  BY DEF Finish, EndedBy, Cut

LEMMA StepReady == Inv /\ [Next]_vars => Inv'
<1> SUFFICES ASSUME Inv, [Next]_vars PROVE Inv'
  OBVIOUS
<1>1. ASSUME NEW b \in Batches, Add(b) PROVE Inv'
  <2>1. /\ Ready(state', queue', running') /\ running \subseteq running'
        /\ mode = "up" /\ Cardinality(running') < MaxConcurrent
             => ProfilesOf(ToSet(queue')) \subseteq ProfilesOf(running')
    BY <1>1, AddReady, TickKeeps DEF Add
  <2>2. UNCHANGED <<paused, stopping, mode>>
    BY <1>1 DEF Add
  <2> QED BY <2>1, <2>2 DEF Inv, NoIdleSlot
<1>2. ASSUME NEW j \in Jobs, SheetError(j) PROVE Inv'
  <2>1. Ready(state', queue', running') /\ NoIdleSlot'
    BY <1>2, CancelInv DEF SheetError
  <2> QED BY <1>2, <2>1 DEF Inv, SheetError
<1>3. ASSUME NEW j \in Jobs, NEW how \in Ends, Finish(j, how) PROVE Inv'
  <2>1. j \in running
    BY <1>3 DEF Finish
  <2>2. /\ Ready(state', queue', running') /\ running \ {j} \subseteq running'
        /\ mode = "up" /\ Cardinality(running') < MaxConcurrent
             => ProfilesOf(ToSet(queue')) \subseteq ProfilesOf(running')
    BY <1>3, <2>1, FinishReady, FinishIsTick, TickKeeps
  <2>3. paused' = paused \ {j} /\ stopping' = stopping \ {j} /\ mode' = mode
    BY <1>3 DEF Finish
  <2> QED BY <2>2, <2>3 DEF Inv, NoIdleSlot
<1>4. ASSUME NEW S \in Selections, PauseFor(S) PROVE Inv'
  BY <1>4 DEF Inv, PauseFor, NoIdleSlot
<1>5. ASSUME NEW S \in Selections, ResumeFor(S) PROVE Inv'
  BY <1>5 DEF Inv, ResumeFor, NoIdleSlot
<1>6. ASSUME NEW S \in Selections, StopFor(S) PROVE Inv'
  <2>1. Ready(state', queue', running') /\ NoIdleSlot'
    BY <1>6, CancelInv DEF StopFor
  <2> QED BY <1>6, <2>1 DEF Inv, StopFor
<1>7. CASE DrainStart
  BY <1>7 DEF Inv, DrainStart, NoIdleSlot
<1>8. CASE Exit
  <2>1. queue' \in Seq(Jobs) /\ Distinct(queue') /\ ToSet(queue') = {}
    <3>1. queue' \in Seq(Jobs) /\ Len(queue') = 0
      BY <1>8, EmptySeq DEF Exit
    <3>2. ToSet(queue') = {queue'[a] : a \in 1 .. 0}
      BY <3>1, ToSetIndices
    <3> QED BY <3>1, <3>2 DEF Distinct
  <2>2. IsFiniteSet(running') /\ Cardinality(running') <= MaxConcurrent
    BY <1>8, FS_EmptySet, BoundsAssumption DEF Exit
  <2>3. /\ state' \in [Jobs -> JobStates]
        /\ \A j \in Jobs : state'[j] \notin {"queued", "running"}
    BY <1>8 DEF Exit, Inv, Ready, JobStates
  <2>4. Ready(state', queue', running')
    BY <1>8, <2>1, <2>2, <2>3 DEF Exit, Ready
  <2> QED BY <1>8, <2>4 DEF Exit, Inv, NoIdleSlot
<1>9. CASE UNCHANGED vars
  BY <1>9 DEF vars, Inv, NoIdleSlot
<1> QED
  BY <1>1, <1>2, <1>3, <1>4, <1>5, <1>6, <1>7, <1>8, <1>9 DEF Next

LEMMA InvStable == Spec => []Inv
  BY InitReady, StepReady, PTL DEF Spec

-----------------------------------------------------------------------------
(* The theorems.                                                           *)

\* The queue and the running jobs always are those the states name.
THEOREM TypeCorrect == Spec => []TypeOK
<1>1. Inv => TypeOK
  BY DEF Inv, Ready, TypeOK
<1> QED
  BY <1>1, InvStable, PTL

\* No call returns with a free slot while the job of an idle profile waits
\* (queue.js:177-179): the property NoIdleSlot of the run.
THEOREM NoSlotIdles == Spec => []NoIdleSlot
<1>1. Inv => NoIdleSlot
  BY DEF Inv
<1> QED
  BY <1>1, InvStable, PTL

\* At most MAX_CONCURRENT_SCRAPES jobs run, and at most one per GoLogin profile
\* (queue.js:180-190), although a tick starts several at once from a budget and a
\* map of busy profiles that it updates as it goes.
SlotsRespected ==
  /\ IsFiniteSet(running) /\ Cardinality(running) <= MaxConcurrent
  /\ \A j, k \in running : ProfileOf[j] = ProfileOf[k] => j = k

THEOREM SlotsAndProfiles == Spec => []SlotsRespected
<1>1. Inv => SlotsRespected
  BY DEF Inv, Ready, SlotsRespected
<1> QED
  BY <1>1, InvStable, PTL

\* What a tick does to the jobs: it starts queued ones, and nothing else.
LEMMA TickStates ==
  ASSUME NEW st, NEW q, NEW run, Ready(st, q, run), Tick(st, q, run)
  PROVE  /\ \A j \in Jobs : state'[j] = IF j \in Started(q, run) THEN "running" ELSE st[j]
         /\ \A j \in Started(q, run) : j \in ToSet(q) /\ st[j] = "queued"
         /\ \A c, d \in 1 .. Len(q) :
               c < d /\ q[d] \in Started(q, run) => ProfileOf[q[c]] # ProfileOf[q[d]]
<1>1. /\ q \in Seq(Jobs) /\ Distinct(q)
      /\ IsFiniteSet(run) /\ Cardinality(run) <= MaxConcurrent
      /\ ToSet(q) = {j \in Jobs : st[j] = "queued"}
  BY DEF Ready
<1>2. /\ Started(q, run) \subseteq ToSet(q)
      /\ \A c, d \in 1 .. Len(q) :
            c < d /\ q[d] \in Started(q, run) => ProfileOf[q[c]] # ProfileOf[q[d]]
  BY <1>1, StartedFacts
<1>3. state' = [j \in Jobs |-> IF j \in Started(q, run) THEN "running" ELSE st[j]]
  BY DEF Tick
<1> QED
  BY <1>1, <1>2, <1>3

\* The end of a scrape, job by job: what its tick finds in the queue and starts.
Left(j, how) == Without(queue, Cut(j, how))
StartedAfter(j, how) == Started(Left(j, how), running \ {j})
FinishMoves(j, how) ==
  /\ j \in running /\ state'[j] = how
  /\ \A k \in Jobs \ {j} :
        state'[k] = IF k \in StartedAfter(j, how) THEN "running"
                    ELSE IF k \in Cut(j, how) /\ state[k] = "queued" THEN "cancelled"
                    ELSE state[k]
  /\ \A k \in StartedAfter(j, how) : state[k] = "queued" /\ k \in ToSet(queue) \ Cut(j, how)
  /\ \A c, d \in 1 .. Len(Left(j, how)) :
        c < d /\ Left(j, how)[d] \in StartedAfter(j, how)
          => ProfileOf[Left(j, how)[c]] # ProfileOf[Left(j, how)[d]]

LEMMA FinishStates ==
  ASSUME Inv, NEW j \in Jobs, NEW how \in Ends, Finish(j, how)
  PROVE  FinishMoves(j, how)
<1> DEFINE r  == Left(j, how)
           st == Cancelled(EndedBy(j, how), Cut(j, how))
           S  == StartedAfter(j, how)
<1>1. j \in running
  BY DEF Finish
<1>2. Ready(st, r, running \ {j}) /\ Tick(st, r, running \ {j})
  BY <1>1, FinishReady, FinishIsTick DEF Left
<1>3. ToSet(r) = ToSet(queue) \ Cut(j, how)
  BY WithoutKeepsOrder DEF Left, Inv, Ready
<1>4. /\ st[j] = how
      /\ \A k \in Jobs \ {j} :
            st[k] = IF k \in Cut(j, how) /\ state[k] = "queued" THEN "cancelled" ELSE state[k]
  BY DEF Cancelled, EndedBy, Inv, Ready, Ends
<1>5. ToSet(queue) = {k \in Jobs : state[k] = "queued"}
  BY DEF Inv, Ready
<1> HIDE DEF st, r
<1>6. /\ \A k \in Jobs : state'[k] = IF k \in S THEN "running" ELSE st[k]
      /\ \A k \in S : k \in ToSet(r) /\ st[k] = "queued"
      /\ \A c, d \in 1 .. Len(r) : c < d /\ r[d] \in S => ProfileOf[r[c]] # ProfileOf[r[d]]
  BY <1>2, TickStates DEF StartedAfter, r
<1> HIDE DEF S
<1>7. j \notin S
  BY <1>4, <1>6 DEF Ends
<1>8. \A k \in S : state[k] = "queued" /\ k \in ToSet(queue) \ Cut(j, how)
  BY <1>3, <1>5, <1>6
<1> QED
  BY <1>1, <1>4, <1>6, <1>7, <1>8 DEF FinishMoves, r, S

\* The life of a job: submitted once, queued, running, over; a batch may be started by
\* the very call that adds it.
Moved(s, t) ==
  \/ t = s
  \/ s = "absent" /\ t \in {"queued", "running"}
  \/ s = "queued" /\ t \in {"running", "cancelled", "lost"}
  \/ s = "running" /\ t \in {"done", "error", "limited", "lost"}

LEMMA StepMoves ==
  ASSUME Inv, [Next]_vars, NEW k \in Jobs
  PROVE  Moved(state[k], state'[k])
<1>1. ASSUME NEW b \in Batches, Add(b) PROVE Moved(state[k], state'[k])
  <2> DEFINE st == [j \in Jobs |-> IF j \in ToSet(b) THEN "queued" ELSE state[j]]
             S  == Started(queue \o b, running)
  <2>1. /\ Ready(st, queue \o b, running) /\ Tick(st, queue \o b, running)
        /\ \A j \in ToSet(b) : state[j] = "absent"
    BY <1>1, AddReady DEF Add
  <2>2. st[k] = IF k \in ToSet(b) THEN "queued" ELSE state[k]
    OBVIOUS
  <2> HIDE DEF st
  <2>3. state'[k] = (IF k \in S THEN "running" ELSE st[k]) /\ (k \in S => st[k] = "queued")
    BY <2>1, TickStates
  <2> QED BY <2>1, <2>2, <2>3 DEF Moved
<1>2. ASSUME NEW j \in Jobs, SheetError(j) PROVE Moved(state[k], state'[k])
  BY <1>2 DEF SheetError, Cancelled, Moved
<1>3. ASSUME NEW j \in Jobs, NEW how \in Ends, Finish(j, how) PROVE Moved(state[k], state'[k])
  <2>1. FinishMoves(j, how)
    BY <1>3, FinishStates
  <2>2. CASE k = j
    BY <2>1, <2>2 DEF FinishMoves, Moved, Ends, Inv, Ready
  <2>3. CASE k # j
    BY <2>1, <2>3 DEF FinishMoves, Moved
  <2> QED BY <2>2, <2>3
<1>4. ASSUME NEW S \in Selections, PauseFor(S) \/ ResumeFor(S) PROVE Moved(state[k], state'[k])
  BY <1>4 DEF PauseFor, ResumeFor, Moved
<1>5. ASSUME NEW S \in Selections, StopFor(S) PROVE Moved(state[k], state'[k])
  BY <1>5 DEF StopFor, Cancelled, Moved
<1>6. CASE DrainStart
  BY <1>6 DEF DrainStart, Moved
<1>7. CASE Exit
  BY <1>7 DEF Exit, Moved
<1>8. CASE UNCHANGED vars
  BY <1>8 DEF vars, Moved
<1> QED
  BY <1>1, <1>2, <1>3, <1>4, <1>5, <1>6, <1>7, <1>8 DEF Next

\* The jobs of a profile start in the order of the queue, also when cancels and cascades
\* take jobs out of its middle (queue.js:183-185): the property ProfileFIFO of the run.
OldestFirst(a, b) ==
  /\ a < b
  /\ ProfileOf[queue[a]] = ProfileOf[queue[b]]
  /\ state'[queue[b]] = "running"
  => state'[queue[a]] \notin {"queued", "running"}

LEMMA StepKeepsOrder ==
  ASSUME Inv, [Next]_vars, NEW a \in DOMAIN queue, NEW b \in DOMAIN queue
  PROVE  OldestFirst(a, b)
<1> SUFFICES ASSUME a < b, ProfileOf[queue[a]] = ProfileOf[queue[b]],
                    state'[queue[b]] = "running"
             PROVE  state'[queue[a]] \notin {"queued", "running"}
  BY DEF OldestFirst
<1>1. /\ queue \in Seq(Jobs) /\ Distinct(queue) /\ Len(queue) \in Nat
      /\ a \in 1 .. Len(queue) /\ b \in 1 .. Len(queue)
  BY LenProperties DEF Inv, Ready
<1>2. /\ queue[a] \in Jobs /\ state[queue[a]] = "queued"
      /\ queue[b] \in Jobs /\ state[queue[b]] = "queued"
  <2>1. queue[a] \in ToSet(queue) /\ queue[b] \in ToSet(queue)
    BY <1>1, ToSetIndices
  <2> QED BY <2>1 DEF Inv, Ready
<1>3. ASSUME NEW c \in Batches, Add(c) PROVE FALSE
  <2> DEFINE st == [j \in Jobs |-> IF j \in ToSet(c) THEN "queued" ELSE state[j]]
             q  == queue \o c
             S  == Started(q, running)
  <2>1. Ready(st, q, running) /\ Tick(st, q, running)
    BY <1>3, AddReady DEF Add
  <2>2. st[queue[b]] = "queued"
    BY <1>2
  <2>3. a \in 1 .. Len(q) /\ b \in 1 .. Len(q) /\ q[a] = queue[a] /\ q[b] = queue[b]
    <3>1. c \in Seq(Jobs)
      <4>1. PICK n \in 1 .. MaxBatch : c \in [1 .. n -> Jobs]
        BY DEF Batches
      <4> QED BY <4>1, BoundsAssumption, SeqDef
    <3>2. Len(c) \in Nat
      BY <3>1, LenProperties
    <3> QED BY <1>1, <3>1, <3>2, ConcatProperties
  <2> HIDE DEF st, q
  <2>4. /\ \A j \in Jobs : state'[j] = IF j \in S THEN "running" ELSE st[j]
        /\ \A x, y \in 1 .. Len(q) : x < y /\ q[y] \in S => ProfileOf[q[x]] # ProfileOf[q[y]]
    BY <2>1, TickStates
  <2> HIDE DEF S
  <2>5. q[b] \in S
    BY <1>2, <2>2, <2>3, <2>4
  <2> QED BY <2>3, <2>4, <2>5
<1>4. ASSUME NEW j \in Jobs, NEW how \in Ends, Finish(j, how)
      PROVE  state'[queue[a]] \notin {"queued", "running"}
  <2> DEFINE r == Left(j, how)
             S == StartedAfter(j, how)
  <2>1. FinishMoves(j, how)
    BY <1>4, FinishStates
  <2> USE DEF FinishMoves
  <2>2. \A x, y \in 1 .. Len(queue) :
           x < y /\ queue[x] \notin Cut(j, how) /\ queue[y] \notin Cut(j, how) =>
             \E c, d \in 1 .. Len(r) : c < d /\ r[c] = queue[x] /\ r[d] = queue[y]
    BY <1>1, WithoutKeepsOrder DEF Left
  <2>3. queue[a] # j /\ queue[b] # j
    BY <1>2, <2>1 DEF Inv, Ready
  <2>4. queue[b] \in S /\ queue[b] \notin Cut(j, how)
    BY <1>2, <2>1, <2>3
  <2>5. queue[a] \in Cut(j, how)
    <3> SUFFICES ASSUME queue[a] \notin Cut(j, how) PROVE FALSE
      OBVIOUS
    <3>1. PICK c \in 1 .. Len(r), d \in 1 .. Len(r) : c < d /\ r[c] = queue[a] /\ r[d] = queue[b]
      BY <1>1, <2>2, <2>4
    <3> QED BY <3>1, <2>1, <2>4
  <2>6. queue[a] \notin S
    BY <2>1, <2>5
  <2> QED BY <1>2, <2>1, <2>3, <2>5, <2>6
<1>5. ASSUME NEW S, state' = Cancelled(state, S) PROVE FALSE
  BY <1>2, <1>5 DEF Cancelled
<1>6. CASE Exit
  BY <1>2, <1>6 DEF Exit
<1>7. ASSUME state' = state PROVE FALSE
  BY <1>2, <1>7
<1> QED
  BY <1>3, <1>4, <1>5, <1>6, <1>7
     DEF Next, SheetError, PauseFor, ResumeFor, StopFor, DrainStart, vars

THEOREM StartsInOrder == Spec => ProfileFIFO
<1>1. Inv /\ [Next]_vars => \A a, b \in DOMAIN queue : OldestFirst(a, b)
  BY StepKeepsOrder
<1> QED
  BY <1>1, InvStable, PTL DEF Spec, ProfileFIFO, OldestFirst

\* When a scrape ends rate limited, its operator's queued jobs are cancelled, and the tick
\* of the same call starts none of them (queue.js:274-291): RateLimitCascades of the run.
CascadeStep ==
  \A j, k \in Jobs :
    /\ state[j] = "running" /\ state'[j] = "limited"
    /\ UserOf[k] = UserOf[j] /\ state[k] = "queued"
    => state'[k] = "cancelled"

LEMMA StepCascades == ASSUME Inv, [Next]_vars PROVE CascadeStep
<1> SUFFICES ASSUME NEW j \in Jobs, NEW k \in Jobs,
                    state[j] = "running", state'[j] = "limited",
                    UserOf[k] = UserOf[j], state[k] = "queued"
             PROVE  state'[k] = "cancelled"
  BY DEF CascadeStep
<1>1. ASSUME NEW b \in Batches, Add(b) PROVE FALSE
  <2> DEFINE st == [i \in Jobs |-> IF i \in ToSet(b) THEN "queued" ELSE state[i]]
             S  == Started(queue \o b, running)
  <2>1. Ready(st, queue \o b, running) /\ Tick(st, queue \o b, running)
    BY <1>1, AddReady DEF Add
  <2>2. st[j] # "limited"
    OBVIOUS
  <2> HIDE DEF st
  <2>3. state'[j] = IF j \in S THEN "running" ELSE st[j]
    BY <2>1, TickStates
  <2> QED BY <2>2, <2>3
<1>2. ASSUME NEW i \in Jobs, NEW how \in Ends, Finish(i, how) PROVE state'[k] = "cancelled"
  <2>1. FinishMoves(i, how)
    BY <1>2, FinishStates
  <2>2. i = j
    BY <2>1 DEF FinishMoves
  <2>3. k \in Cut(i, how) /\ k # i
    BY <2>1, <2>2 DEF FinishMoves, Cut, OfUser
  <2> QED BY <2>1, <2>3 DEF FinishMoves
<1>3. ASSUME NEW S, state' = Cancelled(state, S) PROVE FALSE
  BY <1>3 DEF Cancelled
<1>4. CASE Exit
  BY <1>4 DEF Exit
<1>5. ASSUME state' = state PROVE FALSE
  BY <1>5
<1> QED
  BY <1>1, <1>2, <1>3, <1>4, <1>5
     DEF Next, SheetError, PauseFor, ResumeFor, StopFor, DrainStart, vars

THEOREM RateLimitEmptiesQueue == Spec => RateLimitCascades
<1>1. Inv /\ [Next]_vars => CascadeStep
  BY StepCascades
<1> QED
  BY <1>1, InvStable, PTL DEF Spec, RateLimitCascades, CascadeStep

\* Every step of the queue is a step of ProfileQueue or a stutter.
LEMMA StatusStep ==
  ASSUME Inv, Inv', [Next]_vars
  PROVE  [Abstract!Advance]_JobStatus
<1>1. \A j \in Jobs : /\ JobStatus[j] \in {"new", "queued", "running", "ended"}
                      /\ JobStatus[j] = "running" <=> state[j] = "running"
  BY DEF JobStatus
<1>2. ASSUME NEW j \in Jobs
      PROVE  /\ JobStatus'[j] \in {"new", "queued", "running", "ended"}
             /\ JobStatus'[j] = "running" <=> state'[j] = "running"
  BY DEF JobStatus
<1>3. Abstract!TypeOK'
  <2>1. JobStatus' = [j \in Jobs |-> JobStatus'[j]]
    BY DEF JobStatus
  <2> QED BY <2>1, <1>2 DEF Abstract!TypeOK, Abstract!Rank
<1>4. ASSUME NEW j \in Jobs
      PROVE  Abstract!Rank[JobStatus[j]] <= Abstract!Rank[JobStatus'[j]]
  <2>1. Moved(state[j], state'[j])
    BY StepMoves
  <2>2. /\ Abstract!Rank["new"] = 0 /\ Abstract!Rank["queued"] = 1
        /\ Abstract!Rank["running"] = 2 /\ Abstract!Rank["ended"] = 3
    BY DEF Abstract!Rank
  <2> QED BY <2>1, <2>2 DEF Moved, JobStatus
<1>5. Abstract!Exclusive'
  BY <1>2 DEF Abstract!Exclusive, Inv, Ready
<1> QED
  BY <1>3, <1>4, <1>5 DEF Abstract!Advance

\* The in-memory queue implements ProfileQueue, what its callers may rely on (job-queue.js:6).
THEOREM Implements == Spec => ImplementsProfileQueue
<1>1. Init => Abstract!Init
  BY DEF Init, Abstract!Init, JobStatus
<1>2. Inv /\ Inv' /\ [Next]_vars => [Abstract!Advance]_JobStatus
  BY StatusStep
<1> QED
  BY <1>1, <1>2, InvStable, PTL DEF Spec, ImplementsProfileQueue, Abstract!Spec
=============================================================================
