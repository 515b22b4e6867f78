------------------------- MODULE Completion_proofs -------------------------
(***************************************************************************)
(* Theorems about Completion, for any vocabulary, logits, messages, window *)
(* and stop sequences.  The definitions recurse over data; what they       *)
(* compute is proved by induction on a set of naturals (Induction), after  *)
(* a lemma that the recursion has a solution.                              *)
(***************************************************************************)
EXTENDS Completion, SequenceTheorems, FiniteSetTheorems, WellFoundedInduction, TLAPS

-----------------------------------------------------------------------------
(* Naturals *)

LEMMA LeastElement ==
  ASSUME NEW T \in SUBSET Nat, T # {}
  PROVE  Min(T) \in T /\ \A j \in T : Min(T) <= j
<1>1. PICK x \in T : \A y \in T : ~(<<y, x>> \in OpToRel(<, Nat))
  BY WFMin, NatLessThanWellFounded, Zenon
<1>2. \A y \in T : x <= y
  <2>1. SUFFICES ASSUME NEW y \in T PROVE x <= y
    OBVIOUS
  <2>2. <<y, x>> \in Nat \X Nat /\ <<y, x>>[1] = y /\ <<y, x>>[2] = x
    OBVIOUS
  <2>3. ~(y < x)
    BY <1>1, <2>2 DEF OpToRel
  <2> QED
    BY <2>3
<1> QED
  BY <1>2 DEF Min

LEMMA Induction ==
  ASSUME NEW S, 0 \in S, \A n \in Nat : n \in S => n + 1 \in S
  PROVE  \A n \in Nat : n \in S
<1> SUFFICES ASSUME Nat \ S # {} PROVE FALSE
  OBVIOUS
<1> DEFINE m == Min(Nat \ S)
<1>1. m \in Nat /\ m \notin S /\ \A j \in Nat \ S : m <= j
  BY LeastElement
<1> HIDE DEF m
<1>2. m # 0 /\ m - 1 \in Nat
  BY <1>1
<1>3. m - 1 \in S
  BY <1>1, <1>2
<1> QED
  BY <1>1, <1>2, <1>3

\* Everything smaller may be assumed.
LEMMA StrongInduction ==
  ASSUME NEW S, \A n \in Nat : (\A m \in Nat : m < n => m \in S) => n \in S
  PROVE  \A n \in Nat : n \in S
<1> DEFINE T == {n \in Nat : \A m \in Nat : m <= n => m \in S}
<1>1. 0 \in T
  <2>1. \A m \in Nat : m <= 0 => m = 0
    OBVIOUS
  <2>2. 0 \in S
    OBVIOUS
  <2> QED
    BY <2>1, <2>2
<1>2. ASSUME NEW n \in Nat, n \in T
      PROVE  n + 1 \in T
  <2>1. \A m \in Nat : m < n + 1 => m <= n
    OBVIOUS
  <2>2. n + 1 \in S
    BY <1>2, <2>1
  <2>3. \A m \in Nat : m <= n + 1 => m <= n \/ m = n + 1
    OBVIOUS
  <2> QED
    BY <1>2, <2>2, <2>3
<1> HIDE DEF T
<1>3. \A n \in Nat : n \in T
  BY <1>1, <1>2, Induction
<1> QED
  BY <1>3 DEF T

\* A bounded set of naturals has a largest element.
LEMMA LargestElement ==
  ASSUME NEW T \in SUBSET Nat, T # {}, NEW b \in Nat, \A j \in T : j <= b
  PROVE  Max(T) \in T /\ \A j \in T : j <= Max(T)
<1> DEFINE U == {b - j : j \in T}
<1>1. U \in SUBSET Nat /\ U # {}
  <2>1. \A j \in T : b - j \in Nat
    OBVIOUS
  <2> QED
    BY <2>1
<1> DEFINE u == Min(U)
<1>2. u \in U /\ \A j \in U : u <= j
  BY <1>1, LeastElement
<1>3. PICK x \in T : u = b - x
  BY <1>2
<1>4. \A j \in T : j <= x
  <2>1. SUFFICES ASSUME NEW j \in T PROVE j <= x
    OBVIOUS
  <2>2. b - j \in U
    OBVIOUS
  <2>3. b - x <= b - j
    BY <1>2, <1>3, <2>2
  <2> QED
    BY <2>3
<1>5. \E y \in T : \A j \in T : y >= j
  BY <1>4
<1> QED
  BY <1>5 DEF Max

-----------------------------------------------------------------------------
(* Recursions over data have solutions. *)

\* Upward, each value from the one before.
Rises(f, V, a, n, step) ==
    f \in [0..n -> V] /\ f[0] = a /\ \A i \in 1..n : f[i] = step[<<i, f[i - 1]>>]

LEMMA Upward ==
  ASSUME NEW V, NEW a \in V, NEW n \in Nat, NEW step \in [(1..n) \X V -> V]
  PROVE  \E f : Rises(f, V, a, n, step)
<1> DEFINE Solves(f, k) == f[0] = a /\ \A i \in 1..k : f[i] = step[<<i, f[i - 1]>>]
           S == {k \in Nat : k <= n => \E f \in [0..k -> V] : Solves(f, k)}
<1>1. 0 \in S
  <2> DEFINE f == [i \in 0..0 |-> a]
  <2>1. f \in [0..0 -> V] /\ Solves(f, 0)
    OBVIOUS
  <2> HIDE DEF f, Solves
  <2> QED
    BY <2>1
<1>2. ASSUME NEW k \in Nat, k \in S
      PROVE  k + 1 \in S
  <2> SUFFICES ASSUME k + 1 <= n
               PROVE  \E f \in [0..(k + 1) -> V] : Solves(f, k + 1)
    OBVIOUS
  <2>0. k <= n /\ k + 1 \in 1..n /\ k \in 0..k
    OBVIOUS
  <2>1. PICK g \in [0..k -> V] : Solves(g, k)
    BY <1>2, <2>0
  <2> DEFINE x == step[<<k + 1, g[k]>>]
             h == [i \in 0..(k + 1) |-> IF i = k + 1 THEN x ELSE g[i]]
  <2>2. x \in V
    BY <2>0
  <2>3. h \in [0..(k + 1) -> V]
    <3>1. \A i \in 0..(k + 1) : i # k + 1 => i \in 0..k
      OBVIOUS
    <3> HIDE DEF x
    <3> QED
      BY <2>2, <3>1
  <2>4. h[0] = a /\ h[k + 1] = x /\ h[k] = g[k] /\ \A i \in 1..k : h[i] = g[i] /\ h[i - 1] = g[i - 1]
    <3>1. \A i \in 1..k : i \in 0..(k + 1) /\ i # k + 1 /\ i - 1 \in 0..(k + 1) /\ i - 1 # k + 1
      OBVIOUS
    <3>2. 0 \in 0..(k + 1) /\ 0 # k + 1 /\ k \in 0..(k + 1) /\ k # k + 1 /\ k + 1 \in 0..(k + 1)
      OBVIOUS
    <3> HIDE DEF x
    <3> QED
      BY <2>1, <3>1, <3>2
  <2> HIDE DEF h
  <2>5. Solves(h, k + 1)
    <3>1. ASSUME NEW i \in 1..(k + 1)
          PROVE  h[i] = step[<<i, h[i - 1]>>]
      <4>1. CASE i = k + 1
        <5>1. i - 1 = k
          BY <4>1
        <5> QED
          BY <2>4, <4>1, <5>1
      <4>2. CASE i # k + 1
        <5>1. i \in 1..k
          BY <4>2
        <5> QED
          BY <2>1, <2>4, <5>1
      <4> QED
        BY <4>1, <4>2
    <3> QED
      BY <2>4, <3>1
  <2> HIDE DEF Solves
  <2> QED
    BY <2>3, <2>5
<1>3. n \in S
  <2> HIDE DEF S
  <2> QED
    BY <1>1, <1>2, Induction
<1> QED
  BY <1>3 DEF Rises

\* Downward, each value from one further on.
Falls(f, V, a, n, step, jump) ==
    /\ f \in [1..(n + 1) -> V]
    /\ f[n + 1] = a /\ \A i \in 1..n : f[i] = step[<<i, f[jump[i]]>>]

LEMMA Downward ==
  ASSUME NEW V, NEW a \in V, NEW n \in Nat, NEW step \in [(1..n) \X V -> V],
         NEW jump \in [1..n -> 1..(n + 1)], \A i \in 1..n : jump[i] > i
  PROVE  \E f : Falls(f, V, a, n, step, jump)
<1> DEFINE Dom(k) == (n + 1 - k)..(n + 1)
           Solves(f, k) == f[n + 1] = a /\ \A i \in (n + 1 - k)..n : f[i] = step[<<i, f[jump[i]]>>]
           S == {k \in Nat : k <= n => \E f \in [Dom(k) -> V] : Solves(f, k)}
<1>1. 0 \in S
  <2> DEFINE f == [i \in Dom(0) |-> a]
  <2>1. f \in [Dom(0) -> V] /\ Solves(f, 0)
    OBVIOUS
  <2> HIDE DEF f, Solves, Dom
  <2> QED
    BY <2>1
<1>2. ASSUME NEW k \in Nat, k \in S
      PROVE  k + 1 \in S
  <2> SUFFICES ASSUME k + 1 <= n
               PROVE  \E f \in [Dom(k + 1) -> V] : Solves(f, k + 1)
    OBVIOUS
  <2> DEFINE e == n - k
  <2>0. /\ k <= n /\ e \in 1..n /\ n + 1 - k = e + 1 /\ n + 1 - (k + 1) = e
        /\ Dom(k) = (e + 1)..(n + 1) /\ Dom(k + 1) = e..(n + 1)
    OBVIOUS
  <2>1. PICK g \in [Dom(k) -> V] : Solves(g, k)
    BY <1>2, <2>0
  <2> HIDE DEF e
  <2> DEFINE x == step[<<e, g[jump[e]]>>]
             h == [i \in Dom(k + 1) |-> IF i = e THEN x ELSE g[i]]
  <2>2. x \in V
    <3>1. jump[e] \in (e + 1)..(n + 1)
      BY <2>0
    <3> QED
      BY <2>0, <3>1
  <2>3. h \in [Dom(k + 1) -> V]
    <3>1. \A i \in e..(n + 1) : i # e => i \in (e + 1)..(n + 1)
      BY <2>0
    <3> HIDE DEF x
    <3> QED
      BY <2>0, <2>2, <3>1
  <2>4. h[n + 1] = a /\ h[e] = x /\ \A i \in (e + 1)..(n + 1) : h[i] = g[i]
    <3>1. \A i \in (e + 1)..(n + 1) : i \in e..(n + 1) /\ i # e
      BY <2>0
    <3>2. e \in e..(n + 1) /\ n + 1 \in (e + 1)..(n + 1)
      BY <2>0
    <3> HIDE DEF x
    <3> QED
      BY <2>0, <2>1, <3>1, <3>2
  <2> HIDE DEF h
  <2>5. ASSUME NEW i \in e..n
        PROVE  h[i] = step[<<i, h[jump[i]]>>]
    <3>1. i \in 1..n /\ jump[i] \in (e + 1)..(n + 1)
      BY <2>0
    <3>2. h[jump[i]] = g[jump[i]]
      BY <2>4, <3>1
    <3>3. CASE i = e
      BY <2>4, <3>2, <3>3
    <3>4. CASE i # e
      <4>1. i \in (e + 1)..n /\ i \in (e + 1)..(n + 1)
        BY <2>0, <3>4
      <4>2. g[i] = step[<<i, g[jump[i]]>>]
        BY <2>0, <2>1, <4>1
      <4> QED
        BY <2>4, <3>2, <4>1, <4>2
    <3> QED
      BY <3>3, <3>4
  <2>6. Solves(h, k + 1)
    BY <2>0, <2>4, <2>5
  <2> HIDE DEF Solves
  <2> QED
    BY <2>3, <2>6
<1>3. n \in S
  <2> HIDE DEF S
  <2> QED
    BY <1>1, <1>2, Induction
<1>4. n + 1 - n = 1
  OBVIOUS
<1> QED
  BY <1>3, <1>4 DEF Falls

-----------------------------------------------------------------------------
(* Sampling *)

N == Len(Vocabulary)

LEMMA IdFacts == N \in Nat /\ N > 0 /\ Ids = 1..N
BY VocabularyAssumption DEF N, Ids

LEMMA IdOfToken ==
  ASSUME NEW i \in Ids
  PROVE  IdOf(Vocabulary[i]) = i
BY VocabularyAssumption DEF IdOf, Ids

LEMMA BestExists ==
  ASSUME NEW scores \in [Ids -> Int]
  PROVE  /\ \E i \in Ids : \A j \in Ids : scores[j] <= scores[i]
         /\ \E i \in Ids : \A j \in Ids : scores[i] <= scores[j]
<1> DEFINE S == {k \in Nat : k + 1 <= N =>
                   /\ \E i \in 1..(k + 1) : \A j \in 1..(k + 1) : scores[j] <= scores[i]
                   /\ \E i \in 1..(k + 1) : \A j \in 1..(k + 1) : scores[i] <= scores[j]}
<1>1. 0 \in S
  <2>1. 0 + 1 = 1 /\ 1..1 = {1}
    OBVIOUS
  <2>2. scores[1] \in Int
    BY IdFacts
  <2> QED
    BY <2>1, <2>2
<1>2. ASSUME NEW k \in Nat, k \in S
      PROVE  k + 1 \in S
  <2> SUFFICES ASSUME (k + 1) + 1 <= N
               PROVE  /\ \E i \in 1..((k + 1) + 1) : \A j \in 1..((k + 1) + 1) : scores[j] <= scores[i]
                      /\ \E i \in 1..((k + 1) + 1) : \A j \in 1..((k + 1) + 1) : scores[i] <= scores[j]
    BY IdFacts
  <2> DEFINE m == (k + 1) + 1
  <2>1. /\ 1..m = 1..(k + 1) \cup {m} /\ m \in 1..m
        /\ \A i \in 1..m : scores[i] \in Int
    BY IdFacts
  <2>2. PICK i \in 1..(k + 1) : \A j \in 1..(k + 1) : scores[j] <= scores[i]
    BY <1>2, IdFacts
  <2>3. PICK l \in 1..(k + 1) : \A j \in 1..(k + 1) : scores[l] <= scores[j]
    BY <1>2, IdFacts
  <2> HIDE DEF m
  <2>4. \E h \in 1..m : \A j \in 1..m : scores[j] <= scores[h]
    <3>1. CASE scores[m] <= scores[i]
      BY <2>1, <2>2, <3>1
    <3>2. CASE ~(scores[m] <= scores[i])
      <4>1. \A j \in 1..m : scores[j] <= scores[m]
        BY <2>1, <2>2, <3>2
      <4> QED
        BY <2>1, <4>1
    <3> QED
      BY <3>1, <3>2
  <2>5. \E h \in 1..m : \A j \in 1..m : scores[h] <= scores[j]
    <3>1. CASE scores[l] <= scores[m]
      BY <2>1, <2>3, <3>1
    <3>2. CASE ~(scores[l] <= scores[m])
      <4>1. \A j \in 1..m : scores[m] <= scores[j]
        BY <2>1, <2>3, <3>2
      <4> QED
        BY <2>1, <4>1
    <3> QED
      BY <3>1, <3>2
  <2> QED
    BY <2>4, <2>5 DEF m
<1>3. \A k \in Nat : k \in S
  <2> HIDE DEF S
  <2> QED
    BY <1>1, <1>2, Induction
<1>4. N - 1 \in Nat /\ (N - 1) + 1 = N
  BY IdFacts
<1>5. N - 1 \in S
  <2> HIDE DEF S
  <2> QED
    BY <1>3, <1>4
<1>6. /\ \E i \in 1..((N - 1) + 1) : \A j \in 1..((N - 1) + 1) : scores[j] <= scores[i]
      /\ \E i \in 1..((N - 1) + 1) : \A j \in 1..((N - 1) + 1) : scores[i] <= scores[j]
  BY <1>4, <1>5, IdFacts
<1> QED
  BY <1>4, <1>6, IdFacts

\* np.argmax finds a best token, and none before it is as good.
LEMMA ArgMaxIsBest ==
  ASSUME NEW scores \in [Ids -> Int]
  PROVE  /\ ArgMax(scores) \in Ids
         /\ \A j \in Ids : scores[j] <= scores[ArgMax(scores)]
         /\ \A j \in Ids : scores[j] = scores[ArgMax(scores)] => ArgMax(scores) <= j
<1> DEFINE T == {i \in Ids : \A j \in Ids : scores[j] <= scores[i]}
<1>1. T # {} /\ T \in SUBSET Nat
  BY BestExists, IdFacts, SMTT(40)
<1>2. ArgMax(scores) \in T /\ \A j \in T : ArgMax(scores) <= j
  BY <1>1, LeastElement DEF ArgMax
<1>3. \A j \in Ids : scores[j] = scores[ArgMax(scores)] => j \in T
  BY <1>2
<1> QED
  BY <1>2, <1>3

LEMMA OccurrencesType ==
  ASSUME NEW T, NEW history \in Seq(T), NEW i
  PROVE  Occurrences(i, history) \in Nat
<1>1. DOMAIN history = 1..Len(history) /\ Len(history) \in Nat
  BY LenProperties
<1>2. IsFiniteSet(1..Len(history))
  BY <1>1, FS_Interval
<1> QED
  BY <1>1, <1>2, FS_Subset, FS_CardinalityType DEF Occurrences

LEMMA AdjustedType ==
  ASSUME NEW T, NEW history \in Seq(T), NEW scores \in [Ids -> Int],
         NEW params, IsSetting(params)
  PROVE  Adjusted(scores, history, params) \in [Ids -> Int]
<1>1. ASSUME NEW i \in Ids
      PROVE  Penalized(scores, history, params)[i] \in Int
  <2> DEFINE x == scores[i]  o == Occurrences(i, history)
  <2>1. x \in Int /\ o \in Int
    BY OccurrencesType
  <2>2. Repeated(x, params) \in Int
    BY <2>1 DEF Repeated, IsSetting
  <2>3. params.frequency * o \in Int /\ params.presence \in Int
    BY <2>1 DEF IsSetting
  <2> HIDE DEF x, o
  <2>4. Repeated(x, params) - params.frequency * o - params.presence \in Int
    BY <2>2, <2>3
  <2> QED
    BY <2>1, <2>4 DEF Penalized, x, o
<1>2. ASSUME NEW i \in Ids
      PROVE  Adjusted(scores, history, params)[i] \in Int
  <2>1. (IF i \in DOMAIN params.bias THEN params.bias[i] ELSE 0) \in Int
    BY DEF IsSetting
  <2> QED
    BY <1>1, <2>1 DEF Adjusted, Biased
<1> QED
  BY <1>2 DEF Adjusted, Biased

\* Without penalties and a bias on a token nothing moves.
LEMMA Unmoved ==
  ASSUME NEW T, NEW history \in Seq(T), NEW scores \in [Ids -> Int],
         NEW params, NoPenalty(params), DOMAIN params.bias \cap Ids = {}
  PROVE  Adjusted(scores, history, params) = scores
<1>1. ASSUME NEW i \in Ids
      PROVE  Penalized(scores, history, params)[i] = scores[i]
  <2> DEFINE x == scores[i]  o == Occurrences(i, history)
  <2>1. x \in Int /\ o \in Int
    BY OccurrencesType
  <2>2. x \div 1 = x /\ x * 1 = x /\ 0 * o = 0
    BY <2>1
  <2> HIDE DEF o
  <2>3. Repeated(x, params) = x
    BY <2>2 DEF Repeated, NoPenalty
  <2> HIDE DEF x
  <2>4. x - 0 * o - 0 = x
    BY <2>1, <2>2
  <2> QED
    BY <2>3, <2>4 DEF Penalized, NoPenalty, x, o
<1>2. \A i \in Ids : Adjusted(scores, history, params)[i] = scores[i]
  BY <1>1 DEF Adjusted, Biased
<1>3. DOMAIN Adjusted(scores, history, params) = Ids
  BY DEF Adjusted, Biased
<1>4. Adjusted(scores, history, params) = [i \in Ids |-> Adjusted(scores, history, params)[i]]
  BY <1>3 DEF Adjusted, Biased
<1>5. scores = [i \in Ids |-> scores[i]]
  OBVIOUS
<1> QED
  BY <1>2, <1>4, <1>5

\* The best are among the top k, and a token of the top k has fewer than k
\* better ones.
LEMMA TopKFacts ==
  ASSUME NEW scores \in [Ids -> Int], NEW k \in Nat
  PROVE  /\ TopK(scores, k) \subseteq Ids
         /\ \A i \in Ids : (\A j \in Ids : scores[j] <= scores[i]) => i \in TopK(scores, k)
         /\ \A i \in TopK(scores, k) :
               k > 0 => Cardinality({j \in Ids : scores[j] > scores[i]}) < k
<1> DEFINE Above(i) == {j \in Ids : scores[j] > scores[i]}
<1>1. IsFiniteSet(Ids) /\ Cardinality(Ids) = N
  BY IdFacts, FS_Interval
<1>2. ASSUME NEW i \in Ids
      PROVE  IsFiniteSet(Above(i)) /\ Cardinality(Above(i)) \in Nat /\ Cardinality(Above(i)) < N
  <2>1. Above(i) \subseteq Ids \ {i} /\ i \in Ids
    BY DEF Above
  <2>2. IsFiniteSet(Ids \ {i}) /\ Cardinality(Ids \ {i}) = N - 1
    BY <1>1, FS_RemoveElement
  <2>3. IsFiniteSet(Above(i)) /\ Cardinality(Above(i)) <= N - 1
    BY <2>1, <2>2, FS_Subset
  <2>4. Cardinality(Above(i)) \in Nat
    BY <2>3, FS_CardinalityType
  <2> QED
    BY <2>3, <2>4, IdFacts
<1>3. ASSUME NEW i \in Ids, \A j \in Ids : scores[j] <= scores[i]
      PROVE  i \in TopK(scores, k)
  <2>1. Above(i) = {}
    BY <1>3
  <2>2. Cardinality(Above(i)) = 0
    BY <2>1, FS_EmptySet
  <2> QED
    BY <2>2 DEF TopK
<1>4. ASSUME NEW i \in TopK(scores, k), k > 0
      PROVE  Cardinality(Above(i)) < k
  <2>1. CASE k >= Len(Vocabulary)
    <3>1. i \in Ids
      BY DEF TopK
    <3>2. N <= k
      BY <2>1, IdFacts DEF N
    <3>3. Cardinality(Above(i)) \in Nat /\ Cardinality(Above(i)) < N
      BY <1>2, <3>1
    <3> HIDE DEF Above
    <3> QED
      BY <3>2, <3>3, IdFacts
  <2>2. CASE ~(k >= Len(Vocabulary))
    BY <1>4, <2>2 DEF TopK
  <2> QED
    BY <2>1, <2>2
<1> QED
  BY <1>3, <1>4 DEF TopK

-----------------------------------------------------------------------------
(* The mass of a set of tokens *)

LEMMA PowerOfTwoType == \A n \in Nat : PowerOfTwo[n] \in Nat \ {0}
<1> DEFINE Solves(g, k) ==
             g = [n \in 0..k |-> IF n = 0 THEN 1 ELSE 2 * g[n - 1]]
           S == {k \in Nat : \E g \in [0..k -> Nat \ {0}] : Solves(g, k)}
<1>1. 0 \in S
  <2> DEFINE g == [n \in 0..0 |-> 1]
  <2>1. Solves(g, 0)
    OBVIOUS
  <2>2. g \in [0..0 -> Nat \ {0}]
    OBVIOUS
  <2> QED
    BY <2>1, <2>2
<1>2. ASSUME NEW k \in Nat, k \in S
      PROVE  k + 1 \in S
  <2>1. PICK g \in [0..k -> Nat \ {0}] : Solves(g, k)
    BY <1>2
  <2> DEFINE h == [n \in 0..(k + 1) |-> IF n = k + 1 THEN 2 * g[k] ELSE g[n]]
  <2>2. h \in [0..(k + 1) -> Nat \ {0}]
    <3>1. ASSUME NEW n \in 0..(k + 1)
          PROVE  (IF n = k + 1 THEN 2 * g[k] ELSE g[n]) \in Nat \ {0}
      <4>1. n = k + 1 \/ n \in 0..k
        BY <3>1
      <4>2. k \in 0..k
        OBVIOUS
      <4>3. g[k] \in Nat \ {0} /\ (n \in 0..k => g[n] \in Nat \ {0})
        BY <4>2
      <4> QED
        BY <4>1, <4>3
    <3> QED
      BY <3>1
  <2>3. ASSUME NEW n \in 0..(k + 1)
        PROVE  h[n] = IF n = 0 THEN 1 ELSE 2 * h[n - 1]
    <3>1. CASE n = k + 1
      <4>1. n # 0 /\ n - 1 = k /\ k \in 0..(k + 1) /\ k # k + 1
        BY <3>1
      <4> QED
        BY <3>1, <4>1
    <3>2. CASE n # k + 1
      <4>1. n \in 0..k /\ (n # 0 => n - 1 \in 0..(k + 1) /\ n - 1 # k + 1)
        BY <3>2
      <4>2. g[n] = IF n = 0 THEN 1 ELSE 2 * g[n - 1]
        BY <2>1, <4>1
      <4> QED
        BY <3>2, <4>1, <4>2
    <3> QED
      BY <3>1, <3>2
  <2>4. h = [n \in 0..(k + 1) |-> h[n]]
    OBVIOUS
  <2> HIDE DEF h
  <2>5. Solves(h, k + 1)
    BY <2>3, <2>4
  <2> HIDE DEF Solves
  <2>6. \E f \in [0..(k + 1) -> Nat \ {0}] : Solves(f, k + 1)
    BY <2>2, <2>5
  <2> QED
    BY <2>6
<1>3. \A k \in Nat : k \in S
  <2> HIDE DEF S
  <2> QED
    BY <1>1, <1>2, Induction
<1> DEFINE G(k) == CHOOSE g : g \in [0..k -> Nat \ {0}] /\ Solves(g, k)
<1>4. ASSUME NEW k \in Nat
      PROVE  G(k) \in [0..k -> Nat \ {0}] /\ Solves(G(k), k)
  <2>1. k \in S
    BY <1>3
  <2>2. \E g : g \in [0..k -> Nat \ {0}] /\ Solves(g, k)
    BY <2>1
  <2> HIDE DEF Solves
  <2> QED
    BY <2>2
<1> HIDE DEF G
<1>5. ASSUME NEW k \in Nat, NEW n \in 0..k
      PROVE  G(k)[n] = IF n = 0 THEN 1 ELSE 2 * G(k)[n - 1]
  BY <1>4
\* Solutions of different length agree.
<1>6. \A n \in Nat : \A k \in Nat : n <= k => G(k)[n] = G(n)[n]
  <2> DEFINE A == {n \in Nat : \A k, l \in Nat : n <= k /\ n <= l => G(k)[n] = G(l)[n]}
  <2>1. 0 \in A
    <3>1. \A k \in Nat : 0 \in 0..k
      OBVIOUS
    <3> QED
      BY <1>5, <3>1
  <2>2. ASSUME NEW n \in Nat, n \in A
        PROVE  n + 1 \in A
    <3> SUFFICES ASSUME NEW k \in Nat, NEW l \in Nat, n + 1 <= k, n + 1 <= l
                 PROVE  G(k)[n + 1] = G(l)[n + 1]
      OBVIOUS
    <3>1. /\ n + 1 \in 0..k /\ n + 1 \in 0..l /\ n + 1 # 0 /\ (n + 1) - 1 = n
          /\ n <= k /\ n <= l
      OBVIOUS
    <3>2. G(k)[n] = G(l)[n]
      BY <2>2, <3>1
    <3> QED
      BY <1>5, <3>1, <3>2
  <2>3. \A n \in Nat : n \in A
    <3> HIDE DEF A
    <3> QED
      BY <2>1, <2>2, Induction
  <2> QED
    BY <2>3
<1> DEFINE F == [n \in Nat |-> G(n)[n]]
<1>7. ASSUME NEW n \in Nat
      PROVE  /\ F[n] = IF n = 0 THEN 1 ELSE 2 * F[n - 1]
             /\ F[n] \in Nat \ {0}
  <2>1. n \in 0..n /\ (n # 0 => n - 1 \in Nat /\ n - 1 <= n)
    OBVIOUS
  <2>2. F[n] = IF n = 0 THEN 1 ELSE 2 * G(n)[n - 1]
    BY <1>5, <2>1
  <2>3. n # 0 => G(n)[n - 1] = F[n - 1]
    BY <1>6, <2>1
  <2> QED
    BY <1>4, <2>1, <2>2, <2>3
<1>8. F = [n \in Nat |-> F[n]]
  OBVIOUS
<1>9. \E f : f = [n \in Nat |-> IF n = 0 THEN 1 ELSE 2 * f[n - 1]]
  <2> HIDE DEF F
  <2>1. F = [n \in Nat |-> IF n = 0 THEN 1 ELSE 2 * F[n - 1]]
    BY <1>7, <1>8
  <2> QED
    BY <2>1
<1>10. PowerOfTwo = [n \in Nat |-> IF n = 0 THEN 1 ELSE 2 * PowerOfTwo[n - 1]]
  BY <1>9 DEF PowerOfTwo
<1> DEFINE P == {n \in Nat : PowerOfTwo[n] \in Nat \ {0}}
<1>11. 0 \in P
  BY <1>10
<1>12. ASSUME NEW n \in Nat, n \in P
       PROVE  n + 1 \in P
  <2>1. n + 1 # 0 /\ (n + 1) - 1 = n
    OBVIOUS
  <2>2. PowerOfTwo[n + 1] = 2 * PowerOfTwo[n]
    BY <1>10, <2>1
  <2> QED
    BY <1>12, <2>2
<1>13. \A n \in Nat : n \in P
  <2> HIDE DEF P
  <2> QED
    BY <1>11, <1>12, Induction
<1> QED
  BY <1>13

LEMMA MassSolved ==
  ASSUME NEW weights \in [Ids -> Nat], NEW S
  PROVE  \E f \in [0..N -> Nat] :
            /\ f[0] = 0
            /\ \A i \in 1..N : f[i] = f[i - 1] + (IF i \in S THEN weights[i] ELSE 0)
            /\ Mass(weights, S) = f[N]
<1> DEFINE step == [p \in (1..N) \X Nat |-> p[2] + (IF p[1] \in S THEN weights[p[1]] ELSE 0)]
           Def(g) == [i \in 0..N |-> IF i = 0 THEN 0
                         ELSE g[i - 1] + (IF i \in S THEN weights[i] ELSE 0)]
<1>1. step \in [(1..N) \X Nat -> Nat]
  BY IdFacts
<1>2. PICK f \in [0..N -> Nat] :
         f[0] = 0 /\ \A i \in 1..N : f[i] = step[<<i, f[i - 1]>>]
  <2>1. N \in Nat /\ 0 \in Nat
    BY IdFacts
  <2> HIDE DEF step
  <2>2. \E f : Rises(f, Nat, 0, N, step)
    BY <1>1, <2>1, Upward, Zenon
  <2> QED
    BY <2>2 DEF Rises
<1>3. ASSUME NEW g \in [0..N -> Nat], NEW i \in 1..N
      PROVE  step[<<i, g[i - 1]>>] = g[i - 1] + (IF i \in S THEN weights[i] ELSE 0)
  <2>1. i - 1 \in 0..N
    BY IdFacts
  <2>2. <<i, g[i - 1]>> \in (1..N) \X Nat
    BY <2>1
  <2> QED
    BY <2>2
<1> HIDE DEF step
<1>4. f = Def(f)
  <2>1. \A i \in 0..N : i # 0 => i \in 1..N
    BY IdFacts
  <2>2. f = [i \in 0..N |-> f[i]]
    OBVIOUS
  <2>3. \A i \in 0..N : f[i] = IF i = 0 THEN 0
                                ELSE f[i - 1] + (IF i \in S THEN weights[i] ELSE 0)
    BY <1>2, <1>3, <2>1
  <2> QED
    BY <2>2, <2>3
<1> DEFINE u == CHOOSE g : g = Def(g)
<1>5. u = Def(u)
  <2> HIDE DEF Def
  <2> QED
    BY <1>4
<1>6. Mass(weights, S) = u[N]
  BY DEF Mass, N
<1> HIDE DEF u
<1>7. u[0] = 0 /\ \A i \in 1..N : u[i] = u[i - 1] + (IF i \in S THEN weights[i] ELSE 0)
  <2>1. 0 \in 0..N /\ \A i \in 1..N : i \in 0..N /\ i # 0
    BY IdFacts
  <2> QED
    BY <1>5, <2>1
<1> DEFINE T == {k \in Nat : k <= N => u[k] \in Nat}
<1>8. \A k \in Nat : k \in T
  <2>1. 0 \in T
    BY <1>7
  <2>2. ASSUME NEW k \in Nat, k \in T PROVE k + 1 \in T
    <3> SUFFICES ASSUME k + 1 <= N PROVE u[k + 1] \in Nat
      OBVIOUS
    <3>1. k + 1 \in 1..N /\ (k + 1) - 1 = k /\ k <= N
      BY IdFacts
    <3>2. u[k + 1] = u[k] + (IF k + 1 \in S THEN weights[k + 1] ELSE 0)
      BY <1>7, <3>1
    <3>3. k + 1 \in S => weights[k + 1] \in Nat
      BY <3>1, IdFacts
    <3> QED
      BY <2>2, <3>1, <3>2, <3>3
  <2> HIDE DEF T
  <2> QED
    BY <2>1, <2>2, Induction
<1>9. u \in [0..N -> Nat]
  <2>1. \A k \in 0..N : u[k] \in Nat
    BY <1>8, IdFacts
  <2>2. u = [i \in 0..N |-> u[i]]
    BY <1>5
  <2> QED
    BY <2>1, <2>2
<1> QED
  BY <1>6, <1>7, <1>9

\* More tokens have no less mass, and more if one of them weighs something.
LEMMA MassGrows ==
  ASSUME NEW weights \in [Ids -> Nat], NEW S, NEW T, S \cap Ids \subseteq T
  PROVE  /\ Mass(weights, S) \in Nat /\ Mass(weights, T) \in Nat
         /\ Mass(weights, S) <= Mass(weights, T)
         /\ \A i \in Ids : i \in T /\ i \notin S /\ weights[i] > 0
               => Mass(weights, S) < Mass(weights, T)
<1>1. PICK f \in [0..N -> Nat] :
         /\ f[0] = 0
         /\ \A i \in 1..N : f[i] = f[i - 1] + (IF i \in S THEN weights[i] ELSE 0)
         /\ Mass(weights, S) = f[N]
  BY MassSolved
<1>2. PICK g \in [0..N -> Nat] :
         /\ g[0] = 0
         /\ \A i \in 1..N : g[i] = g[i - 1] + (IF i \in T THEN weights[i] ELSE 0)
         /\ Mass(weights, T) = g[N]
  BY MassSolved
<1> DEFINE New(i) == i \in T /\ i \notin S /\ weights[i] > 0
           P == {k \in Nat : k <= N =>
                   f[k] <= g[k] /\ \A i \in 1..k : New(i) => f[k] < g[k]}
<1>3. 0 \in P
  BY <1>1, <1>2
<1>4. ASSUME NEW k \in Nat, k \in P
      PROVE  k + 1 \in P
  <2> SUFFICES ASSUME k + 1 <= N
               PROVE  /\ f[k + 1] <= g[k + 1]
                      /\ \A i \in 1..(k + 1) : New(i) => f[k + 1] < g[k + 1]
    BY DEF P
  <2>1. /\ k <= N /\ k + 1 \in 1..N /\ (k + 1) - 1 = k /\ k \in 0..N /\ k + 1 \in Ids
        /\ \A i \in 1..(k + 1) : i \in 1..k \/ i = k + 1
    BY IdFacts
  <2>2. f[k] \in Nat /\ g[k] \in Nat /\ weights[k + 1] \in Nat
    BY <2>1
  <2>3. f[k + 1] = f[k] + (IF k + 1 \in S THEN weights[k + 1] ELSE 0)
    BY <1>1, <2>1
  <2>4. g[k + 1] = g[k] + (IF k + 1 \in T THEN weights[k + 1] ELSE 0)
    BY <1>2, <2>1
  <2>5. k + 1 \in S => k + 1 \in T
    BY <2>1
  <2>6. f[k] <= g[k] /\ \A i \in 1..k : New(i) => f[k] < g[k]
    BY <1>4, <2>1
  <2>7. f[k + 1] <= g[k + 1]
    BY <2>2, <2>3, <2>4, <2>5, <2>6
  <2>8. New(k + 1) => f[k + 1] < g[k + 1]
    BY <2>2, <2>3, <2>4, <2>6
  <2>9. f[k] < g[k] => f[k + 1] < g[k + 1]
    BY <2>2, <2>3, <2>4, <2>5
  <2> HIDE DEF New
  <2> QED
    BY <2>1, <2>6, <2>7, <2>8, <2>9
<1>5. N \in P
  <2> HIDE DEF P
  <2> QED
    BY <1>3, <1>4, Induction, IdFacts
<1>6. f[N] <= g[N] /\ \A i \in 1..N : New(i) => f[N] < g[N]
  BY <1>5, IdFacts
<1> QED
  BY <1>1, <1>2, <1>6, IdFacts

LEMMA NoMass ==
  ASSUME NEW weights \in [Ids -> Nat]
  PROVE  Mass(weights, {}) = 0
<1>1. PICK f \in [0..N -> Nat] :
         /\ f[0] = 0
         /\ \A i \in 1..N : f[i] = f[i - 1] + (IF i \in {} THEN weights[i] ELSE 0)
         /\ Mass(weights, {}) = f[N]
  BY MassSolved
<1> DEFINE P == {k \in Nat : k <= N => f[k] = 0}
<1>2. 0 \in P
  BY <1>1
<1>3. ASSUME NEW k \in Nat, k \in P
      PROVE  k + 1 \in P
  <2> SUFFICES ASSUME k + 1 <= N PROVE f[k + 1] = 0
    BY DEF P
  <2>1. k <= N /\ k + 1 \in 1..N /\ (k + 1) - 1 = k
    BY IdFacts
  <2> QED
    BY <1>1, <1>3, <2>1
<1>4. N \in P
  <2> HIDE DEF P
  <2> QED
    BY <1>2, <1>3, Induction, IdFacts
<1> QED
  BY <1>1, <1>4, IdFacts

LEMMA WeightsType ==
  ASSUME NEW scores \in [Ids -> Int]
  PROVE  Weights(scores) \in [Ids -> Nat \ {0}]
<1> DEFINE T == {scores[j] : j \in Ids}
           lowest == Min(T)
<1>1. PICK i \in Ids : \A j \in Ids : scores[i] <= scores[j]
  BY BestExists
<1>2. scores[i] \in T /\ \A y \in T : scores[i] <= y
  BY <1>1
<1>3. \E x \in T : \A y \in T : x <= y
  <2> HIDE DEF T
  <2> QED
    BY <1>2
<1>4. lowest \in T /\ \A y \in T : lowest <= y
  <2> HIDE DEF T
  <2> QED
    BY <1>3 DEF Min
<1>5. ASSUME NEW j \in Ids
      PROVE  PowerOfTwo[scores[j] - lowest] \in Nat \ {0}
  <2>1. lowest \in Int /\ lowest <= scores[j] /\ scores[j] \in Int
    BY <1>4
  <2> HIDE DEF lowest
  <2>2. scores[j] - lowest \in Nat
    BY <2>1
  <2> QED
    BY <2>2, PowerOfTwoType
<1> QED
  BY <1>5 DEF Weights

-----------------------------------------------------------------------------
(* Concatenations *)

\* f holds the concatenations of the first sequences.
Joins(f, ss) ==
    f[1] = ss[1] /\ \A i \in 2..Len(ss) : f[i] = f[i - 1] \o ss[i]

LEMMA JoinsExist ==
  ASSUME NEW T, NEW ss \in Seq(Seq(T)), ss # <<>>
  PROVE  \E f \in [1..Len(ss) -> Seq(T)] : Joins(f, ss)
<1> DEFINE n == Len(ss)
<1>1. n \in Nat /\ n # 0 /\ n - 1 \in Nat /\ \A i \in 1..n : ss[i] \in Seq(T)
  BY LenProperties, EmptySeq
<1> HIDE DEF n
<1> DEFINE step == [p \in (1..(n - 1)) \X Seq(T) |-> p[2] \o ss[p[1] + 1]]
<1>2. step \in [(1..(n - 1)) \X Seq(T) -> Seq(T)]
  <2>1. ASSUME NEW p \in (1..(n - 1)) \X Seq(T)
        PROVE  p[2] \o ss[p[1] + 1] \in Seq(T)
    <3>1. p[2] \in Seq(T) /\ p[1] + 1 \in 1..n
      BY <1>1
    <3> QED
      BY <1>1, <3>1, ConcatProperties
  <2> QED
    BY <2>1
<1>3. \E f : Rises(f, Seq(T), ss[1], n - 1, step)
  <2>1. ss[1] \in Seq(T)
    BY <1>1
  <2> HIDE DEF step
  <2> QED
    BY <1>1, <1>2, <2>1, Upward, Zenon
<1>4. PICK g \in [0..(n - 1) -> Seq(T)] :
         g[0] = ss[1] /\ \A i \in 1..(n - 1) : g[i] = step[<<i, g[i - 1]>>]
  BY <1>3 DEF Rises
<1> DEFINE f == [i \in 1..n |-> g[i - 1]]
<1>5. f \in [1..n -> Seq(T)] /\ f[1] = ss[1]
  BY <1>1, <1>4
<1>6. ASSUME NEW i \in 2..n
      PROVE  f[i] = f[i - 1] \o ss[i]
  <2>1. /\ i - 1 \in 1..(n - 1) /\ i - 1 \in 0..(n - 1) /\ (i - 1) - 1 \in 0..(n - 1)
        /\ i \in 1..n /\ i - 1 \in 1..n /\ (i - 1) + 1 = i
    BY <1>1
  <2>2. f[i] = g[i - 1] /\ f[i - 1] = g[(i - 1) - 1]
    BY <2>1
  <2>3. step[<<i - 1, g[(i - 1) - 1]>>] = g[(i - 1) - 1] \o ss[(i - 1) + 1]
    <3>1. <<i - 1, g[(i - 1) - 1]>> \in (1..(n - 1)) \X Seq(T)
      BY <1>4, <2>1
    <3> QED
      BY <3>1
  <2> HIDE DEF f, step
  <2> QED
    BY <1>4, <2>1, <2>2, <2>3
<1> HIDE DEF f
<1> QED
  BY <1>5, <1>6 DEF Joins, n

LEMMA JoinsAgree ==
  ASSUME NEW ss, Len(ss) \in Nat, NEW f, NEW g, Joins(f, ss), Joins(g, ss)
  PROVE  \A i \in 1..Len(ss) : f[i] = g[i]
<1> DEFINE n == Len(ss)
           S == {k \in Nat : k + 1 <= n => f[k + 1] = g[k + 1]}
<1>1. 0 \in S
  BY DEF Joins
<1>2. ASSUME NEW k \in Nat, k \in S
      PROVE  k + 1 \in S
  <2> SUFFICES ASSUME (k + 1) + 1 <= n PROVE f[(k + 1) + 1] = g[(k + 1) + 1]
    OBVIOUS
  <2>1. (k + 1) + 1 \in 2..n /\ ((k + 1) + 1) - 1 = k + 1 /\ k + 1 <= n
    OBVIOUS
  <2>2. f[k + 1] = g[k + 1]
    BY <1>2, <2>1
  <2> QED
    BY <2>1, <2>2 DEF Joins
<1>3. \A k \in Nat : k \in S
  <2> HIDE DEF S
  <2> QED
    BY <1>1, <1>2, Induction
<1>4. ASSUME NEW i \in 1..n
      PROVE  f[i] = g[i]
  <2>1. i - 1 \in Nat /\ (i - 1) + 1 = i /\ i <= n
    OBVIOUS
  <2>2. i - 1 \in S
    <3> HIDE DEF S
    <3> QED
      BY <1>3, <2>1
  <2> QED
    BY <2>1, <2>2
<1> QED
  BY <1>4

LEMMA FlattenIs ==
  ASSUME NEW T, NEW ss \in Seq(Seq(T)), ss # <<>>, NEW f, Joins(f, ss)
  PROVE  FlattenSeq(ss) = f[Len(ss)] /\ FlattenSeq(ss) \in Seq(T)
<1> DEFINE n == Len(ss)
           Def(g) == [i \in 1..Len(ss) |-> IF i = 1 THEN ss[i] ELSE g[i - 1] \o ss[i]]
<1>1. n \in Nat /\ n # 0
  BY LenProperties, EmptySeq
<1>2. PICK h \in [1..Len(ss) -> Seq(T)] : Joins(h, ss)
  BY JoinsExist
<1>3. h = Def(h)
  <2>1. h = [i \in 1..Len(ss) |-> h[i]]
    OBVIOUS
  <2>2. \A i \in 1..Len(ss) : i # 1 => i \in 2..Len(ss)
    BY <1>1
  <2>3. \A i \in 1..Len(ss) : h[i] = IF i = 1 THEN ss[i] ELSE h[i - 1] \o ss[i]
    BY <1>2, <2>2 DEF Joins
  <2> QED
    BY <2>1, <2>3
<1> DEFINE u == CHOOSE g : g = Def(g)
<1>4. u = Def(u)
  <2> HIDE DEF Def
  <2> QED
    BY <1>3, Zenon
<1>5. FlattenSeq(ss) = u[Len(ss)]
  BY <1>1 DEF FlattenSeq
<1> HIDE DEF u
<1>6. u[1] = ss[1] /\ \A i \in 2..n : u[i] = u[i - 1] \o ss[i]
  <2>1. 1 \in 1..n /\ \A i \in 2..n : i \in 1..n /\ i # 1
    BY <1>1
  <2> QED
    BY <1>4, <2>1
<1>7. \A i \in 1..n : u[i] = f[i] /\ h[i] = f[i]
  <2>1. Joins(u, ss)
    BY <1>6 DEF Joins
  <2>2. Len(ss) \in Nat
    BY <1>1
  <2> HIDE DEF Def, n
  <2>3. \A i \in 1..Len(ss) : u[i] = f[i]
    BY <2>1, <2>2, JoinsAgree, SMTT(30)
  <2>4. \A i \in 1..Len(ss) : h[i] = f[i]
    BY <1>2, <2>2, JoinsAgree, SMTT(30)
  <2> QED
    BY <2>3, <2>4 DEF n
<1>8. n \in 1..n
  BY <1>1
<1> QED
  BY <1>2, <1>5, <1>7, <1>8

LEMMA FlattenType ==
  ASSUME NEW T, NEW ss \in Seq(Seq(T))
  PROVE  FlattenSeq(ss) \in Seq(T)
<1>1. CASE ss = <<>>
  BY <1>1, EmptySeq DEF FlattenSeq
<1>2. CASE ss # <<>>
  BY <1>2, JoinsExist, FlattenIs
<1> QED
  BY <1>1, <1>2

LEMMA FlattenAppend ==
  ASSUME NEW T, NEW ss \in Seq(Seq(T)), NEW s \in Seq(T)
  PROVE  FlattenSeq(Append(ss, s)) = FlattenSeq(ss) \o s
<1> DEFINE n == Len(ss)  tt == Append(ss, s)
<1>1. /\ n \in Nat /\ tt \in Seq(Seq(T)) /\ Len(tt) = n + 1 /\ tt[n + 1] = s
      /\ tt # <<>> /\ \A i \in 1..n : tt[i] = ss[i]
  BY AppendProperties, LenProperties
<1>2. PICK f \in [1..Len(tt) -> Seq(T)] : Joins(f, tt)
  BY <1>1, JoinsExist
<1>3. FlattenSeq(tt) = f[n + 1]
  BY <1>1, <1>2, FlattenIs
<1> HIDE DEF tt
<1>4. CASE ss = <<>>
  <2>1. n = 0 /\ n + 1 = 1
    BY <1>4, EmptySeq
  <2>2. f[1] = s
    BY <1>1, <1>2, <2>1 DEF Joins
  <2>3. FlattenSeq(ss) = <<>>
    BY <1>4, <2>1 DEF FlattenSeq
  <2> QED
    BY <1>3, <2>1, <2>2, <2>3, ConcatEmptySeq DEF tt
<1>5. CASE ss # <<>>
  <2>1. n # 0
    BY <1>5, EmptySeq
  <2>2. f[n + 1] = f[n] \o s
    <3>1. n + 1 \in 2..(n + 1) /\ (n + 1) - 1 = n
      BY <1>1, <2>1
    <3> QED
      BY <1>1, <1>2, <3>1 DEF Joins
  <2>3. Joins(f, ss)
    <3>1. 1 \in 1..n /\ \A i \in 2..n : i \in 1..n /\ i \in 2..(n + 1)
      BY <1>1, <2>1
    <3>2. f[1] = ss[1]
      BY <1>1, <1>2, <3>1 DEF Joins
    <3>3. \A i \in 2..n : f[i] = f[i - 1] \o ss[i]
      BY <1>1, <1>2, <3>1 DEF Joins
    <3> QED
      BY <3>2, <3>3 DEF Joins
  <2>4. FlattenSeq(ss) = f[n]
    BY <1>5, <2>3, FlattenIs
  <2> QED
    BY <1>3, <2>2, <2>4 DEF tt
<1> QED
  BY <1>4, <1>5

\* The first sequence begins the concatenation.
LEMMA FlattenFirst ==
  ASSUME NEW T, NEW ss \in Seq(Seq(T)), ss # <<>>
  PROVE  \E r \in Seq(T) : FlattenSeq(ss) = ss[1] \o r
<1> DEFINE n == Len(ss)
<1>1. n \in Nat /\ n # 0 /\ \A i \in 1..n : ss[i] \in Seq(T)
  BY LenProperties, EmptySeq
<1>2. PICK f \in [1..Len(ss) -> Seq(T)] : Joins(f, ss)
  BY JoinsExist
<1> HIDE DEF n
<1> DEFINE Begun(i) == \E r \in Seq(T) : f[i] = ss[1] \o r
           S == {k \in Nat : k + 1 <= n => Begun(k + 1)}
<1>3. 0 \in S
  <2>1. f[0 + 1] = ss[1] \o <<>>
    BY <1>1, <1>2, ConcatEmptySeq DEF Joins, n
  <2> QED
    BY <2>1, EmptySeq
<1>4. ASSUME NEW k \in Nat, k \in S
      PROVE  k + 1 \in S
  <2> SUFFICES ASSUME (k + 1) + 1 <= n
               PROVE  Begun((k + 1) + 1)
    <3> HIDE DEF Begun
    <3> QED
      OBVIOUS
  <2>1. /\ (k + 1) + 1 \in 2..n /\ ((k + 1) + 1) - 1 = k + 1 /\ k + 1 <= n
        /\ (k + 1) + 1 \in 1..n /\ 1 \in 1..n
    BY <1>1
  <2>2. PICK r \in Seq(T) : f[k + 1] = ss[1] \o r
    <3>1. Begun(k + 1)
      <4> HIDE DEF Begun
      <4> QED
        BY <1>4, <2>1
    <3> QED
      BY <3>1
  <2>3. f[(k + 1) + 1] = f[k + 1] \o ss[(k + 1) + 1]
    BY <1>2, <2>1 DEF Joins, n
  <2>4. ss[1] \in Seq(T) /\ ss[(k + 1) + 1] \in Seq(T)
    BY <1>1, <2>1
  <2>5. (ss[1] \o r) \o ss[(k + 1) + 1] = ss[1] \o (r \o ss[(k + 1) + 1])
    <3>1. ASSUME NEW p \in Seq(T), NEW q \in Seq(T), NEW t \in Seq(T)
          PROVE  (p \o q) \o t = p \o (q \o t)
      BY SMTT(40)
    <3> QED
      BY <2>2, <2>4, <3>1
  <2>6. r \o ss[(k + 1) + 1] \in Seq(T)
    BY <2>2, <2>4, ConcatProperties
  <2> QED
    BY <2>2, <2>3, <2>5, <2>6
<1>5. n - 1 \in Nat /\ (n - 1) + 1 = n
  BY <1>1
<1>6. n - 1 \in S
  <2> HIDE DEF S
  <2> QED
    BY <1>3, <1>4, <1>5, Induction
<1>7. Begun(n)
  <2> HIDE DEF Begun
  <2> QED
    BY <1>1, <1>5, <1>6
<1> QED
  BY <1>2, <1>7, FlattenIs DEF n

-----------------------------------------------------------------------------
(* Texts put together from the left *)

\* f[i] is what the places from i on stand for.
Reads(f, n, piece, jump) ==
    f[n + 1] = <<>> /\ \A i \in 1..n : f[i] = piece[i] \o f[jump[i]]

LEMMA ReadsExist ==
  ASSUME NEW T, NEW n \in Nat, NEW piece \in [1..n -> Seq(T)],
         NEW jump \in [1..n -> 1..(n + 1)], \A i \in 1..n : jump[i] > i
  PROVE  \E f \in [1..(n + 1) -> Seq(T)] : Reads(f, n, piece, jump)
<1> DEFINE step == [p \in (1..n) \X Seq(T) |-> piece[p[1]] \o p[2]]
<1>1. step \in [(1..n) \X Seq(T) -> Seq(T)]
  <2>1. ASSUME NEW p \in (1..n) \X Seq(T)
        PROVE  piece[p[1]] \o p[2] \in Seq(T)
    <3>1. piece[p[1]] \in Seq(T) /\ p[2] \in Seq(T)
      OBVIOUS
    <3> QED
      BY <3>1, ConcatProperties
  <2> QED
    BY <2>1
<1>2. \E f : Falls(f, Seq(T), <<>>, n, step, jump)
  <2>1. <<>> \in Seq(T)
    BY EmptySeq
  <2> HIDE DEF step
  <2> QED
    BY <1>1, <2>1, Downward, Zenon
<1>3. PICK f : Falls(f, Seq(T), <<>>, n, step, jump)
  BY <1>2
<1>4. ASSUME NEW i \in 1..n
      PROVE  f[i] = piece[i] \o f[jump[i]]
  <2>1. f[i] = step[<<i, f[jump[i]]>>]
    <3> HIDE DEF step
    <3> QED
      BY <1>3 DEF Falls
  <2>2. <<i, f[jump[i]]>> \in (1..n) \X Seq(T)
    BY <1>3 DEF Falls
  <2> QED
    BY <2>1, <2>2
<1> HIDE DEF step
<1> QED
  BY <1>3, <1>4 DEF Falls, Reads

LEMMA ReadsAgree ==
  ASSUME NEW n \in Nat, NEW piece, NEW jump, NEW f, NEW g,
         Reads(f, n, piece, jump), Reads(g, n, piece, jump),
         \A i \in 1..n : jump[i] \in 1..(n + 1) /\ jump[i] > i
  PROVE  \A i \in 1..(n + 1) : f[i] = g[i]
<1> DEFINE S == {k \in Nat : k <= n => f[n + 1 - k] = g[n + 1 - k]}
<1>1. ASSUME NEW k \in Nat, \A m \in Nat : m < k => m \in S
      PROVE  k \in S
  <2> SUFFICES ASSUME k <= n PROVE f[n + 1 - k] = g[n + 1 - k]
    OBVIOUS
  <2>1. CASE k = 0
    BY <2>1 DEF Reads
  <2>2. CASE k # 0
    <3> DEFINE i == n + 1 - k
    <3>1. i \in 1..n
      BY <2>2
    <3> DEFINE m == n + 1 - jump[i]
    <3>2. m \in Nat /\ m < k /\ m <= n /\ n + 1 - m = jump[i]
      BY <3>1
    <3>3. m \in S
      <4> HIDE DEF m, S
      <4> QED
        BY <1>1, <3>2
    <3>4. f[n + 1 - m] = g[n + 1 - m]
      <4> HIDE DEF m
      <4> QED
        BY <3>2, <3>3
    <3>5. f[jump[i]] = g[jump[i]]
      <4> HIDE DEF m
      <4> QED
        BY <3>2, <3>4
    <3> HIDE DEF i
    <3>6. f[i] = g[i]
      BY <3>1, <3>5 DEF Reads
    <3> QED
      BY <3>6 DEF i
  <2> QED
    BY <2>1, <2>2
<1>2. \A k \in Nat : k \in S
  <2> HIDE DEF S
  <2> QED
    BY <1>1, StrongInduction
<1>3. ASSUME NEW i \in 1..(n + 1)
      PROVE  f[i] = g[i]
  <2> DEFINE k == n + 1 - i
  <2>1. k \in Nat /\ k <= n /\ n + 1 - k = i
    OBVIOUS
  <2> HIDE DEF k
  <2>2. k \in S
    <3> HIDE DEF S
    <3> QED
      BY <1>2, <2>1
  <2>3. f[n + 1 - k] = g[n + 1 - k]
    BY <2>1, <2>2
  <2> QED
    BY <2>1, <2>3
<1> QED
  BY <1>3

-----------------------------------------------------------------------------
(* Tokens of a text *)

Parts == Seq(Characters) \ {<<>>}

Here(s, i) == {m \in Merges : IsAt(m, s, i)}
Piece(s, i) ==
    IF Here(s, i) = {} THEN <<s[i]>>
    ELSE CHOOSE m \in Here(s, i) : \A n \in Here(s, i) : Len(m) >= Len(n)

LEMMA PieceType ==
  ASSUME NEW s \in Seq(Characters), NEW i \in 1..Len(s)
  PROVE  /\ Piece(s, i) \in Parts
         /\ i + Len(Piece(s, i)) \in 1..(Len(s) + 1)
         /\ i + Len(Piece(s, i)) > i
<1> DEFINE n == Len(s)
<1>1. n \in Nat /\ s[i] \in Characters
  BY LenProperties, ElementOfSeq
<1>2. \A m \in Merges : m \in Parts /\ Len(m) \in Nat \ {0}
  BY ChatWindowAssumption, EmptySeq DEF Parts
<1>3. CASE Here(s, i) = {}
  <2>1. Piece(s, i) = <<s[i]>>
    BY <1>3 DEF Piece
  <2>2. <<s[i]>> \in Seq(Characters) /\ Len(<<s[i]>>) = 1 /\ <<s[i]>> # <<>>
    BY <1>1
  <2> QED
    BY <1>1, <2>1, <2>2 DEF Parts
<1>4. CASE Here(s, i) # {}
  <2> DEFINE H == Here(s, i)  L == {Len(m) : m \in H}
  <2>1. \A m \in H : m \in Merges /\ Len(m) \in Nat \ {0} /\ i + Len(m) - 1 <= n
    BY <1>2 DEF Here, IsAt
  <2>2. L \in SUBSET Nat /\ L # {} /\ \A j \in L : j <= n
    BY <1>1, <1>4, <2>1, SMTT(40)
  <2>3. Max(L) \in L /\ \A j \in L : j <= Max(L)
    <3> HIDE DEF L, n
    <3> QED
      BY <1>1, <2>2, LargestElement
  <2>4. PICK m \in H : Len(m) = Max(L)
    BY <2>3
  <2>5. \A k \in H : Len(m) >= Len(k)
    <3>1. \A k \in H : Len(k) \in L
      OBVIOUS
    <3>2. Len(m) \in L
      BY <2>4
    <3> HIDE DEF L, H
    <3> QED
      BY <2>1, <2>3, <2>4, <3>1
  <2>6. Piece(s, i) \in H
    BY <1>4, <2>4, <2>5 DEF Piece
  <2> QED
    BY <1>1, <1>2, <2>1, <2>6
<1> QED
  BY <1>3, <1>4

\* A text has tokens, and at least one if it is not empty.
LEMMA PiecesType ==
  ASSUME NEW s \in Seq(Characters)
  PROVE  Pieces(s) \in Seq(Parts) /\ (s # <<>> => Pieces(s) # <<>>)
<1> DEFINE n == Len(s)
           piece == [i \in 1..n |-> <<Piece(s, i)>>]
           jump == [i \in 1..n |-> i + Len(Piece(s, i))]
           Def(g) == [i \in 1..(Len(s) + 1) |->
                        IF i > Len(s) THEN <<>>
                        ELSE <<Piece(s, i)>> \o g[i + Len(Piece(s, i))]]
<1>1. n \in Nat /\ (s # <<>> => n # 0)
  BY LenProperties, EmptySeq
<1>2. piece \in [1..n -> Seq(Parts)]
  <2>1. \A i \in 1..n : <<Piece(s, i)>> \in Seq(Parts)
    BY PieceType
  <2> QED
    BY <2>1
<1>3. jump \in [1..n -> 1..(n + 1)] /\ \A i \in 1..n : jump[i] > i
  BY PieceType
<1>4. PICK f \in [1..(n + 1) -> Seq(Parts)] : Reads(f, n, piece, jump)
  <2> HIDE DEF n, piece, jump
  <2> QED
    BY <1>1, <1>2, <1>3, ReadsExist
<1>5. f = Def(f)
  <2>1. f = [i \in 1..(Len(s) + 1) |-> f[i]]
    OBVIOUS
  <2>2. \A i \in 1..(Len(s) + 1) : ~(i > Len(s)) => i \in 1..n
    BY <1>1
  <2>3. \A i \in 1..(Len(s) + 1) : i > Len(s) => i = n + 1
    BY <1>1
  <2>4. \A i \in 1..(Len(s) + 1) : f[i] = IF i > Len(s) THEN <<>>
                                          ELSE <<Piece(s, i)>> \o f[i + Len(Piece(s, i))]
    BY <1>4, <2>2, <2>3 DEF Reads
  <2> QED
    BY <2>1, <2>4
<1> DEFINE u == CHOOSE g : g = Def(g)
<1>6. u = Def(u)
  <2> HIDE DEF Def
  <2> QED
    BY <1>5, Zenon
<1>7. Pieces(s) = u[1]
  BY DEF Pieces, Piece, Here
<1> HIDE DEF u
<1>8. Reads(u, n, piece, jump)
  <2>1. n + 1 \in 1..(n + 1) /\ n + 1 > n
    BY <1>1
  <2>2. \A i \in 1..n : i \in 1..(n + 1) /\ ~(i > n)
    BY <1>1
  <2> QED
    BY <1>6, <2>1, <2>2 DEF Reads
<1>9. u[1] = f[1]
  <2>1. \A i \in 1..(n + 1) : u[i] = f[i]
    <3> HIDE DEF n, piece, jump
    <3> QED
      BY <1>1, <1>3, <1>4, <1>8, ReadsAgree, SMTT(40)
  <2> QED
    BY <1>1, <2>1
<1>10. 1 \in 1..(n + 1)
  BY <1>1
<1>11. ASSUME s # <<>>
       PROVE  f[1] # <<>>
  <2>1. 1 \in 1..n
    BY <1>1, <1>11
  <2>2. f[1] = <<Piece(s, 1)>> \o f[jump[1]] /\ f[jump[1]] \in Seq(Parts)
    BY <1>3, <1>4, <2>1 DEF Reads
  <2>3. Piece(s, 1) \in Parts
    BY <2>1, PieceType
  <2>4. Len(f[1]) = 1 + Len(f[jump[1]]) /\ Len(f[jump[1]]) \in Nat
    <3> HIDE DEF jump
    <3> QED
      BY <2>2, <2>3, ConcatProperties, LenProperties
  <2> QED
    BY <2>4, EmptySeq
<1> QED
  BY <1>4, <1>7, <1>9, <1>10, <1>11

-----------------------------------------------------------------------------
(* The binary search for the longest text that fits *)

Middle(p) == (p[1] + p[2] + 1) \div 2
Half(p, fits) ==
    IF Middle(p) \in fits THEN <<Middle(p), p[2]>> ELSE <<p[1], Middle(p) - 1>>

LEMMA HalfFacts ==
  ASSUME NEW n \in Nat, NEW fits, NEW p \in (0..n) \X (0..n), ~(p[1] >= p[2])
  PROVE  /\ Half(p, fits) \in (0..n) \X (0..n)
         /\ Half(p, fits)[1] <= Half(p, fits)[2]
         /\ Half(p, fits)[2] - Half(p, fits)[1] < p[2] - p[1]
<1> DEFINE a == p[1]  b == p[2]  m == (a + b + 1) \div 2
<1>1. a \in 0..n /\ b \in 0..n /\ a < b
  OBVIOUS
<1> HIDE DEF a, b
<1>2. m \in Nat /\ a < m /\ m <= b /\ m - 1 \in Nat
  BY <1>1
<1> HIDE DEF m
<1>3. Half(p, fits) = IF m \in fits THEN <<m, b>> ELSE <<a, m - 1>>
  BY DEF Half, Middle, m, a, b
<1>4. CASE m \in fits
  <2>1. Half(p, fits) = <<m, b>>
    BY <1>3, <1>4
  <2>2. <<m, b>> \in (0..n) \X (0..n)
    BY <1>1, <1>2
  <2>3. m <= b /\ b - m < b - a
    BY <1>1, <1>2
  <2> QED
    BY <2>1, <2>2, <2>3 DEF a, b
<1>5. CASE m \notin fits
  <2>1. Half(p, fits) = <<a, m - 1>>
    BY <1>3, <1>5
  <2>2. <<a, m - 1>> \in (0..n) \X (0..n)
    BY <1>1, <1>2
  <2>3. a <= m - 1 /\ (m - 1) - a < b - a
    BY <1>1, <1>2
  <2> QED
    BY <2>1, <2>2, <2>3 DEF a, b
<1> QED
  BY <1>4, <1>5

\* The search ends: n rounds of halving leave nothing to halve.
LEMMA SearchExists ==
  ASSUME NEW n \in Nat, NEW fits
  PROVE  \E f \in [(0..n) \X (0..n) -> 0..n] :
            \A p \in (0..n) \X (0..n) :
               f[p] = IF p[1] >= p[2] THEN p[1] ELSE f[Half(p, fits)]
<1> DEFINE D == (0..n) \X (0..n)
           V == [D -> 0..n]
           Round(g) == [p \in D |-> IF p[1] >= p[2] THEN p[1] ELSE g[Half(p, fits)]]
           step == [q \in (1..(n + 1)) \X V |-> Round(q[2])]
           start == [p \in D |-> p[1]]
<1>1. ASSUME NEW g \in V
      PROVE  Round(g) \in V
  <2>1. \A p \in D : p[1] \in 0..n /\ (~(p[1] >= p[2]) => g[Half(p, fits)] \in 0..n)
    BY HalfFacts
  <2> QED
    BY <2>1
<1>2. step \in [(1..(n + 1)) \X V -> V]
  <2> HIDE DEF V, Round
  <2> QED
    BY <1>1
<1>3. start \in V
  OBVIOUS
<1>4. \E h : Rises(h, V, start, n + 1, step)
  <2> HIDE DEF V, step, start
  <2>1. n + 1 \in Nat
    OBVIOUS
  <2> QED
    BY <1>2, <1>3, <2>1, Upward, Zenon
<1>5. PICK h : Rises(h, V, start, n + 1, step)
  BY <1>4
<1>6. h[0] = start /\ \A i \in 0..(n + 1) : h[i] \in V
  <2> HIDE DEF V, step, start
  <2> QED
    BY <1>5 DEF Rises
<1>7. ASSUME NEW i \in 1..(n + 1)
      PROVE  h[i] = Round(h[i - 1])
  <2>1. h[i] = step[<<i, h[i - 1]>>] /\ h[i - 1] \in V
    <3> HIDE DEF V, step, start
    <3>1. i - 1 \in 0..(n + 1)
      OBVIOUS
    <3> QED
      BY <1>5, <1>6, <3>1 DEF Rises
  <2>2. <<i, h[i - 1]>> \in (1..(n + 1)) \X V
    <3> HIDE DEF V
    <3> QED
      BY <2>1
  <2> HIDE DEF V, Round
  <2> QED
    BY <2>1, <2>2
<1>8. ASSUME NEW i \in 1..(n + 1), NEW p \in D
      PROVE  h[i][p] = IF p[1] >= p[2] THEN p[1] ELSE h[i - 1][Half(p, fits)]
  BY <1>7, ZenonT(40)
<1> DEFINE Settled(i) == \A p \in D : p[2] - p[1] <= i => h[i][p] = h[i + 1][p]
           S == {k \in Nat : k <= n => Settled(k)}
<1>9. 0 \in S
  <2>1. ASSUME NEW p \in D, p[2] - p[1] <= 0
        PROVE  h[0][p] = h[0 + 1][p]
    <3>1. p[1] >= p[2] /\ 1 \in 1..(n + 1)
      BY <2>1
    <3>2. h[1][p] = p[1]
      BY <1>8, <3>1
    <3>3. h[0][p] = p[1]
      BY <1>6
    <3> QED
      BY <3>2, <3>3
  <2> QED
    BY <2>1
<1>10. ASSUME NEW k \in Nat, k \in S
       PROVE  k + 1 \in S
  <2> SUFFICES ASSUME k + 1 <= n, NEW p \in D, p[2] - p[1] <= k + 1
               PROVE  h[k + 1][p] = h[(k + 1) + 1][p]
    OBVIOUS
  <2>1. /\ k <= n /\ k + 1 \in 1..(n + 1) /\ (k + 1) + 1 \in 1..(n + 1)
        /\ (k + 1) - 1 = k /\ ((k + 1) + 1) - 1 = k + 1
    OBVIOUS
  <2>2. h[k + 1][p] = IF p[1] >= p[2] THEN p[1] ELSE h[k][Half(p, fits)]
    BY <1>8, <2>1
  <2>3. h[(k + 1) + 1][p] = IF p[1] >= p[2] THEN p[1] ELSE h[k + 1][Half(p, fits)]
    BY <1>8, <2>1
  <2>4. ASSUME ~(p[1] >= p[2])
        PROVE  h[k][Half(p, fits)] = h[k + 1][Half(p, fits)]
    <3> DEFINE q == Half(p, fits)
    <3>1. q \in D /\ q[2] - q[1] < p[2] - p[1]
      BY <2>4, HalfFacts
    <3>2. p[1] \in Int /\ p[2] \in Int /\ q[1] \in Int /\ q[2] \in Int
      <4> HIDE DEF q
      <4> QED
        BY <3>1
    <3> HIDE DEF q
    <3>3. q[2] - q[1] <= k
      BY <3>1, <3>2
    <3>4. Settled(k)
      BY <1>10, <2>1
    <3> QED
      BY <3>1, <3>3, <3>4 DEF q
  <2> QED
    BY <2>2, <2>3, <2>4
<1>11. Settled(n)
  <2> HIDE DEF Settled
  <2>1. n \in S
    <3> HIDE DEF S
    <3> QED
      BY <1>9, <1>10, Induction
  <2> QED
    BY <2>1
<1>12. \A p \in D : h[n][p] = h[n + 1][p]
  <2>1. \A p \in D : p[2] - p[1] <= n
    OBVIOUS
  <2> QED
    BY <1>11, <2>1
<1>13. ASSUME NEW p \in D
       PROVE  h[n + 1][p] = IF p[1] >= p[2] THEN p[1] ELSE h[n + 1][Half(p, fits)]
  <2>1. n + 1 \in 1..(n + 1) /\ (n + 1) - 1 = n
    OBVIOUS
  <2>2. h[n + 1][p] = IF p[1] >= p[2] THEN p[1] ELSE h[n][Half(p, fits)]
    BY <1>8, <2>1
  <2>3. ~(p[1] >= p[2]) => Half(p, fits) \in D
    BY HalfFacts
  <2> QED
    BY <1>12, <2>2, <2>3
<1>14. h[n + 1] \in V
  <2>1. n + 1 \in 0..(n + 1)
    OBVIOUS
  <2> HIDE DEF V
  <2> QED
    BY <1>6, <2>1
<1> QED
  BY <1>13, <1>14

\* What is found fits, and one more does not; nothing is found if not even
\* nothing fits.
LEMMA LongestFits ==
  ASSUME NEW n \in Nat, NEW fits
  PROVE  /\ 0 \notin fits => LongestFitting(n, fits) = {}
         /\ 0 \in fits =>
               \E k \in 0..n : /\ LongestFitting(n, fits) = {k}
                               /\ k \in fits /\ (k = n \/ k + 1 \notin fits)
<1> DEFINE D == (0..n) \X (0..n)
           Def(g) == [p \in D |-> IF p[1] >= p[2] THEN p[1]
                                  ELSE IF Middle(p) \in fits THEN g[<<Middle(p), p[2]>>]
                                  ELSE g[<<p[1], Middle(p) - 1>>]]
<1>1. PICK f \in [D -> 0..n] :
         \A p \in D : f[p] = IF p[1] >= p[2] THEN p[1] ELSE f[Half(p, fits)]
  BY SearchExists
<1>2. f = Def(f)
  <2>1. f = [p \in D |-> f[p]]
    OBVIOUS
  <2>2. \A p \in D : f[p] = IF p[1] >= p[2] THEN p[1]
                            ELSE IF Middle(p) \in fits THEN f[<<Middle(p), p[2]>>]
                            ELSE f[<<p[1], Middle(p) - 1>>]
    BY <1>1 DEF Half
  <2> HIDE DEF D
  <2> QED
    BY <2>1, <2>2
<1> DEFINE u == CHOOSE g : g = Def(g)
<1>3. u = Def(u)
  <2> HIDE DEF Def
  <2> QED
    BY <1>2, Zenon
<1>4. LongestFitting(n, fits) = IF 0 \in fits THEN {u[<<0, n>>]} ELSE {}
  BY DEF LongestFitting, Middle
<1> HIDE DEF u
<1>5. ASSUME NEW p \in D
      PROVE  u[p] = IF p[1] >= p[2] THEN p[1] ELSE u[Half(p, fits)]
  <2> HIDE DEF D
  <2> QED
    BY <1>3 DEF Half
<1> DEFINE Right(p) == /\ u[p] \in 0..n /\ u[p] \in fits
                       /\ u[p] = n \/ u[p] + 1 \notin fits
           Bracket(p) == /\ p[1] <= p[2] /\ p[1] \in fits
                         /\ p[2] = n \/ p[2] + 1 \notin fits
           S == {k \in Nat : \A p \in D : Bracket(p) /\ p[2] - p[1] = k => Right(p)}
<1>6. ASSUME NEW k \in Nat, \A m \in Nat : m < k => m \in S
      PROVE  k \in S
  <2> SUFFICES ASSUME NEW p \in D, Bracket(p), p[2] - p[1] = k
               PROVE  Right(p)
    <3> HIDE DEF D, Bracket, Right
    <3> QED
      OBVIOUS
  <2>0. p[1] \in 0..n /\ p[2] \in 0..n
    OBVIOUS
  <2>1. CASE p[1] >= p[2]
    <3>1. u[p] = p[1] /\ p[1] = p[2]
      BY <1>5, <2>0, <2>1
    <3> QED
      BY <2>0, <3>1
  <2>2. CASE ~(p[1] >= p[2])
    <3> DEFINE q == Half(p, fits)
    <3>1. q \in D /\ q[1] <= q[2] /\ q[2] - q[1] < p[2] - p[1]
      BY <2>2, HalfFacts
    <3>2. u[p] = u[q]
      BY <1>5, <2>2
    <3>3. q[1] \in fits /\ (q[2] = n \/ q[2] + 1 \notin fits)
      <4>1. CASE Middle(p) \in fits
        <5>1. q = <<Middle(p), p[2]>>
          BY <4>1 DEF Half
        <5> QED
          BY <4>1, <5>1
      <4>2. CASE Middle(p) \notin fits
        <5>1. q = <<p[1], Middle(p) - 1>>
          BY <4>2 DEF Half
        <5>2. Middle(p) \in Int
          BY <2>0 DEF Middle
        <5>3. (Middle(p) - 1) + 1 = Middle(p)
          BY <5>2
        <5>4. q[2] + 1 \notin fits
          BY <4>2, <5>1, <5>3
        <5> QED
          BY <5>1, <5>4
      <4> QED
        BY <4>1, <4>2
    <3> HIDE DEF q
    <3>4. q[1] \in 0..n /\ q[2] \in 0..n
      BY <3>1
    <3> DEFINE m == q[2] - q[1]
    <3>5. m \in Nat /\ m < k
      BY <2>0, <3>1, <3>4
    <3>6. Bracket(q)
      BY <3>1, <3>3
    <3>7. m \in S
      <4> HIDE DEF m, S
      <4> QED
        BY <1>6, <3>5
    <3>8. Right(q)
      <4> HIDE DEF Right, Bracket, D
      <4> QED
        BY <3>1, <3>6, <3>7
    <3> QED
      BY <3>2, <3>8
  <2> QED
    BY <2>1, <2>2
<1>7. \A k \in Nat : k \in S
  <2> HIDE DEF S
  <2> QED
    BY <1>6, StrongInduction
<1>8. ASSUME 0 \in fits
      PROVE  Right(<<0, n>>)
  <2> DEFINE p == <<0, n>>
  <2>1. p \in D /\ p[1] = 0 /\ p[2] = n /\ p[2] - p[1] = n
    OBVIOUS
  <2>2. Bracket(p)
    BY <1>8, <2>1
  <2>3. n \in S
    <3> HIDE DEF S
    <3> QED
      BY <1>7
  <2> HIDE DEF p, Right, Bracket, D
  <2> QED
    BY <2>1, <2>2, <2>3 DEF p
<1> QED
  BY <1>4, <1>8

-----------------------------------------------------------------------------
(* The tokens of a conversation *)

Control == {<<"im_start">>, EndOfTurn, <<"newline">>} \cup {<<r, "newline">> : r \in Roles}
Tokens == Seq(Characters) \cup Control
Message == [role : Roles, content : Seq(Characters)]
Body(ms) == FlattenSeq([i \in DOMAIN ms |-> Turn(ms[i])])

LEMMA HeaderType ==
  ASSUME NEW role \in Roles
  PROVE  Header(role) \in Seq(Tokens) /\ Len(Header(role)) = 2
<1>1. <<"im_start">> \in Tokens /\ <<role, "newline">> \in Tokens
  BY DEF Tokens, Control
<1> QED
  BY <1>1 DEF Header

LEMMA TurnType ==
  ASSUME NEW m \in Message
  PROVE  /\ Pieces(m.content) \in Seq(Tokens) /\ TurnEnd \in Seq(Tokens)
         /\ Turn(m) \in Seq(Tokens) /\ Len(Turn(m)) = Len(Pieces(m.content)) + 4
<1>1. m.role \in Roles /\ m.content \in Seq(Characters)
  BY DEF Message
<1>2. Pieces(m.content) \in Seq(Parts)
  BY <1>1, PiecesType
<1>3. Pieces(m.content) \in Seq(Tokens)
  <2>1. Parts \subseteq Tokens
    BY DEF Parts, Tokens
  <2> QED
    BY <1>2, <2>1, SeqMonotonic
<1>4. TurnEnd \in Seq(Tokens) /\ Len(TurnEnd) = 2
  <2>1. EndOfTurn \in Tokens /\ <<"newline">> \in Tokens
    BY DEF Tokens, Control
  <2> QED
    BY <2>1 DEF TurnEnd
<1>5. /\ Header(m.role) \o Pieces(m.content) \in Seq(Tokens)
      /\ Len(Header(m.role) \o Pieces(m.content)) = 2 + Len(Pieces(m.content))
  <2> DEFINE h == Header(m.role)  c == Pieces(m.content)
  <2>1. h \in Seq(Tokens) /\ Len(h) = 2 /\ c \in Seq(Tokens)
    BY <1>1, <1>3, HeaderType
  <2> HIDE DEF h, c
  <2>2. h \o c \in Seq(Tokens) /\ Len(h \o c) = Len(h) + Len(c)
    BY <2>1, ConcatProperties
  <2> QED
    BY <2>1, <2>2 DEF h, c
<1>6. /\ (Header(m.role) \o Pieces(m.content)) \o TurnEnd \in Seq(Tokens)
      /\ Len((Header(m.role) \o Pieces(m.content)) \o TurnEnd) = (2 + Len(Pieces(m.content))) + 2
  <2> DEFINE a == Header(m.role) \o Pieces(m.content)
  <2> HIDE DEF a
  <2>1. a \in Seq(Tokens) /\ Len(a) = 2 + Len(Pieces(m.content))
    BY <1>5 DEF a
  <2>2. a \o TurnEnd \in Seq(Tokens) /\ Len(a \o TurnEnd) = Len(a) + Len(TurnEnd)
    BY <1>4, <2>1, ConcatProperties
  <2> QED
    BY <1>4, <2>1, <2>2 DEF a
<1>7. Len(Pieces(m.content)) \in Nat
  BY <1>3, LenProperties
<1> QED
  BY <1>3, <1>4, <1>6, <1>7 DEF Turn

LEMMA TurnsOf ==
  ASSUME NEW ms \in Messages
  PROVE  /\ [i \in DOMAIN ms |-> Turn(ms[i])] \in Seq(Seq(Tokens))
         /\ Len([i \in DOMAIN ms |-> Turn(ms[i])]) = Len(ms)
         /\ Body(ms) \in Seq(Tokens)
<1>1. DOMAIN ms = 1..Len(ms) /\ Len(ms) \in Nat /\ \A i \in DOMAIN ms : ms[i] \in Message
  BY LenProperties, ElementOfSeq DEF Messages, Message
<1> DEFINE t == [i \in DOMAIN ms |-> Turn(ms[i])]
<1>2. t \in [1..Len(ms) -> Seq(Tokens)]
  BY <1>1, TurnType
<1> HIDE DEF t
<1>3. t \in Seq(Seq(Tokens)) /\ Len(t) = Len(ms)
  BY <1>1, <1>2
<1>4. FlattenSeq(t) \in Seq(Tokens)
  BY <1>3, FlattenType
<1> QED
  BY <1>3, <1>4 DEF t, Body

LEMMA BodyAppend ==
  ASSUME NEW ms \in Messages, NEW m \in Message
  PROVE  Append(ms, m) \in Messages /\ Body(Append(ms, m)) = Body(ms) \o Turn(m)
<1> DEFINE t == [i \in DOMAIN ms |-> Turn(ms[i])]
           as == Append(ms, m)
           ta == [i \in DOMAIN as |-> Turn(as[i])]
<1>1. /\ ms \in Seq(Message) /\ as \in Seq(Message) /\ Len(as) = Len(ms) + 1
      /\ \A i \in 1..Len(ms) : as[i] = ms[i]
      /\ as[Len(ms) + 1] = m /\ Len(ms) \in Nat
      /\ DOMAIN ms = 1..Len(ms) /\ DOMAIN as = 1..(Len(ms) + 1)
  BY AppendProperties, LenProperties DEF Messages, Message
<1>2. as \in Messages
  BY <1>1 DEF Messages, Message
<1>3. t \in Seq(Seq(Tokens)) /\ Len(t) = Len(ms)
  BY TurnsOf
<1>4. ta \in Seq(Seq(Tokens)) /\ Len(ta) = Len(ms) + 1
  BY <1>1, <1>2, TurnsOf
<1>5. ta = Append(t, Turn(m))
  <2>1. Turn(m) \in Seq(Tokens)
    BY TurnType
  <2>2. /\ Append(t, Turn(m)) \in Seq(Seq(Tokens)) /\ Len(Append(t, Turn(m))) = Len(ms) + 1
        /\ \A i \in 1..Len(ms) : Append(t, Turn(m))[i] = t[i]
        /\ Append(t, Turn(m))[Len(ms) + 1] = Turn(m)
    <3> HIDE DEF t
    <3> QED
      BY <1>3, <2>1, AppendProperties
  <2>3. \A i \in 1..Len(ms) : ta[i] = t[i]
    BY <1>1
  <2>4. ta[Len(ms) + 1] = Turn(m)
    BY <1>1
  <2>5. \A i \in 1..(Len(ms) + 1) : ta[i] = Append(t, Turn(m))[i]
    <3>1. \A i \in 1..(Len(ms) + 1) : i \in 1..Len(ms) \/ i = Len(ms) + 1
      BY <1>1
    <3> HIDE DEF t, ta
    <3> QED
      BY <2>2, <2>3, <2>4, <3>1
  <2> HIDE DEF t, ta
  <2> QED
    BY <1>4, <2>2, <2>5, SeqEqual
<1>6. FlattenSeq(ta) = FlattenSeq(t) \o Turn(m)
  <2>1. Turn(m) \in Seq(Tokens)
    BY TurnType
  <2> HIDE DEF t, ta
  <2> QED
    BY <1>3, <1>5, <2>1, FlattenAppend
<1> QED
  BY <1>2, <1>6 DEF Body

LEMMA BodyEmpty == <<>> \in Messages /\ Body(<<>>) = <<>>
<1>1. <<>> \in Messages /\ Len(<<>>) = 0
  BY EmptySeq DEF Messages
<1> DEFINE t == [i \in DOMAIN <<>> |-> Turn(<<>>[i])]
<1>2. t \in Seq(Seq(Tokens)) /\ Len(t) = 0
  BY <1>1, TurnsOf
<1>3. t = <<>>
  BY <1>2, EmptySeq
<1> HIDE DEF t
<1>4. FlattenSeq(t) = <<>>
  BY <1>2, <1>3 DEF FlattenSeq
<1> QED
  BY <1>1, <1>4 DEF Body, t

LEMMA GenerationType == Generation \in Seq(Tokens) /\ Len(Generation) = 2
<1>1. "assistant" \in Roles
  BY DEF Roles
<1> QED
  BY <1>1, HeaderType DEF Generation

LEMMA EncodeType ==
  ASSUME NEW ms \in Messages
  PROVE  /\ EncodeTurns(ms) \in Seq(Tokens) /\ EncodeTurns(ms) = Body(ms) \o Generation
         /\ Len(EncodeTurns(ms)) \in Nat \ {0}
<1>1. EncodeTurns(ms) = Body(ms) \o Generation
  BY DEF EncodeTurns, Body
<1>2. Body(ms) \in Seq(Tokens) /\ Len(Body(ms)) \in Nat
  BY TurnsOf, LenProperties
<1>3. Body(ms) \o Generation \in Seq(Tokens) /\ Len(Body(ms) \o Generation) = Len(Body(ms)) + 2
  BY <1>2, GenerationType, ConcatProperties, SMTT(40)
<1> QED
  BY <1>1, <1>2, <1>3

LEMMA Associative ==
  ASSUME NEW T, NEW p \in Seq(T), NEW q \in Seq(T), NEW r \in Seq(T)
  PROVE  (p \o q) \o r = p \o (q \o r)
OBVIOUS

LEMMA One ==
  ASSUME NEW m \in Message
  PROVE  <<m>> \in Messages /\ Body(<<m>>) = Turn(m) /\ <<m>> = Append(<<>>, m)
<1>1. <<m>> = Append(<<>>, m)
  OBVIOUS
<1>2. Body(<<m>>) = <<>> \o Turn(m) /\ <<m>> \in Messages
  BY <1>1, BodyEmpty, BodyAppend
<1> QED
  BY <1>1, <1>2, TurnType, ConcatEmptySeq

\* The encoded turns end with those of the newest message alone.
LEMMA NewestLast ==
  ASSUME NEW ms \in Messages, NEW m \in Message
  PROVE  /\ EncodeTurns(Append(ms, m)) = Body(ms) \o EncodeTurns(<<m>>)
         /\ Body(ms) \in Seq(Tokens) /\ EncodeTurns(<<m>>) \in Seq(Tokens)
<1>1. EncodeTurns(<<m>>) = Turn(m) \o Generation /\ EncodeTurns(<<m>>) \in Seq(Tokens)
  BY One, EncodeType
<1>2. EncodeTurns(Append(ms, m)) = (Body(ms) \o Turn(m)) \o Generation
  BY BodyAppend, EncodeType
<1>3. Body(ms) \in Seq(Tokens) /\ Turn(m) \in Seq(Tokens) /\ Generation \in Seq(Tokens)
  BY TurnsOf, TurnType, GenerationType
<1>4. (Body(ms) \o Turn(m)) \o Generation = Body(ms) \o (Turn(m) \o Generation)
  BY <1>3, Associative
<1> QED
  BY <1>1, <1>2, <1>3, <1>4

\* A sequence is a suffix of what ends with it.
LEMMA EndsWith ==
  ASSUME NEW T, NEW r \in Seq(T), NEW s \in Seq(T)
  PROVE  IsSuffix(s, r \o s) /\ Len(s) <= Len(r \o s)
<1> DEFINE t == r \o s  n == Len(s)  k == Len(r)
<1>1. /\ n \in Nat /\ k \in Nat /\ t \in Seq(T) /\ Len(t) = k + n
      /\ \A i \in 1..n : t[k + i] = s[i]
  BY ConcatProperties, LenProperties
<1> HIDE DEF t
<1>2. Reverse(s) \in [1..n -> T] /\ Reverse(t) \in [1..(k + n) -> T]
  <2>1. \A i \in 1..n : s[(n - i) + 1] \in T
    BY <1>1, ElementOfSeq
  <2>2. \A i \in 1..(k + n) : t[((k + n) - i) + 1] \in T
    BY <1>1, ElementOfSeq
  <2> QED
    BY <1>1, <2>1, <2>2 DEF Reverse
<1>3. ASSUME NEW i \in 1..n
      PROVE  Reverse(s)[i] = Reverse(t)[i]
  <2>1. Reverse(s)[i] = s[(n - i) + 1]
    BY <1>1 DEF Reverse
  <2>2. Reverse(t)[i] = t[((k + n) - i) + 1]
    BY <1>1 DEF Reverse
  <2>3. (n - i) + 1 \in 1..n /\ ((k + n) - i) + 1 = k + ((n - i) + 1)
    BY <1>1
  <2> QED
    BY <1>1, <2>1, <2>2, <2>3
<1> DEFINE a == Reverse(s)  b == Reverse(t)
<1>4. a \in Seq(T) /\ b \in Seq(T) /\ Len(a) = n /\ Len(b) = k + n /\ \A i \in 1..n : a[i] = b[i]
  <2>1. a \in [1..n -> T] /\ b \in [1..(k + n) -> T] /\ \A i \in 1..n : a[i] = b[i]
    BY <1>2, <1>3
  <2>2. n \in Nat /\ k + n \in Nat
    BY <1>1
  <2> HIDE DEF a, b, n
  <2>3. a \in Seq(T) /\ Len(a) = n
    BY <2>1, <2>2
  <2> DEFINE l == k + n
  <2> HIDE DEF l, k
  <2>4. b \in [1..l -> T] /\ l \in Nat
    BY <2>1, <2>2 DEF l
  <2>5. b \in Seq(T) /\ Len(b) = l
    BY <2>4
  <2> QED
    BY <2>1, <2>3, <2>5 DEF l
<1> HIDE DEF a, b
<1>5. SubSeq(a, 1, n) = SubSeq(b, 1, n)
  <2>1. \A i \in 1..n : a[i] \in T /\ b[i] \in T
    BY <1>1, <1>4, ElementOfSeq
  <2>2. /\ SubSeq(a, 1, n) \in Seq(T) /\ SubSeq(b, 1, n) \in Seq(T)
        /\ Len(SubSeq(a, 1, n)) = n /\ Len(SubSeq(b, 1, n)) = n
        /\ \A i \in 1..n : SubSeq(a, 1, n)[i] = a[i] /\ SubSeq(b, 1, n)[i] = b[i]
    BY <1>1, <2>1, SubSeqProperties
  <2> QED
    BY <1>4, <2>2, SeqEqual
<1>6. IsPrefix(a, b)
  BY <1>1, <1>4, <1>5 DEF IsPrefix
<1> QED
  BY <1>1, <1>6 DEF IsSuffix, a, b, t

-----------------------------------------------------------------------------
(* Shortening a conversation *)

LEMMA FirstCharsType ==
  ASSUME NEW T, NEW s \in Seq(T), NEW n \in 0..Len(s)
  PROVE  /\ FirstChars(s, n) \in Seq(T) /\ Len(FirstChars(s, n)) = n
         /\ \A i \in 1..n : FirstChars(s, n)[i] = s[i]
<1>1. n \in Int /\ \A i \in 1..n : s[i] \in T
  BY LenProperties, ElementOfSeq
<1> QED
  BY <1>1, SubSeqProperties DEF FirstChars

LEMMA LastNType ==
  ASSUME NEW T, NEW s \in Seq(T), NEW n \in 0..Len(s)
  PROVE  /\ LastN(s, n) \in Seq(T) /\ Len(LastN(s, n)) = n
         /\ \A i \in 1..n : LastN(s, n)[i] = s[Len(s) - n + i]
         /\ LastN(s, Len(s)) = s
<1> DEFINE l == Len(s)  a == l - n + 1
<1>1. l \in Nat /\ a \in 1..(l + 1) /\ \A i \in a..l : s[i] \in T
  BY LenProperties, ElementOfSeq
<1>2. l - a + 1 = n /\ \A i \in 1..n : a + i - 1 = l - n + i
  BY <1>1
<1> HIDE DEF a
<1>3. /\ SubSeq(s, a, l) \in Seq(T) /\ Len(SubSeq(s, a, l)) = IF a <= l THEN l - a + 1 ELSE 0
      /\ \A i \in 1..(l - a + 1) : SubSeq(s, a, l)[i] = s[a + i - 1]
  BY <1>1, SubSeqProperties
<1>4. LastN(s, n) = SubSeq(s, a, l)
  BY DEF LastN, a
<1>5. LastN(s, l) = SubSeq(s, 1, l)
  <2>1. l - l + 1 = 1
    BY <1>1
  <2> QED
    BY <2>1 DEF LastN
<1>6. SubSeq(s, 1, l) = s
  BY SubSeqFull
<1>7. Len(SubSeq(s, a, l)) = n
  BY <1>1, <1>2, <1>3
<1> QED
  BY <1>2, <1>3, <1>4, <1>5, <1>6, <1>7

LEMMA RStripType ==
  ASSUME NEW s \in Seq(Characters)
  PROVE  RStrip(s) \in Seq(Characters) /\ Len(RStrip(s)) <= Len(s)
<1> DEFINE T == {0} \cup {i \in DOMAIN s : s[i] # Space}
<1>1. Len(s) \in Nat /\ DOMAIN s = 1..Len(s)
  BY LenProperties
<1>2. T \in SUBSET Nat /\ T # {} /\ \A j \in T : j <= Len(s)
  BY <1>1
<1>3. Max(T) \in T
  <2> HIDE DEF T
  <2> QED
    BY <1>1, <1>2, LargestElement
<1>4. Max(T) \in 0..Len(s)
  BY <1>1, <1>3
<1>5. RStrip(s) = FirstChars(s, Max(T))
  BY DEF RStrip
<1> HIDE DEF T
<1>6. FirstChars(s, Max(T)) \in Seq(Characters) /\ Len(FirstChars(s, Max(T))) = Max(T)
  BY <1>4, FirstCharsType
<1> QED
  BY <1>4, <1>5, <1>6

LEMMA WordsOfType ==
  ASSUME NEW c \in Seq(Characters), NEW n \in 0..Len(c)
  PROVE  WordsOf(c, n) \in Seq(Characters)
<1> DEFINE kept == FirstChars(c, n)
           spaces == {i \in DOMAIN RStrip(kept) : kept[i] = Space /\ i > 1}
<1>1. kept \in Seq(Characters) /\ Len(kept) \in Nat
  BY FirstCharsType, LenProperties
<1>2. WordsOf(c, n) = RStrip(IF 0 < n /\ n < Len(c) /\ spaces # {}
                             THEN FirstChars(kept, Max(spaces) - 1) ELSE kept)
  BY DEF WordsOf
<1>3. ASSUME spaces # {}
      PROVE  FirstChars(kept, Max(spaces) - 1) \in Seq(Characters)
  <2>1. RStrip(kept) \in Seq(Characters) /\ Len(RStrip(kept)) <= Len(kept)
    <3> HIDE DEF kept
    <3> QED
      BY <1>1, RStripType
  <2>2. DOMAIN RStrip(kept) = 1..Len(RStrip(kept)) /\ Len(RStrip(kept)) \in Nat
    <3> HIDE DEF kept
    <3> QED
      BY <2>1, LenProperties
  <2> HIDE DEF kept
  <2>3. spaces \in SUBSET Nat /\ \A j \in spaces : j <= Len(kept) /\ j >= 1
    BY <1>1, <2>1, <2>2
  <2> HIDE DEF spaces
  <2>4. Max(spaces) \in spaces
    BY <1>1, <1>3, <2>3, LargestElement
  <2> DEFINE x == Max(spaces)
  <2>5. x \in Nat /\ x <= Len(kept) /\ x >= 1
    BY <2>3, <2>4
  <2> HIDE DEF x
  <2>6. x - 1 \in 0..Len(kept)
    BY <1>1, <2>5
  <2> QED
    BY <1>1, <2>6, FirstCharsType DEF x
<1> HIDE DEF kept, spaces
<1> QED
  BY <1>1, <1>2, <1>3, RStripType

LEMMA SystemTurn ==
  ASSUME NEW messages \in Messages
  PROVE  /\ WithDefaultSystem(messages) \in Messages
         /\ Len(WithDefaultSystem(messages)) \in Nat \ {0}
<1> DEFINE d == [role |-> "system", content |-> DefaultSystem]
<1>1. d \in Message
  BY ChatWindowAssumption DEF Message, Roles
<1> HIDE DEF d
<1>2. messages \in Seq(Message) /\ Len(messages) \in Nat
  BY LenProperties DEF Messages, Message
<1>3. <<d>> \o messages \in Seq(Message) /\ Len(<<d>> \o messages) = 1 + Len(messages)
  <2>1. <<d>> \in Seq(Message) /\ Len(<<d>>) = 1
    BY <1>1
  <2> QED
    BY <1>2, <2>1, ConcatProperties
<1>4. WithDefaultSystem(messages) =
        IF messages = <<>> \/ messages[1].role # "system" THEN <<d>> \o messages ELSE messages
  BY DEF WithDefaultSystem, d
<1>5. messages # <<>> => Len(messages) # 0
  BY <1>2, EmptySeq
<1> DEFINE c == WithDefaultSystem(messages)
           e == <<d>> \o messages
<1>6. c = e \/ (c = messages /\ messages # <<>>)
  BY <1>4
<1>7. c \in Seq(Message) /\ Len(c) \in Nat \ {0}
  <2>1. e \in Seq(Message) /\ Len(e) = 1 + Len(messages)
    BY <1>3
  <2> HIDE DEF c, e
  <2>2. Len(e) \in Nat \ {0}
    BY <1>2, <2>1
  <2> QED
    BY <1>2, <1>5, <1>6, <2>1, <2>2
<1> HIDE DEF c, e
<1>8. Messages = Seq(Message)
  BY DEF Messages, Message
<1> QED
  BY <1>7, <1>8 DEF c

\* What is left without the k oldest turns: the system turn first, the newest
\* turn last, and as many turns fewer.
LEMMA WithoutOldest ==
  ASSUME NEW c \in Messages, NEW k \in 0..(Len(c) - 2)
  PROVE  \E front \in Messages :
            /\ Without(c, k) = EncodeTurns(Append(front, c[Len(c)]))
            /\ Len(front) = Len(c) - 1 - k /\ front[1] = c[1]
<1> DEFINE n == Len(c)  mid == SubSeq(c, k + 2, n - 1)  front == <<c[1]>> \o mid
<1>1. n \in Nat /\ k \in Nat /\ k + 2 <= n /\ c \in Seq(Message) /\ \A i \in 1..n : c[i] \in Message
  <2>1. c \in Seq(Message)
    BY DEF Messages, Message
  <2>2. n \in Nat /\ \A i \in 1..n : c[i] \in Message
    BY <2>1, LenProperties, ElementOfSeq
  <2> QED
    BY <2>1, <2>2
<1>2. mid \in Seq(Message) /\ Len(mid) = n - 2 - k
  <2>1. k + 2 \in Int /\ n - 1 \in Int /\ \A i \in (k + 2)..(n - 1) : c[i] \in Message
    BY <1>1
  <2>2. mid \in Seq(Message) /\ Len(mid) = IF k + 2 <= n - 1 THEN (n - 1) - (k + 2) + 1 ELSE 0
    BY <2>1, SubSeqProperties
  <2> HIDE DEF mid
  <2> QED
    BY <1>1, <2>2
<1>3. SubSeq(c, k + 2, n) = mid \o <<c[n]>>
  <2>1. k + 2 \in 1..n /\ n \in (k + 2)..n
    BY <1>1
  <2> QED
    BY <1>1, <2>1, SubSeqRecursiveSecond
<1>4. c[1] \in Message /\ c[n] \in Message
  BY <1>1
<1> HIDE DEF mid, n
<1>5. <<c[1]>> \in Seq(Message) /\ <<c[n]>> \in Seq(Message) /\ Len(<<c[1]>>) = 1 /\ <<c[1]>>[1] = c[1]
  BY <1>4
<1>6. front \in Seq(Message) /\ Len(front) = 1 + Len(mid) /\ front[1] = c[1]
  <2> DEFINE a == <<c[1]>>
  <2>1. a \in Seq(Message) /\ Len(a) = 1 /\ a[1] = c[1]
    BY <1>5
  <2> HIDE DEF a
  <2>2. Len(mid) \in Nat
    BY <1>2, LenProperties
  <2>3. a \o mid \in Seq(Message) /\ Len(a \o mid) = Len(a) + Len(mid)
        /\ \A i \in 1 .. Len(a) + Len(mid) : (a \o mid)[i] = IF i <= Len(a) THEN a[i] ELSE mid[i - Len(a)]
    BY <1>2, <2>1, ConcatProperties
  <2>4. (a \o mid)[1] = c[1]
    BY <2>1, <2>2, <2>3
  <2> QED
    BY <2>1, <2>3, <2>4 DEF a
<1>7. <<c[1]>> \o (mid \o <<c[n]>>) = front \o <<c[n]>>
  BY <1>2, <1>5, Associative, SMTT(40)
<1> HIDE DEF front
<1>8. front \o <<c[n]>> = Append(front, c[n])
  BY <1>4, <1>6, AppendIsConcat
<1>9. Without(c, k) = EncodeTurns(Append(front, c[n]))
  BY <1>3, <1>7, <1>8 DEF Without, n
<1>10. front \in Messages
  BY <1>6 DEF Messages, Message
<1>11. Len(front) = Len(c) - 1 - k
  BY <1>1, <1>2, <1>6 DEF n
<1> QED
  BY <1>6, <1>9, <1>10, <1>11 DEF n

LEMMA WithoutNone ==
  ASSUME NEW c \in Messages, Len(c) >= 2
  PROVE  Without(c, 0) = EncodeTurns(c)
<1> DEFINE n == Len(c)
<1>1. n \in Nat /\ 1 \in 1..n /\ n \in 1..n /\ c \in Seq(Message)
  BY LenProperties DEF Messages, Message
<1>2. SubSeq(c, 1, n) = <<c[1]>> \o SubSeq(c, 1 + 1, n)
  BY <1>1, SubSeqRecursiveFirst
<1>3. SubSeq(c, 1, n) = c
  BY <1>1, SubSeqFull
<1>4. 0 + 2 = 1 + 1
  OBVIOUS
<1> QED
  BY <1>2, <1>3, <1>4 DEF Without

-----------------------------------------------------------------------------
(* What encode_chat_window returns *)

NewestTail(m, n) == EncodeTurns(<< [m EXCEPT !.content = LastN(@, n)] >>)

\* Whole turns are left: those of `front`, then the newest one.
WholeTurns(w, c, budget, front) ==
    /\ ~w.token_fallback
    /\ front \in Messages
    /\ w.ids = EncodeTurns(Append(front, c[Len(c)]))
    /\ Len(w.ids) <= budget
    /\ w.dropped_messages \in Int
    /\ Len(front) = Len(c) - 1 - w.dropped_messages
    /\ \A k \in 0..(Len(c) - 2) :
          Len(Without(c, k)) <= budget =>
             w.dropped_messages <= k /\ front # <<>> /\ front[1] = c[1]

\* The end of the newest message is left, as much as fits.
EndOfNewest(w, m, budget, n) ==
    /\ n \in 0..(Len(m.content) - 1)
    /\ w.ids = NewestTail(m, n)
    /\ Len(w.ids) <= budget
    /\ Len(NewestTail(m, n + 1)) > budget

LEMMA NewestTailType ==
  ASSUME NEW m \in Message, NEW n \in 0..Len(m.content)
  PROVE  /\ [m EXCEPT !.content = LastN(@, n)] \in Message
         /\ NewestTail(m, n) \in Seq(Tokens) /\ Len(NewestTail(m, n)) \in Nat \ {0}
         /\ NewestTail(m, Len(m.content)) = EncodeTurns(<<m>>)
<1>1. m.content \in Seq(Characters) /\ m = [role |-> m.role, content |-> m.content] /\ m.role \in Roles
  BY DEF Message
<1>2. LastN(m.content, n) \in Seq(Characters) /\ LastN(m.content, Len(m.content)) = m.content
  BY <1>1, LastNType
<1>3. [m EXCEPT !.content = LastN(@, n)] \in Message
  BY <1>1, <1>2 DEF Message
<1>4. [m EXCEPT !.content = LastN(@, Len(m.content))] = m
  BY <1>1, <1>2
<1> QED
  BY <1>3, <1>4, One, EncodeType DEF NewestTail

\* A shortened system prompt is one turn before the newest, and fits.
LEMMA SystemPrefixFits ==
  ASSUME NEW s \in Message, NEW m \in Message, NEW budget, NEW w \in SystemPrefix(s, m, budget)
  PROVE  \E t \in Message : w = EncodeTurns(Append(<<t>>, m)) /\ Len(w) <= budget
<1> DEFINE Shown(n) == EncodeTurns(<< [s EXCEPT !.content = WordsOf(@, n)], m >>)
           length == Len(s.content)
           fits == {n \in 0..length : Len(Shown(n)) <= budget}
<1>1. s.content \in Seq(Characters) /\ length \in Nat /\ s.role \in Roles
  BY LenProperties DEF Message
<1>2. SystemPrefix(s, m, budget) = {Shown(n) : n \in LongestFitting(length, fits) \ {0}}
  BY DEF SystemPrefix
<1>3. \A n \in LongestFitting(length, fits) : n \in fits
  <2> HIDE DEF length, fits
  <2> QED
    BY <1>1, LongestFits
<1>4. PICK n \in fits : w = Shown(n)
  <2> HIDE DEF length, fits, Shown
  <2> QED
    BY <1>2, <1>3
<1>5. n \in 0..length /\ Len(Shown(n)) <= budget
  BY <1>4
<1> DEFINE t == [s EXCEPT !.content = WordsOf(@, n)]
<1>6. t \in Message
  BY <1>1, <1>5, WordsOfType DEF Message
<1>7. <<t, m>> = Append(<<t>>, m)
  OBVIOUS
<1> QED
  BY <1>4, <1>5, <1>6, <1>7

\* The end of the newest message that is kept is as long as it can be.
LEMMA NewestSuffixFits ==
  ASSUME NEW m \in Message, NEW budget \in Nat, Len(EncodeTurns(<<m>>)) > budget
  PROVE  /\ NewestSuffix(m, budget) = {} => Len(NewestTail(m, 0)) > budget
         /\ \A r \in NewestSuffix(m, budget) :
               \E n \in 0..(Len(m.content) - 1) :
                  /\ r = NewestTail(m, n) /\ Len(r) <= budget
                  /\ Len(NewestTail(m, n + 1)) > budget
<1> DEFINE length == Len(m.content)
           fits == {n \in 0..length : Len(NewestTail(m, n)) <= budget}
<1>1. length \in Nat
  BY LenProperties DEF Message
<1>2. NewestSuffix(m, budget) = {NewestTail(m, n) : n \in LongestFitting(length, fits)}
  BY DEF NewestSuffix, NewestTail
<1>3. \A n \in 0..length : Len(NewestTail(m, n)) \in Nat
  BY NewestTailType
<1>4. length \notin fits
  <2>0. 0 \in 0..Len(m.content)
    BY <1>1
  <2>1. NewestTail(m, length) = EncodeTurns(<<m>>)
    BY <2>0, NewestTailType
  <2> QED
    BY <1>1, <1>3, <2>1
<1>5. CASE 0 \notin fits
  <2>1. LongestFitting(length, fits) = {}
    <3> HIDE DEF length, fits
    <3> QED
      BY <1>1, <1>5, LongestFits
  <2>2. Len(NewestTail(m, 0)) > budget
    BY <1>1, <1>3, <1>5
  <2> QED
    BY <1>2, <2>1, <2>2
<1>6. CASE 0 \in fits
  <2>1. PICK k \in 0..length : /\ LongestFitting(length, fits) = {k}
                               /\ k \in fits /\ (k = length \/ k + 1 \notin fits)
    <3> HIDE DEF length, fits
    <3> QED
      BY <1>1, <1>6, LongestFits
  <2>2. k # length
    <3> HIDE DEF fits
    <3> QED
      BY <1>4, <2>1
  <2>3. k \in 0..(length - 1) /\ k + 1 \in 0..length
    BY <1>1, <2>2
  <2>4. k + 1 \notin fits
    <3> HIDE DEF fits
    <3> QED
      BY <2>1, <2>2
  <2>5. Len(NewestTail(m, k)) <= budget
    BY <2>1
  <2>6. Len(NewestTail(m, k + 1)) > budget
    BY <1>3, <2>3, <2>4
  <2>7. NewestSuffix(m, budget) = {NewestTail(m, k)}
    <3> HIDE DEF length, fits
    <3> QED
      BY <1>2, <2>1
  <2> QED
    BY <2>3, <2>5, <2>6, <2>7
<1> QED
  BY <1>5, <1>6

LEMMA TurnsAreLonger ==
  ASSUME NEW front \in Messages, NEW m \in Message, NEW budget \in Nat,
         Len(EncodeTurns(Append(front, m))) <= budget
  PROVE  Len(EncodeTurns(<<m>>)) <= budget
<1> DEFINE a == EncodeTurns(<<m>>)  b == EncodeTurns(Append(front, m))
<1>1. b = Body(front) \o a /\ Body(front) \in Seq(Tokens) /\ a \in Seq(Tokens)
  BY NewestLast
<1> HIDE DEF a
<1>2. Len(a) <= Len(b) /\ Len(a) \in Nat
  BY <1>1, EndsWith, LenProperties
<1>3. Append(front, m) \in Messages
  BY BodyAppend
<1>4. Len(b) \in Nat
  BY <1>3, EncodeType
<1> QED
  BY <1>2, <1>4 DEF a

LEMMA ChatWindowCases ==
  ASSUME NEW messages \in Messages, NEW budget \in Nat \ {0}
  PROVE  LET c == WithDefaultSystem(messages)
             m == c[Len(c)]
             w == EncodeChatWindow(messages, budget)
         IN  \/ \E front \in Messages : WholeTurns(w, c, budget, front)
             \/ /\ Len(EncodeTurns(<<m>>)) > budget
                /\ w.dropped_messages = Len(c) - 1
                /\ \/ \E n \in Nat : EndOfNewest(w, m, budget, n)
                   \/ /\ Len(NewestTail(m, 0)) > budget
                      /\ w.token_fallback
                      /\ w.ids \in Seq(Tokens) /\ Len(w.ids) = budget
<1> DEFINE c == WithDefaultSystem(messages)
           n == Len(c)
           m == c[n]
           full == EncodeTurns(c)
           enough == Enough(c, budget)
           words == IF n > 1 THEN SystemPrefix(c[1], m, budget) ELSE {}
           alone == EncodeTurns(<<m>>)
           rest == NewestSuffix(m, budget)
           system == IF n > 1 THEN "dropped" ELSE "whole"
           w == EncodeChatWindow(messages, budget)
           Whole == \E front \in Messages : WholeTurns(w, c, budget, front)
           Goal == \/ Whole
                   \/ /\ Len(alone) > budget
                      /\ w.dropped_messages = n - 1
                      /\ \/ \E k \in Nat : EndOfNewest(w, m, budget, k)
                         \/ /\ Len(NewestTail(m, 0)) > budget
                            /\ w.token_fallback
                            /\ w.ids \in Seq(Tokens) /\ Len(w.ids) = budget
<1>0. SUFFICES Goal
  OBVIOUS
<1>1. c \in Messages /\ n \in Nat \ {0} /\ m \in Message /\ c[1] \in Message
  <2>1. c \in Messages /\ n \in Nat \ {0}
    BY SystemTurn
  <2>2. c \in Seq(Message)
    BY <2>1 DEF Messages, Message
  <2> HIDE DEF c
  <2>3. n \in 1..n /\ 1 \in 1..n
    BY <2>1
  <2> QED
    BY <2>1, <2>2, <2>3, ElementOfSeq
<1>2. /\ Len(full) <= budget => w = Cut(full, 0, "whole", FALSE, FALSE)
      /\ Len(full) > budget /\ enough # {} =>
            w = Cut(Without(c, Min(enough)), Min(enough), "whole", FALSE, FALSE)
      /\ ~(Len(full) <= budget) /\ ~(Len(full) > budget /\ enough # {}) =>
            w = IF words # {}
                THEN Cut(CHOOSE x \in words : TRUE, n - 2, "truncated", FALSE, FALSE)
                ELSE IF n > 1 /\ Len(alone) <= budget
                THEN Cut(alone, n - 1, system, FALSE, FALSE)
                ELSE IF rest # {}
                THEN Cut(CHOOSE r \in rest : TRUE, n - 1, system, TRUE, FALSE)
                ELSE Cut(LastN(full, budget), n - 1, system, FALSE, TRUE)
  <2>1. Len(full) <= budget => ~(Len(full) > budget /\ enough # {})
    <3>1. Len(full) \in Nat
      BY <1>1, EncodeType
    <3> HIDE DEF full
    <3> QED
      BY <3>1
  <2>2. w = CASE Len(full) <= budget -> Cut(full, 0, "whole", FALSE, FALSE)
              [] Len(full) > budget /\ enough # {} ->
                    Cut(Without(c, Min(enough)), Min(enough), "whole", FALSE, FALSE)
              [] OTHER ->
                    IF words # {}
                    THEN Cut(CHOOSE x \in words : TRUE, n - 2, "truncated", FALSE, FALSE)
                    ELSE IF n > 1 /\ Len(alone) <= budget
                    THEN Cut(alone, n - 1, system, FALSE, FALSE)
                    ELSE IF rest # {}
                    THEN Cut(CHOOSE r \in rest : TRUE, n - 1, system, TRUE, FALSE)
                    ELSE Cut(LastN(full, budget), n - 1, system, FALSE, TRUE)
    BY DEF EncodeChatWindow
  <2> HIDE DEF c, n, m, full, enough, words, alone, rest, system, w
  <2> QED
    BY <2>1, <2>2
<1> HIDE DEF w
<1>3. full \in Seq(Tokens) /\ Len(full) \in Nat /\ Len(alone) \in Nat
  BY <1>1, One, EncodeType
<1>4. PICK before \in Messages : c = Append(before, m) /\ Len(before) = n - 1
  <2>1. c \in Seq(Message) /\ c # <<>>
    BY <1>1, EmptySeq DEF Messages, Message
  <2> HIDE DEF c
  <2>2. PICK f \in Seq(Message), e \in Message : c = Append(f, e)
    BY <2>1, SequenceEmptyOrAppend
  <2>3. Len(c) = Len(f) + 1 /\ c[Len(f) + 1] = e /\ Len(f) \in Nat
    BY <2>2, AppendProperties, LenProperties
  <2>4. f \in Messages
    BY DEF Messages, Message
  <2> QED
    BY <2>2, <2>3, <2>4
<1> HIDE DEF c, m
<1>5. \A k \in enough : k \in 1..(n - 2) /\ Len(Without(c, k)) <= budget
  BY DEF Enough
<1>6. \A k \in 0..(n - 2) : Len(Without(c, k)) <= budget =>
         k \in enough \/ (k = 0 /\ Len(full) <= budget)
  <2> SUFFICES ASSUME NEW k \in 0..(n - 2), Len(Without(c, k)) <= budget
               PROVE  k \in enough \/ (k = 0 /\ Len(full) <= budget)
    OBVIOUS
  <2>1. CASE k = 0
    <3>1. n >= 2
      BY <1>1
    <3> QED
      BY <1>1, <2>1, <3>1, WithoutNone
  <2>2. CASE k # 0
    BY <1>1, <2>2 DEF Enough
  <2> QED
    BY <2>1, <2>2
<1>7. CASE Len(full) <= budget
  <2>1. w.ids = full /\ w.dropped_messages = 0 /\ ~w.token_fallback
    BY <1>2, <1>7 DEF Cut
  <2>2. \A k \in 0..(n - 2) : 0 <= k /\ before # <<>> /\ before[1] = c[1]
    <3> SUFFICES ASSUME NEW k \in 0..(n - 2) PROVE 0 <= k /\ before # <<>> /\ before[1] = c[1]
      OBVIOUS
    <3>1. n >= 2 /\ 0 <= k
      BY <1>1
    <3>2. before \in Seq(Message)
      BY DEF Messages, Message
    <3>3. Len(before) # 0 /\ 1 \in 1..Len(before)
      BY <1>1, <1>4, <3>1
    <3>4. before # <<>>
      BY <3>2, <3>3, EmptySeq
    <3>5. c[1] = before[1]
      BY <1>1, <1>4, <3>2, <3>3, AppendProperties
    <3> QED
      BY <3>1, <3>4, <3>5
  <2>3. WholeTurns(w, c, budget, before)
    <3>1. full = EncodeTurns(Append(before, m)) /\ n - 1 - 0 = n - 1
      BY <1>1, <1>4
    <3> HIDE DEF full
    <3>2. n = Len(c) /\ Len(before) = n - 1 - 0 /\ m = c[Len(c)]
      BY <1>1, <1>4, <3>1 DEF m
    <3> HIDE DEF n
    <3> QED
      BY <1>7, <2>1, <2>2, <3>1, <3>2 DEF WholeTurns
  <2> QED
    BY <2>3
<1>8. CASE Len(full) > budget /\ enough # {}
  <2> DEFINE k == Min(enough)
  <2>1. k \in enough /\ \A j \in enough : k <= j
    <3>1. enough \in SUBSET Nat
      BY <1>1 DEF Enough
    <3> HIDE DEF enough
    <3> QED
      BY <1>8, <3>1, LeastElement
  <2>2. w.ids = Without(c, k) /\ w.dropped_messages = k /\ ~w.token_fallback
    BY <1>2, <1>8 DEF Cut
  <2> HIDE DEF k
  <2>3. k \in 0..(n - 2) /\ Len(Without(c, k)) <= budget
    BY <1>1, <1>5, <2>1
  <2>4. PICK front \in Messages :
           /\ Without(c, k) = EncodeTurns(Append(front, m))
           /\ Len(front) = n - 1 - k /\ front[1] = c[1]
    BY <1>1, <2>3, WithoutOldest DEF m
  <2>5. front # <<>>
    <3>1. Len(front) # 0
      BY <1>1, <2>3, <2>4
    <3> QED
      BY <3>1, EmptySeq
  <2>6. \A j \in 0..(n - 2) : Len(Without(c, j)) <= budget => k <= j
    <3> SUFFICES ASSUME NEW j \in 0..(n - 2), Len(Without(c, j)) <= budget PROVE k <= j
      OBVIOUS
    <3>1. j \in enough
      BY <1>3, <1>6, <1>8
    <3> QED
      BY <2>1, <3>1
  <2>7. WholeTurns(w, c, budget, front)
    BY <2>2, <2>3, <2>4, <2>5, <2>6 DEF WholeTurns, m
  <2> QED
    BY <2>7
<1>9. CASE Len(full) > budget /\ enough = {}
  <2>1. ~(Len(full) <= budget) /\ ~(Len(full) > budget /\ enough # {})
    BY <1>3, <1>9
  <2>2. w = IF words # {}
            THEN Cut(CHOOSE x \in words : TRUE, n - 2, "truncated", FALSE, FALSE)
            ELSE IF n > 1 /\ Len(alone) <= budget
            THEN Cut(alone, n - 1, system, FALSE, FALSE)
            ELSE IF rest # {}
            THEN Cut(CHOOSE r \in rest : TRUE, n - 1, system, TRUE, FALSE)
            ELSE Cut(LastN(full, budget), n - 1, system, FALSE, TRUE)
    BY <1>2, <2>1
  <2>3. \A k \in 0..(n - 2) : ~(Len(Without(c, k)) <= budget)
    BY <1>6, <1>9, <2>1
  <2>4. CASE words # {}
    <3> DEFINE x == CHOOSE y \in words : TRUE
    <3>1. x \in words
      BY <2>4
    <3>2. w.ids = x /\ w.dropped_messages = n - 2 /\ ~w.token_fallback
      BY <2>2, <2>4 DEF Cut
    <3> HIDE DEF x
    <3>3. x \in SystemPrefix(c[1], m, budget)
      BY <3>1
    <3>4. PICK t \in Message : x = EncodeTurns(Append(<<t>>, m)) /\ Len(x) <= budget
      BY <1>1, <3>3, SystemPrefixFits
    <3>5. <<t>> \in Messages /\ Len(<<t>>) = 1
      BY One
    <3>6. 1 = n - 1 - (n - 2)
      BY <1>1
    <3>7. WholeTurns(w, c, budget, <<t>>)
      BY <2>3, <3>2, <3>4, <3>5, <3>6 DEF WholeTurns, m
    <3> QED
      BY <3>5, <3>7
  <2>5. CASE words = {} /\ n > 1 /\ Len(alone) <= budget
    <3>1. w.ids = alone /\ w.dropped_messages = n - 1 /\ ~w.token_fallback
      BY <2>2, <2>5 DEF Cut
    <3>2. <<>> \in Messages /\ Len(<<>>) = 0 /\ alone = EncodeTurns(Append(<<>>, m))
      BY <1>1, BodyEmpty, One
    <3>3. 0 = n - 1 - (n - 1)
      BY <1>1
    <3>4. WholeTurns(w, c, budget, <<>>)
      BY <2>3, <2>5, <3>1, <3>2, <3>3 DEF WholeTurns, m
    <3> QED
      BY <3>2, <3>4
  <2>6. CASE words = {} /\ ~(n > 1 /\ Len(alone) <= budget)
    <3>1. Len(alone) > budget
      <4>1. CASE n > 1
        BY <1>3, <2>6, <4>1
      <4>2. CASE ~(n > 1)
        <5>1. before = <<>>
          <6>1. Len(before) = 0
            BY <1>1, <1>4, <4>2
          <6> QED
            BY <6>1, EmptySeq DEF Messages
        <5>2. full = alone
          BY <1>1, <1>4, <5>1, One
        <5> QED
          BY <1>9, <5>2
      <4> QED
        BY <4>1, <4>2
    <3>2. /\ rest = {} => Len(NewestTail(m, 0)) > budget
          /\ \A r \in rest : \E k \in 0..(Len(m.content) - 1) :
                /\ r = NewestTail(m, k) /\ Len(r) <= budget
                /\ Len(NewestTail(m, k + 1)) > budget
      BY <1>1, <3>1, NewestSuffixFits
    <3>3. CASE rest # {}
      <4> DEFINE r == CHOOSE y \in rest : TRUE
      <4>1. r \in rest
        BY <3>3
      <4>2. w.ids = r /\ w.dropped_messages = n - 1
        BY <2>2, <2>6, <3>3 DEF Cut
      <4> HIDE DEF r, rest
      <4>3. PICK k \in 0..(Len(m.content) - 1) :
               /\ r = NewestTail(m, k) /\ Len(r) <= budget
               /\ Len(NewestTail(m, k + 1)) > budget
        BY <3>2, <4>1
      <4>4. EndOfNewest(w, m, budget, k)
        BY <4>2, <4>3 DEF EndOfNewest
      <4>5. k \in Nat
        OBVIOUS
      <4> QED
        BY <3>1, <4>2, <4>4, <4>5
    <3>4. CASE rest = {}
      <4>1. w.ids = LastN(full, budget) /\ w.token_fallback /\ w.dropped_messages = n - 1
        BY <2>2, <2>6, <3>4 DEF Cut
      <4>2. budget \in 0..Len(full)
        BY <1>3, <1>9
      <4>3. LastN(full, budget) \in Seq(Tokens) /\ Len(LastN(full, budget)) = budget
        BY <1>3, <4>2, LastNType
      <4>4. Len(NewestTail(m, 0)) > budget
        BY <3>2, <3>4
      <4> QED
        BY <3>1, <4>1, <4>3, <4>4
    <3> QED
      BY <3>3, <3>4
  <2> QED
    BY <2>4, <2>5, <2>6
<1>10. Len(full) <= budget \/ (Len(full) > budget /\ enough # {})
          \/ (Len(full) > budget /\ enough = {})
  BY <1>3
<1> QED
  BY <1>7, <1>8, <1>9, <1>10

-----------------------------------------------------------------------------
(* Types and the prompt *)

LEMMA SelectInIds ==
  ASSUME NEW T, NEW history \in Seq(T), NEW l \in [Ids -> Int],
         NEW params, IsSetting(params)
  PROVE  Select(l, history, params) \subseteq Ids
<1> DEFINE scores == Adjusted(l, history, params)
<1>1. scores \in [Ids -> Int]
  BY AdjustedType
<1> HIDE DEF scores
<1>2. ArgMax(l) \in Ids /\ ArgMax(scores) \in Ids
  BY <1>1, ArgMaxIsBest
<1>3. TopK(scores, params.top_k) \subseteq Ids
  BY DEF TopK
<1>4. \A rising \in BOOLEAN :
         TopP(scores, TopK(scores, params.top_k), params.top_p, rising) \subseteq Ids
  BY <1>3 DEF TopP
<1> QED
  BY <1>2, <1>4 DEF Select, Drawn, scores

Steps == {"encode", "decode", "choose", "end", "done"}
\* What a generated token is made of: no character of several bytes.
SingleBytes == Characters \ {Wide, Bad}

TokensTyped ==
    /\ request \in Requests
    /\ window.ids \in Seq(Tokens)
    /\ generated \in Seq(Seq(SingleBytes))

\* The prompt is what the windowing functions return for the request.
WindowOf(r) ==
    IF r.raw
    THEN EncodePromptWindow(r.messages[1].content, r.context - r.max)
    ELSE EncodeChatWindow(r.messages, r.context - r.max)
WindowIsOf == pc # "encode" => window = WindowOf(request)

\* A chosen token is one the sampler may return for the logits of the step.
ChoiceIsOf ==
    pc = "choose" =>
        /\ logits \in [Ids -> Int]
        /\ \E i \in Select(logits, History, request.params) : next = Vocabulary[i]

CompletionInv == TokensTyped /\ WindowIsOf /\ ChoiceIsOf

LEMMA RequestFacts ==
  ASSUME NEW r \in Requests
  PROVE  /\ r.messages \in Messages /\ r.context - r.max \in Nat \ {0}
         /\ IsSetting(r.params) /\ r.raw \in BOOLEAN
         /\ r.raw => /\ r.messages[1].content \in Seq(Characters)
                     /\ r.messages[1].content # <<>>
<1>1. IsRequest(r)
  BY CompletionAssumption
<1>2. r.context - r.max \in Nat \ {0}
  BY <1>1 DEF IsRequest
<1>3. ASSUME r.raw
      PROVE  r.messages[1].content \in Seq(Characters)
  <2>1. r.messages \in Seq(Message) /\ r.messages # <<>>
    BY <1>1, <1>3 DEF IsRequest, Messages, Message
  <2>2. 1 \in 1..Len(r.messages)
    BY <2>1, EmptySeq
  <2>3. r.messages[1] \in Message
    BY <2>1, <2>2, ElementOfSeq
  <2> QED
    BY <2>3 DEF Message
<1> QED
  BY <1>1, <1>2, <1>3 DEF IsRequest

LEMMA PromptWindowType ==
  ASSUME NEW s \in Seq(Characters), s # <<>>, NEW budget \in Nat \ {0}
  PROVE  /\ EncodePromptWindow(s, budget).ids \in Seq(Tokens)
         /\ Len(EncodePromptWindow(s, budget).ids) \in 1..budget
<1> DEFINE ids == Pieces(s)
<1>1. ids \in Seq(Parts) /\ ids # <<>>
  BY PiecesType
<1>2. ids \in Seq(Tokens)
  <2>1. Parts \subseteq Tokens
    BY DEF Parts, Tokens
  <2> HIDE DEF ids
  <2> QED
    BY <1>1, <2>1, SeqMonotonic
<1>3. Len(ids) \in Nat \ {0}
  <2> HIDE DEF ids
  <2> QED
    BY <1>1, EmptySeq
<1>4. EncodePromptWindow(s, budget).ids = IF Len(ids) <= budget THEN ids ELSE LastN(ids, budget)
  BY DEF EncodePromptWindow
<1> HIDE DEF ids
<1>5. CASE Len(ids) <= budget
  BY <1>2, <1>3, <1>4, <1>5
<1>6. CASE ~(Len(ids) <= budget)
  <2>1. budget \in 0..Len(ids)
    BY <1>3, <1>6
  <2>2. LastN(ids, budget) \in Seq(Tokens) /\ Len(LastN(ids, budget)) = budget
    BY <1>2, <2>1, LastNType
  <2> QED
    BY <1>4, <1>6, <2>2
<1> QED
  BY <1>5, <1>6

LEMMA ChatWindowType ==
  ASSUME NEW messages \in Messages, NEW budget \in Nat \ {0}
  PROVE  /\ EncodeChatWindow(messages, budget).ids \in Seq(Tokens)
         /\ Len(EncodeChatWindow(messages, budget).ids) \in 1..budget
<1> DEFINE c == WithDefaultSystem(messages)
           m == c[Len(c)]
           w == EncodeChatWindow(messages, budget)
<1>1. m \in Message
  <2>1. c \in Messages /\ Len(c) \in Nat \ {0}
    BY SystemTurn
  <2> HIDE DEF c
  <2>2. c \in Seq(Message) /\ Len(c) \in 1..Len(c)
    BY <2>1 DEF Messages, Message
  <2> QED
    BY <2>2, ElementOfSeq
<1>2. \/ \E front \in Messages : WholeTurns(w, c, budget, front)
      \/ \E n \in Nat : EndOfNewest(w, m, budget, n)
      \/ w.ids \in Seq(Tokens) /\ Len(w.ids) = budget
  BY ChatWindowCases
<1> HIDE DEF c, w
<1>3. ASSUME NEW front \in Messages, WholeTurns(w, c, budget, front)
      PROVE  w.ids \in Seq(Tokens) /\ Len(w.ids) \in 1..budget
  <2>1. w.ids = EncodeTurns(Append(front, m)) /\ Len(w.ids) <= budget
    BY <1>3 DEF WholeTurns
  <2> HIDE DEF m
  <2>2. Append(front, m) \in Messages
    BY <1>1, BodyAppend
  <2>3. w.ids \in Seq(Tokens) /\ Len(w.ids) \in Nat \ {0}
    BY <2>1, <2>2, EncodeType
  <2> QED
    BY <2>1, <2>3
<1> HIDE DEF m
<1>4. ASSUME NEW n \in Nat, EndOfNewest(w, m, budget, n)
      PROVE  w.ids \in Seq(Tokens) /\ Len(w.ids) \in 1..budget
  <2>1. n \in 0..Len(m.content)
    <3>1. Len(m.content) \in Nat
      BY <1>1, LenProperties DEF Message
    <3> QED
      BY <1>4, <3>1 DEF EndOfNewest
  <2>2. NewestTail(m, n) \in Seq(Tokens) /\ Len(NewestTail(m, n)) \in Nat \ {0}
    BY <1>1, <2>1, NewestTailType
  <2>3. w.ids = NewestTail(m, n) /\ Len(w.ids) <= budget
    BY <1>4 DEF EndOfNewest
  <2> QED
    BY <2>2, <2>3
<1>5. budget \in 1..budget
  OBVIOUS
<1> QED
  BY <1>2, <1>3, <1>4, <1>5 DEF w

LEMMA WindowType ==
  ASSUME NEW r \in Requests
  PROVE  WindowOf(r).ids \in Seq(Tokens) /\ Len(WindowOf(r).ids) \in 1..(r.context - r.max)
<1> DEFINE budget == r.context - r.max
<1>1. budget \in Nat \ {0}
  BY RequestFacts
<1> HIDE DEF budget
<1>2. CASE r.raw
  BY <1>1, <1>2, RequestFacts, PromptWindowType DEF WindowOf, budget
<1>3. CASE ~r.raw
  BY <1>1, <1>3, RequestFacts, ChatWindowType DEF WindowOf, budget
<1> QED
  BY <1>2, <1>3

LEMMA CompletionInit == Init => CompletionInv
<1> SUFFICES ASSUME Init PROVE CompletionInv
  OBVIOUS
<1>1. TokensTyped
  BY EmptySeq DEF Init, TokensTyped
<1>2. WindowIsOf /\ ChoiceIsOf
  BY DEF Init, WindowIsOf, ChoiceIsOf
<1> QED
  BY <1>1, <1>2 DEF CompletionInv

LEMMA BytesAreText ==
  ASSUME NEW ts \in Seq(Seq(SingleBytes))
  PROVE  ts \in Seq(Seq(Characters)) /\ ts \in Seq(Tokens)
<1>1. SingleBytes \subseteq Characters
  BY DEF SingleBytes
<1>2. Seq(SingleBytes) \subseteq Seq(Characters) /\ Seq(Characters) \subseteq Tokens
  BY <1>1, SeqMonotonic DEF Tokens
<1>3. ts \in Seq(Seq(Characters))
  BY <1>2, SeqMonotonic
<1> QED
  BY <1>2, <1>3, SeqMonotonic

\* A token that is taken is a sequence of bytes.
LEMMA TakenType == CompletionInv /\ Take => next \in Seq(SingleBytes)
<1> SUFFICES ASSUME CompletionInv, Take PROVE next \in Seq(SingleBytes)
  OBVIOUS
<1> USE DEF CompletionInv
<1>1. pc = "choose" /\ next # Eos
  BY DEF Take
<1>2. PICK i \in Select(logits, History, request.params) : next = Vocabulary[i]
  BY <1>1 DEF ChoiceIsOf
<1>3. i \in Ids
  <2>1. logits \in [Ids -> Int]
    BY <1>1 DEF ChoiceIsOf
  <2>2. generated \in Seq(Tokens)
    BY BytesAreText DEF TokensTyped
  <2>3. History \in Seq(Tokens)
    BY <2>2, ConcatProperties DEF TokensTyped, History
  <2>4. IsSetting(request.params)
    BY RequestFacts DEF TokensTyped
  <2> QED
    BY <1>2, <2>1, <2>3, <2>4, SelectInIds
<1> QED
  <2>1. i \in 1..Len(Vocabulary)
    BY <1>3, VocabularyAssumption DEF Ids
  <2>2. Vocabulary[i] \in Seq(SingleBytes) \cup {Eos}
    BY <2>1, CompletionAssumption, ElementOfSeq DEF SingleBytes
  <2> QED
    BY <1>1, <1>2, <2>2

LEMMA CompletionStep == CompletionInv /\ [Next]_vars => CompletionInv'
<1> SUFFICES ASSUME CompletionInv, [Next]_vars
             PROVE  CompletionInv'
  OBVIOUS
<1> USE DEF CompletionInv
<1>1. CASE Encode
  <2>1. request' = request /\ generated' = generated /\ pc' = "decode"
    BY <1>1 DEF Encode, callVars, textVars
  <2>2. window' = WindowOf(request)
    BY <1>1 DEF Encode, WindowOf, Context
  <2>3. WindowOf(request).ids \in Seq(Tokens)
    BY WindowType DEF TokensTyped
  <2> QED
    BY <2>1, <2>2, <2>3 DEF TokensTyped, WindowIsOf, ChoiceIsOf
<1>2. CASE DecodeStep
  <2>1. UNCHANGED <<request, window, generated>> /\ pc = "decode"
    BY <1>2 DEF DecodeStep, callVars, textVars
  <2>2. logits' \in [Ids -> Int]
    BY <1>2, CompletionAssumption DEF DecodeStep
  <2>3. \E i \in Select(logits', window.ids \o generated, request.params) : next' = Vocabulary[i]
    BY <1>2 DEF DecodeStep
  <2>4. ChoiceIsOf'
    BY <2>1, <2>2, <2>3 DEF ChoiceIsOf, History
  <2> QED
    BY <2>1, <2>4 DEF TokensTyped, WindowIsOf
<1>3. CASE TakeEos
  <2>1. UNCHANGED <<request, window, generated>> /\ pc # "encode" /\ pc' = "end"
    BY <1>3 DEF TakeEos, callVars, textVars
  <2> QED
    BY <2>1 DEF TokensTyped, WindowIsOf, ChoiceIsOf
<1>4. CASE Take
  <2>1. /\ UNCHANGED <<request, window>> /\ pc # "encode" /\ pc' \in {"end", "decode"}
        /\ pc = "choose" /\ next # Eos /\ generated' = Append(generated, next)
    BY <1>4 DEF Take, callVars
  <2>4. next \in Seq(SingleBytes)
    BY <1>4, TakenType
  <2>5. generated' \in Seq(Seq(SingleBytes))
    BY <2>1, <2>4, AppendProperties DEF TokensTyped
  <2> QED
    BY <2>1, <2>5 DEF TokensTyped, WindowIsOf, ChoiceIsOf
<1>5. CASE EndMatched
  <2>1. UNCHANGED <<request, window, generated>> /\ pc # "encode" /\ pc' = "done"
    BY <1>5 DEF EndMatched, callVars, textVars
  <2> QED
    BY <2>1 DEF TokensTyped, WindowIsOf, ChoiceIsOf
<1>6. CASE EndFlushed
  <2>1. UNCHANGED <<request, window, generated>> /\ pc # "encode" /\ pc' = "done"
    BY <1>6 DEF EndFlushed, callVars
  <2> QED
    BY <2>1 DEF TokensTyped, WindowIsOf, ChoiceIsOf
<1>7. CASE UNCHANGED vars
  BY <1>7 DEF vars, callVars, stepVars, textVars, TokensTyped, WindowIsOf, ChoiceIsOf, History
<1> QED
  BY <1>1, <1>2, <1>3, <1>4, <1>5, <1>6, <1>7 DEF Next

LEMMA CompletionInvariant == Spec => []CompletionInv
<1>1. Init => CompletionInv
  BY CompletionInit
<1>2. CompletionInv /\ [Next]_vars => CompletionInv'
  BY CompletionStep
<1> QED
  BY <1>1, <1>2, PTL DEF Spec

-----------------------------------------------------------------------------
(* The theorems about the prompt *)

LEMMA NewestFacts ==
  ASSUME NEW r \in Requests
  PROVE  LET c == WithDefaultSystem(r.messages)
         IN  /\ c \in Messages /\ Len(c) \in Nat \ {0}
             /\ c[Len(c)] \in Message /\ Len(c[Len(c)].content) \in Nat
<1> DEFINE c == WithDefaultSystem(r.messages)
<1>1. c \in Messages /\ Len(c) \in Nat \ {0}
  BY RequestFacts, SystemTurn
<1> HIDE DEF c
<1>2. c \in Seq(Message) /\ Len(c) \in 1..Len(c)
  BY <1>1 DEF Messages, Message
<1>3. c[Len(c)] \in Message
  BY <1>2, ElementOfSeq
<1>4. Len(c[Len(c)].content) \in Nat
  BY <1>3, LenProperties DEF Message
<1> QED
  BY <1>1, <1>3, <1>4 DEF c

\* The prompt leaves room for max_new_tokens in the attention window whatever
\* the messages, the merges of the tokenizer and the window are:
\* encode_chat_window and encode_prompt_window return between one token and the
\* budget.
THEOREM PromptFits == Spec => []WindowFits
<1>1. CompletionInv => WindowFits
  <2> SUFFICES ASSUME CompletionInv, Encoded
               PROVE  Len(window.ids) \in 1..Budget
    BY DEF WindowFits
  <2>1. request \in Requests /\ window = WindowOf(request)
    BY DEF CompletionInv, TokensTyped, WindowIsOf, Encoded
  <2> QED
    BY <2>1, WindowType DEF Budget, Context
<1> QED
  BY <1>1, CompletionInvariant, PTL

\* The newest message is never the one that is dropped: it ends the prompt
\* whole when it fits on its own, and else with the longest end of it that
\* fits, which the binary search of _longest_fitting finds although the length
\* in tokens does not grow with the length of the text.
THEOREM NewestStays == Spec => []NewestKept
<1>1. CompletionInv => NewestKept
  <2> SUFFICES ASSUME CompletionInv, Encoded, ~request.raw
               PROVE  IF Len(Suffix(Len(Newest.content))) <= Budget
                      THEN IsSuffix(Suffix(Len(Newest.content)), window.ids)
                      ELSE Len(Suffix(0)) <= Budget =>
                              \E n \in 0..(Len(Newest.content) - 1) :
                                  window.ids = Suffix(n) /\ Len(Suffix(n + 1)) > Budget
    BY DEF NewestKept
  <2> DEFINE c == WithDefaultSystem(request.messages)
             m == c[Len(c)]
             alone == EncodeTurns(<<m>>)
  <2>1. /\ request \in Requests /\ request.messages \in Messages /\ Budget \in Nat \ {0}
        /\ window = EncodeChatWindow(request.messages, Budget)
    <3>1. request \in Requests /\ window = WindowOf(request)
      BY DEF CompletionInv, TokensTyped, WindowIsOf, Encoded
    <3> QED
      BY <3>1, RequestFacts DEF WindowOf, Budget, Context
  <2>2. c \in Messages /\ m \in Message /\ Len(m.content) \in Nat
    BY <2>1, NewestFacts
  <2>3. Newest = m /\ \A n : Suffix(n) = NewestTail(m, n)
    BY DEF Newest, Chat, Last, Suffix, NewestTail
  <2>4. \/ \E front \in Messages : WholeTurns(window, c, Budget, front)
        \/ /\ Len(alone) > Budget
           /\ \/ \E n \in Nat : EndOfNewest(window, m, Budget, n)
              \/ Len(NewestTail(m, 0)) > Budget
    BY <2>1, ChatWindowCases
  <2> HIDE DEF c
  <2>5. NewestTail(m, Len(m.content)) = alone /\ Len(NewestTail(m, 0)) \in Nat /\ Len(alone) \in Nat
    <3>1. 0 \in 0..Len(m.content) /\ Len(m.content) \in 0..Len(m.content)
      BY <2>2
    <3> QED
      BY <2>2, <3>1, NewestTailType
  <2>6. ASSUME NEW front \in Messages, WholeTurns(window, c, Budget, front)
        PROVE  Len(alone) <= Budget /\ IsSuffix(alone, window.ids)
    <3>1. window.ids = EncodeTurns(Append(front, m)) /\ Len(window.ids) <= Budget
      BY <2>6 DEF WholeTurns
    <3> HIDE DEF m
    <3>2. Len(alone) <= Budget
      BY <2>1, <2>2, <3>1, TurnsAreLonger
    <3>3. window.ids = Body(front) \o alone /\ Body(front) \in Seq(Tokens) /\ alone \in Seq(Tokens)
      BY <2>2, <3>1, NewestLast
    <3> HIDE DEF alone
    <3> QED
      BY <3>2, <3>3, EndsWith
  <2> HIDE DEF m, alone
  <2>7. CASE \E front \in Messages : WholeTurns(window, c, Budget, front)
    BY <2>3, <2>5, <2>6, <2>7
  <2>8. CASE Len(alone) > Budget /\ \E n \in Nat : EndOfNewest(window, m, Budget, n)
    <3>1. ~(Len(Suffix(Len(Newest.content))) <= Budget)
      BY <2>1, <2>3, <2>5, <2>8
    <3>2. PICK n \in Nat : EndOfNewest(window, m, Budget, n)
      BY <2>8
    <3> QED
      BY <2>3, <3>1, <3>2 DEF EndOfNewest
  <2>9. CASE Len(alone) > Budget /\ Len(NewestTail(m, 0)) > Budget
    BY <2>1, <2>3, <2>5, <2>9
  <2> QED
    BY <2>4, <2>7, <2>8, <2>9
<1> QED
  BY <1>1, CompletionInvariant, PTL

-----------------------------------------------------------------------------
(* The theorems about the choice of a token *)

\* The sequence the penalties look at is one of tokens, so that every lemma
\* about Select applies.
LEMMA ChoiceFacts ==
  ASSUME CompletionInv, pc = "choose"
  PROVE  /\ logits \in [Ids -> Int] /\ History \in Seq(Tokens) /\ IsSetting(request.params)
         /\ IdOf(next) \in Select(logits, History, request.params) /\ IdOf(next) \in Ids
<1>1. /\ logits \in [Ids -> Int] /\ request \in Requests
      /\ \E i \in Select(logits, History, request.params) : next = Vocabulary[i]
  BY DEF CompletionInv, ChoiceIsOf, TokensTyped
<1>2. generated \in Seq(Tokens)
  BY BytesAreText DEF CompletionInv, TokensTyped
<1>3. History \in Seq(Tokens)
  BY <1>2, ConcatProperties DEF CompletionInv, TokensTyped, History
<1>4. IsSetting(request.params)
  BY <1>1, RequestFacts
<1>5. Select(logits, History, request.params) \subseteq Ids
  BY <1>1, <1>3, <1>4, SelectInIds
<1> QED
  BY <1>1, <1>3, <1>4, <1>5, IdOfToken

\* The argmax shortcut is sound for every vocabulary, logit vector and history:
\* whatever the pipeline without it may return scores as much as the token it
\* took, because greedy_for holds only when nothing can move the scores.
THEOREM ShortcutIsSound == Spec => []GreedyIsArgmax
<1>1. CompletionInv => GreedyIsArgmax
  <2> SUFFICES ASSUME CompletionInv, pc = "choose", GreedyFor(request.params),
                      NEW i \in Drawn(logits, History, request.params)
               PROVE  logits[i] = logits[IdOf(next)]
    BY DEF GreedyIsArgmax
  <2> DEFINE params == request.params  best == ArgMax(logits)
  <2>1. /\ logits \in [Ids -> Int] /\ History \in Seq(Tokens) /\ IsSetting(params)
        /\ IdOf(next) \in Select(logits, History, params)
    BY ChoiceFacts
  <2>2. IdOf(next) = best
    BY <2>1 DEF Select
  <2>3. Adjusted(logits, History, params) = logits
    BY <2>1, Unmoved DEF GreedyFor
  <2>4. best \in Ids /\ \A j \in Ids : logits[j] <= logits[best]
    BY <2>1, ArgMaxIsBest
  <2>5. CASE params.temperature = 0
    BY <2>2, <2>3, <2>5 DEF Drawn
  <2>6. CASE params.temperature # 0
    <3>1. params.top_k = 1
      BY <2>6 DEF GreedyFor
    <3>2. PICK rising \in BOOLEAN : i \in TopP(logits, TopK(logits, 1), params.top_p, rising)
      BY <2>3, <2>6, <3>1 DEF Drawn
    <3>3. i \in TopK(logits, 1)
      BY <3>2 DEF TopP
    <3> DEFINE Above == {j \in Ids : logits[j] > logits[i]}
    <3>4. i \in Ids /\ Cardinality(Above) < 1
      BY <2>1, <3>3, TopKFacts
    <3>5. Above = {}
      <4>1. IsFiniteSet(Ids) /\ Above \subseteq Ids
        BY IdFacts, FS_Interval
      <4> HIDE DEF Above
      <4>2. IsFiniteSet(Above)
        BY <4>1, FS_Subset
      <4>3. Cardinality(Above) \in Nat
        BY <4>2, FS_CardinalityType
      <4>4. Cardinality(Above) = 0
        BY <3>4, <4>3
      <4> QED
        BY <4>2, <4>4, FS_EmptySet
    <3>6. ~(logits[best] > logits[i])
      BY <2>4, <3>5
    <3>7. logits[best] \in Int /\ logits[i] \in Int
      BY <2>1, <2>4, <3>4
    <3> QED
      BY <2>2, <2>4, <3>4, <3>6, <3>7
  <2> QED
    BY <2>5, <2>6
<1> QED
  BY <1>1, CompletionInvariant, PTL

LEMMA NucleusFacts ==
  ASSUME NEW scores \in [Ids -> Int], NEW tokens \in SUBSET Ids, NEW q \in 1..4
  PROVE  /\ \A i \in tokens : (\A j \in Ids : scores[j] <= scores[i]) /\
                              (\A j \in Ids : scores[j] = scores[i] => i <= j)
               => i \in TopP(scores, tokens, q, TRUE)
         /\ \A rising \in BOOLEAN : \A i \in TopP(scores, tokens, q, rising) :
               4 * Mass(Weights(scores), {j \in tokens : scores[j] > scores[i]})
                  < q * Mass(Weights(scores), tokens)
<1> DEFINE w == Weights(scores)
           Before(i, rising) == {j \in tokens : Precedes(scores, j, i, rising)}
<1>1. w \in [Ids -> Nat] /\ \A i \in Ids : w[i] > 0
  <2>1. w \in [Ids -> Nat \ {0}]
    BY WeightsType
  <2> HIDE DEF w
  <2>2. \A i \in Ids : w[i] \in Nat /\ w[i] > 0
    BY <2>1
  <2> QED
    BY <2>1, <2>2
<1>2. \A i \in Ids, r \in BOOLEAN : TopP(scores, tokens, q, r) =
         IF q >= 4 THEN tokens
         ELSE {k \in tokens : 4 * Mass(w, Before(k, r)) < q * Mass(w, tokens)}
  BY DEF TopP
<1> HIDE DEF w
<1>3. ASSUME NEW i \in tokens, \A j \in Ids : scores[j] <= scores[i],
             \A j \in Ids : scores[j] = scores[i] => i <= j
      PROVE  i \in TopP(scores, tokens, q, TRUE)
  <2>1. \A j \in tokens : scores[j] \in Int /\ scores[i] \in Int /\ j \in Nat /\ i \in Nat
    BY IdFacts
  <2>2. Before(i, TRUE) = {}
    <3> SUFFICES ASSUME NEW j \in tokens, Precedes(scores, j, i, TRUE) PROVE FALSE
      OBVIOUS
    <3>1. scores[j] > scores[i] \/ (scores[j] = scores[i] /\ j < i)
      BY DEF Precedes
    <3>2. j \in Ids /\ scores[j] <= scores[i] /\ (scores[j] = scores[i] => i <= j)
      BY <1>3
    <3> QED
      BY <2>1, <3>1, <3>2
  <2>3. Mass(w, Before(i, TRUE)) = 0
    BY <1>1, <2>2, NoMass
  <2>4. Mass(w, {}) < Mass(w, tokens) /\ Mass(w, tokens) \in Nat
    <3>1. {} \cap Ids \subseteq tokens /\ i \in Ids /\ i \notin {}
      OBVIOUS
    <3> QED
      BY <1>1, <3>1, MassGrows
  <2> DEFINE M == Mass(w, tokens)
  <2>5. M \in Nat /\ M > 0
    BY <1>1, <2>4, NoMass
  <2> HIDE DEF M
  <2>6. 4 * 0 < q * M
    <3>1. q = 1 \/ q = 2 \/ q = 3 \/ q = 4
      OBVIOUS
    <3> QED
      BY <2>5, <3>1
  <2> QED
    BY <1>2, <2>3, <2>6 DEF M
<1>4. ASSUME NEW rising \in BOOLEAN, NEW i \in TopP(scores, tokens, q, rising)
      PROVE  4 * Mass(w, {j \in tokens : scores[j] > scores[i]}) < q * Mass(w, tokens)
  <2> DEFINE Above == {j \in tokens : scores[j] > scores[i]}
             B == Before(i, rising)
             M == Mass(w, tokens)
  <2>1. i \in tokens /\ i \in Ids
    BY DEF TopP
  <2>2. Above \cap Ids \subseteq tokens /\ Above \cap Ids \subseteq B
    BY DEF Precedes
  <2>3. i \notin Above
    BY <2>1
  <2> HIDE DEF Above, B
  <2>4. /\ Mass(w, Above) \in Nat /\ Mass(w, B) \in Nat /\ M \in Nat
        /\ Mass(w, Above) <= Mass(w, B)
    BY <1>1, <2>2, MassGrows
  <2>5. Mass(w, Above) < M
    BY <1>1, <2>1, <2>2, <2>3, MassGrows
  <2>6. q >= 4 \/ 4 * Mass(w, B) < q * M
    BY <1>2, <2>1 DEF B
  <2> HIDE DEF M
  <2>7. CASE q >= 4
    <3>1. q = 4
      BY <2>7
    <3> QED
      BY <2>4, <2>5, <3>1 DEF Above, M
  <2>8. CASE 4 * Mass(w, B) < q * M
    <3> DEFINE x == Mass(w, Above)  y == Mass(w, B)  z == q * M
    <3>1. x \in Nat /\ y \in Nat /\ z \in Int /\ x <= y /\ 4 * y < z
      BY <2>4, <2>8
    <3> HIDE DEF x, y, z
    <3>2. 4 * x < z
      BY <3>1
    <3> QED
      BY <3>2 DEF x, z, Above, M
  <2> QED
    BY <2>6, <2>7, <2>8
<1> QED
  BY <1>3, <1>4 DEF w

\* Sampling returns only what top_k and top_p allow, and never loses a best
\* token, for every temperature, top_k, top_p, penalty, bias and order in which
\* equal scores are sorted.
THEOREM SamplesAreAllowed == Spec => []SampledFromTheTop
<1>1. CompletionInv => SampledFromTheTop
  <2> SUFFICES ASSUME CompletionInv, Sampled PROVE SampledFromTheTop
    BY DEF SampledFromTheTop
  <2> DEFINE params == request.params
             s == Scores
             top == TopK(s, params.top_k)
             i == IdOf(next)
             drawn == Drawn(logits, History, params)
             best == ArgMax(s)
  <2>1. /\ logits \in [Ids -> Int] /\ History \in Seq(Tokens) /\ IsSetting(params)
        /\ i \in Select(logits, History, params) /\ i \in Ids
    BY ChoiceFacts DEF Sampled
  <2>2. i \in drawn
    BY <2>1 DEF Select, Sampled
  <2>3. s \in [Ids -> Int]
    BY <2>1, AdjustedType DEF Scores
  <2>4. drawn = IF params.temperature = 0 THEN {best}
                ELSE UNION {TopP(s, top, params.top_p, rising) : rising \in BOOLEAN}
    BY DEF Drawn, Scores
  <2>5. params.top_k \in Nat /\ params.top_p \in 1..4
    BY <2>1 DEF IsSetting
  <2>6. \A k, tokens : Better(k, tokens) = {j \in tokens : s[j] > s[k]}
    BY DEF Better
  <2> HIDE DEF params, s, i, drawn, best
  <2>7. /\ best \in Ids /\ \A j \in Ids : s[j] <= s[best]
        /\ \A j \in Ids : s[j] = s[best] => best <= j
    BY <2>3, ArgMaxIsBest DEF best
  <2>8. Better(best, Ids) = {}
    <3>1. \A j \in Ids : s[j] \in Int /\ s[best] \in Int /\ s[j] <= s[best]
      BY <2>3, <2>7
    <3> QED
      BY <2>6, <3>1
  <2>9. /\ top \in SUBSET Ids
        /\ \A k \in Ids : (\A j \in Ids : s[j] <= s[k]) => k \in top
        /\ \A k \in top : params.top_k > 0 =>
              Cardinality({j \in Ids : s[j] > s[k]}) < params.top_k
    BY <2>3, <2>5, TopKFacts
  <2> HIDE DEF top
  <2>10. best \in drawn
    <3>1. CASE params.temperature = 0
      BY <2>4, <3>1
    <3>2. CASE params.temperature # 0
      <4>1. best \in TopP(s, top, params.top_p, TRUE)
        BY <2>3, <2>5, <2>7, <2>9, NucleusFacts
      <4> QED
        BY <2>4, <3>2, <4>1
    <3> QED
      BY <3>1, <3>2
  <2>11. IF params.temperature = 0 THEN Better(i, Ids) = {}
         ELSE /\ params.top_k > 0 => Cardinality(Better(i, Ids)) < params.top_k
              /\ 4 * Mass(Weights(s), Better(i, top)) < params.top_p * Mass(Weights(s), top)
    <3>1. CASE params.temperature = 0
      BY <2>2, <2>4, <2>8, <3>1
    <3>2. CASE params.temperature # 0
      <4>1. PICK rising \in BOOLEAN : i \in TopP(s, top, params.top_p, rising)
        BY <2>2, <2>4, <3>2
      <4>2. i \in top
        BY <4>1 DEF TopP
      <4>3. params.top_k > 0 => Cardinality(Better(i, Ids)) < params.top_k
        BY <2>6, <2>9, <4>2
      <4>4. 4 * Mass(Weights(s), {j \in top : s[j] > s[i]}) < params.top_p * Mass(Weights(s), top)
        BY <2>3, <2>5, <2>9, <4>1, NucleusFacts
      <4>5. Better(i, top) = {j \in top : s[j] > s[i]}
        BY <2>6
      <4> QED
        BY <3>2, <4>3, <4>4, <4>5
    <3> QED
      BY <3>1, <3>2
  <2> QED
    BY <2>8, <2>10, <2>11 DEF SampledFromTheTop, params, s, top, i, drawn
<1> QED
  BY <1>1, CompletionInvariant, PTL

-----------------------------------------------------------------------------
(* Counting *)

Places(s, x) == {i \in DOMAIN s : s[i] = x}
Number(s, x) == Cardinality(Places(s, x))
Ends(s) == Places(s, EndOfTurn)

LEMMA PlacesFinite ==
  ASSUME NEW T, NEW s \in Seq(T), NEW x
  PROVE  /\ Places(s, x) \subseteq 1..Len(s) /\ IsFiniteSet(Places(s, x))
         /\ Number(s, x) \in Nat
<1>1. DOMAIN s = 1..Len(s) /\ Len(s) \in Nat
  BY LenProperties
<1>2. Places(s, x) \subseteq 1..Len(s)
  BY <1>1 DEF Places
<1>3. IsFiniteSet(Places(s, x))
  <2>1. IsFiniteSet(1..Len(s))
    BY <1>1, FS_Interval
  <2> QED
    BY <1>2, <2>1, FS_Subset
<1> QED
  BY <1>2, <1>3, FS_CardinalityType DEF Number

LEMMA NumberConcat ==
  ASSUME NEW T, NEW a \in Seq(T), NEW b \in Seq(T), NEW x
  PROVE  Number(a \o b, x) = Number(a, x) + Number(b, x)
<1> DEFINE n == Len(a)  k == Len(b)  s == a \o b
           A == Places(a, x)  B == Places(b, x)  C == {n + i : i \in B}
<1>1. n \in Nat /\ k \in Nat /\ DOMAIN a = 1..n /\ DOMAIN b = 1..k
  BY LenProperties
<1>2. /\ s \in Seq(T) /\ Len(s) = n + k
      /\ \A i \in 1..(n + k) : s[i] = IF i <= n THEN a[i] ELSE b[i - n]
  BY ConcatProperties
<1>3. DOMAIN s = 1..(n + k)
  BY <1>2, LenProperties
<1> HIDE DEF s
<1>4. A \subseteq 1..n /\ B \subseteq 1..k
  BY PlacesFinite
<1>5. Places(s, x) = A \cup C
  <2>1. ASSUME NEW i \in Places(s, x)
        PROVE  i \in A \cup C
    <3>1. i \in 1..(n + k) /\ s[i] = x
      BY <1>3 DEF Places
    <3>2. CASE i <= n
      <4>1. i \in 1..n
        BY <3>1, <3>2
      <4>2. a[i] = x
        BY <1>2, <3>1, <3>2
      <4> QED
        BY <1>1, <4>1, <4>2 DEF Places
    <3>3. CASE ~(i <= n)
      <4>1. i - n \in 1..k /\ n + (i - n) = i
        BY <1>1, <3>1, <3>3
      <4>2. b[i - n] = x
        BY <1>2, <3>1, <3>3
      <4>3. i - n \in B
        BY <1>1, <4>1, <4>2 DEF Places
      <4> QED
        BY <4>1, <4>3
    <3> QED
      BY <3>2, <3>3
  <2>2. ASSUME NEW i \in A
        PROVE  i \in Places(s, x)
    <3>1. i \in 1..n /\ a[i] = x
      BY <1>1 DEF Places
    <3>2. i \in 1..(n + k) /\ i <= n
      BY <1>1, <3>1
    <3> QED
      BY <1>2, <1>3, <3>1, <3>2 DEF Places
  <2>3. ASSUME NEW i \in C
        PROVE  i \in Places(s, x)
    <3>1. PICK j \in B : i = n + j
      OBVIOUS
    <3>2. j \in 1..k /\ b[j] = x
      BY <1>1 DEF Places
    <3>3. i \in 1..(n + k) /\ ~(i <= n) /\ i - n = j
      BY <1>1, <3>1, <3>2
    <3> QED
      BY <1>2, <1>3, <3>2, <3>3 DEF Places
  <2> QED
    BY <2>1, <2>2, <2>3
<1>6. IsFiniteSet(C) /\ Cardinality(C) = Cardinality(B)
  <2> DEFINE f == [i \in B |-> n + i]
  <2>1. f \in Bijection(B, C)
    <3>1. \A i \in B : i \in Int
      BY <1>4
    <3>2. \A i, j \in B : n + i = n + j => i = j
      BY <1>1, <3>1
    <3> HIDE DEF A, B
    <3> QED
      BY <3>2 DEF Bijection, Injection, Surjection, IsInjective
  <2>2. ExistsBijection(B, C)
    BY <2>1 DEF ExistsBijection
  <2>3. IsFiniteSet(B)
    BY PlacesFinite
  <2> HIDE DEF C, B
  <2> QED
    BY <2>2, <2>3, FS_Bijection
<1>7. A \cap C = {}
  <2> SUFFICES ASSUME NEW i \in A, i \in C PROVE FALSE
    OBVIOUS
  <2>1. PICK j \in B : i = n + j
    OBVIOUS
  <2>2. i \in 1..n /\ j \in 1..k
    BY <1>4
  <2> QED
    BY <1>1, <2>1, <2>2
<1>8. /\ IsFiniteSet(A) /\ Number(a, x) = Cardinality(A) /\ Number(b, x) = Cardinality(B)
      /\ Number(a, x) \in Nat /\ Number(b, x) \in Nat
  BY PlacesFinite DEF Number
<1>9. Number(s, x) = Cardinality(A \cup C)
  BY <1>5 DEF Number
<1> HIDE DEF A, B, C
<1>10. Cardinality(A \cup C) = Cardinality(A) + Cardinality(C) - Cardinality(A \cap C)
  BY <1>6, <1>8, FS_Union
<1>11. Cardinality(A \cap C) = 0
  BY <1>7, FS_EmptySet
<1> QED
  BY <1>6, <1>8, <1>9, <1>10, <1>11 DEF s

LEMMA EndsFinite ==
  ASSUME NEW T, NEW s \in Seq(T)
  PROVE  /\ Ends(s) \subseteq 1..Len(s) /\ IsFiniteSet(Ends(s)) /\ Turns(s) \in Nat
         /\ Turns(s) = Cardinality(Ends(s))
BY PlacesFinite DEF Turns, Ends, Places, Number

LEMMA TurnsConcat ==
  ASSUME NEW T, NEW a \in Seq(T), NEW b \in Seq(T)
  PROVE  Turns(a \o b) = Turns(a) + Turns(b)
<1>1. \A s : Turns(s) = Number(s, EndOfTurn)
  BY DEF Turns, Places, Number
<1> QED
  BY <1>1, NumberConcat

LEMMA NoTurns ==
  ASSUME NEW T, NEW s \in Seq(T), \A i \in 1..Len(s) : s[i] # EndOfTurn
  PROVE  Turns(s) = 0
<1>1. Ends(s) = {}
  BY LenProperties DEF Ends, Places
<1> QED
  BY <1>1, EndsFinite, FS_EmptySet

LEMMA TurnsOfHeader ==
  ASSUME NEW role \in Roles
  PROVE  Turns(Header(role)) = 0
<1>1. Header(role) \in Seq(Tokens) /\ Len(Header(role)) = 2
  BY HeaderType
<1>2. <<"im_start">> # EndOfTurn /\ <<role, "newline">> # EndOfTurn
  BY DEF EndOfTurn
<1>3. \A i \in 1..2 : Header(role)[i] # EndOfTurn
  <2>1. Header(role)[1] = <<"im_start">> /\ Header(role)[2] = <<role, "newline">>
    BY DEF Header
  <2>2. \A i \in 1..2 : i = 1 \/ i = 2
    OBVIOUS
  <2> QED
    BY <1>2, <2>1, <2>2
<1> QED
  BY <1>1, <1>3, NoTurns

LEMMA TurnsOfPieces ==
  ASSUME NEW s \in Seq(Characters)
  PROVE  Turns(Pieces(s)) = 0
<1>1. Pieces(s) \in Seq(Parts)
  BY PiecesType
<1>2. EndOfTurn \notin Parts
  <2>1. "im_end" \notin Characters
    BY ChatWindowAssumption
  <2>2. ASSUME <<"im_end">> \in Seq(Characters)
        PROVE  FALSE
    <3>1. Len(<<"im_end">>) = 1 /\ <<"im_end">>[1] = "im_end" /\ 1 \in 1..1
      OBVIOUS
    <3>2. <<"im_end">>[1] \in Characters
      BY <2>2, <3>1, ElementOfSeq
    <3> QED
      BY <2>1, <3>1, <3>2
  <2> QED
    BY <2>2 DEF EndOfTurn, Parts
<1>3. \A i \in 1..Len(Pieces(s)) : Pieces(s)[i] # EndOfTurn
  BY <1>1, <1>2, ElementOfSeq
<1> QED
  BY <1>1, <1>3, NoTurns

LEMMA TurnsOfTurn ==
  ASSUME NEW m \in Message
  PROVE  Turns(Turn(m)) = 1
<1> DEFINE h == Header(m.role)  p == Pieces(m.content)
<1>1. m.role \in Roles /\ m.content \in Seq(Characters)
  BY DEF Message
<1>2. h \in Seq(Tokens) /\ p \in Seq(Tokens) /\ TurnEnd \in Seq(Tokens)
  BY <1>1, HeaderType, TurnType
<1>3. Turns(h) = 0 /\ Turns(p) = 0
  BY <1>1, TurnsOfHeader, TurnsOfPieces
<1>4. Turns(TurnEnd) = 1
  <2>1. TurnEnd[1] = EndOfTurn /\ TurnEnd[2] # EndOfTurn /\ Len(TurnEnd) = 2
    BY DEF TurnEnd, EndOfTurn
  <2>2. DOMAIN TurnEnd = 1..2
    BY <1>2, <2>1, LenProperties
  <2>3. Ends(TurnEnd) = {1}
    <3>1. \A i \in 1..2 : i = 1 \/ i = 2
      OBVIOUS
    <3> QED
      BY <2>1, <2>2, <3>1 DEF Ends, Places
  <2> QED
    BY <1>2, <2>3, EndsFinite, FS_Singleton
<1>5. Turn(m) = (h \o p) \o TurnEnd
  BY DEF Turn
<1> HIDE DEF h, p
<1>6. h \o p \in Seq(Tokens)
  BY <1>2, ConcatProperties
<1>7. Turns(h \o p) = 0 + 0
  BY <1>2, <1>3, TurnsConcat
<1> DEFINE q == h \o p
<1> HIDE DEF q
<1>8. Turns(q \o TurnEnd) = Turns(q) + Turns(TurnEnd)
  BY <1>2, <1>6, TurnsConcat DEF q
<1> QED
  BY <1>4, <1>5, <1>7, <1>8 DEF q

LEMMA TurnsOfBody == \A ms \in Messages : Turns(Body(ms)) = Len(ms)
<1> DEFINE S == {k \in Nat : \A ms \in Messages : Len(ms) = k => Turns(Body(ms)) = k}
<1>1. 0 \in S
  <2> SUFFICES ASSUME NEW ms \in Messages, Len(ms) = 0 PROVE Turns(Body(ms)) = 0
    OBVIOUS
  <2>1. ms = <<>>
    BY EmptySeq DEF Messages
  <2> DEFINE b == Body(ms)
  <2>2. b = <<>> /\ b \in Seq(Tokens)
    BY <2>1, BodyEmpty, EmptySeq
  <2> HIDE DEF b
  <2>3. \A i \in 1..Len(b) : b[i] # EndOfTurn
    BY <2>2, EmptySeq
  <2>4. Turns(b) = 0
    BY <2>2, <2>3, NoTurns
  <2> QED
    BY <2>4 DEF b
<1>2. ASSUME NEW k \in Nat, k \in S
      PROVE  k + 1 \in S
  <2> SUFFICES ASSUME NEW ms \in Messages, Len(ms) = k + 1
               PROVE  Turns(Body(ms)) = k + 1
    OBVIOUS
  <2>1. ms \in Seq(Message) /\ ms # <<>>
    BY EmptySeq DEF Messages, Message
  <2>2. PICK f \in Seq(Message), m \in Message : ms = Append(f, m)
    BY <2>1, SequenceEmptyOrAppend
  <2>3. f \in Messages
    BY DEF Messages, Message
  <2>4. Len(f) = k
    BY <2>2, AppendProperties, LenProperties
  <2>5. Turns(Body(f)) = k
    BY <1>2, <2>3, <2>4
  <2>6. Body(ms) = Body(f) \o Turn(m) /\ Body(f) \in Seq(Tokens) /\ Turn(m) \in Seq(Tokens)
    BY <2>2, <2>3, BodyAppend, TurnsOf, TurnType
  <2>7. Turns(Body(f) \o Turn(m)) = Turns(Body(f)) + Turns(Turn(m))
    BY <2>6, TurnsConcat
  <2> QED
    BY <2>5, <2>6, <2>7, TurnsOfTurn
<1>3. \A k \in Nat : k \in S
  <2> HIDE DEF S
  <2> QED
    BY <1>1, <1>2, Induction
<1>4. ASSUME NEW ms \in Messages
      PROVE  Turns(Body(ms)) = Len(ms)
  <2>1. Len(ms) \in Nat
    BY LenProperties DEF Messages
  <2>2. Len(ms) \in S
    <3> HIDE DEF S
    <3> QED
      BY <1>3, <2>1
  <2> QED
    BY <2>2
<1> QED
  BY <1>4

LEMMA TurnsOfEncoded ==
  ASSUME NEW ms \in Messages
  PROVE  Turns(EncodeTurns(ms)) = Len(ms)
<1>1. Body(ms) \in Seq(Tokens) /\ Turns(Body(ms)) = Len(ms) /\ Len(ms) \in Nat
  BY TurnsOf, TurnsOfBody, LenProperties DEF Messages
<1>2. Generation \in Seq(Tokens) /\ Turns(Generation) = 0
  <2>1. "assistant" \in Roles
    BY DEF Roles
  <2> QED
    BY <2>1, GenerationType, TurnsOfHeader DEF Generation
<1>3. Turns(Body(ms) \o Generation) = Turns(Body(ms)) + Turns(Generation)
  BY <1>1, <1>2, TurnsConcat
<1>4. EncodeTurns(ms) = Body(ms) \o Generation
  BY EncodeType
<1>5. Turns(Body(ms) \o Generation) = Len(ms)
  <2> DEFINE x == Turns(Body(ms) \o Generation)
  <2> HIDE DEF x
  <2>1. x = Len(ms) + 0
    BY <1>1, <1>2, <1>3 DEF x
  <2> QED
    BY <1>1, <2>1 DEF x
<1> QED
  BY <1>4, <1>5

LEMMA StartsWith ==
  ASSUME NEW T, NEW s \in Seq(T), NEW r \in Seq(T)
  PROVE  IsPrefix(s, s \o r)
<1> DEFINE n == Len(s)  t == s \o r
<1>1. /\ n \in Nat /\ t \in Seq(T) /\ Len(t) = n + Len(r) /\ Len(r) \in Nat
      /\ \A i \in 1..n : t[i] = s[i]
  BY ConcatProperties, LenProperties
<1> HIDE DEF t
<1>2. \A i \in 1..n : s[i] \in T /\ t[i] \in T
  BY <1>1, ElementOfSeq
<1>3. /\ SubSeq(s, 1, n) \in Seq(T) /\ SubSeq(t, 1, n) \in Seq(T)
      /\ Len(SubSeq(s, 1, n)) = n /\ Len(SubSeq(t, 1, n)) = n
      /\ \A i \in 1..n : SubSeq(s, 1, n)[i] = s[i] /\ SubSeq(t, 1, n)[i] = t[i]
  BY <1>1, <1>2, SubSeqProperties
<1>4. SubSeq(s, 1, n) = SubSeq(t, 1, n)
  BY <1>1, <1>3, SeqEqual
<1> QED
  BY <1>1, <1>4 DEF IsPrefix, t

\* The first turn begins the prompt.
LEMMA FirstTurn ==
  ASSUME NEW front \in Messages, front # <<>>, NEW m \in Message
  PROVE  IsPrefix(Turn(front[1]), EncodeTurns(Append(front, m)))
<1> DEFINE t == [i \in DOMAIN front |-> Turn(front[i])]
           alone == EncodeTurns(<<m>>)
<1>1. t \in Seq(Seq(Tokens)) /\ Len(t) = Len(front)
  BY TurnsOf
<1>2. front \in Seq(Message) /\ Len(front) \in Nat \ {0} /\ DOMAIN front = 1..Len(front)
  BY EmptySeq, LenProperties DEF Messages, Message
<1>3. 1 \in DOMAIN front
  BY <1>2
<1>4. front[1] \in Message
  BY <1>2, <1>3, ElementOfSeq
<1>5. t[1] = Turn(front[1])
  BY <1>3
<1> HIDE DEF t
<1>6. t # <<>>
  <2>1. Len(t) # 0
    BY <1>1, <1>2
  <2> QED
    BY <2>1, EmptySeq
<1>7. PICK r \in Seq(Tokens) : Body(front) = Turn(front[1]) \o r
  <2>1. \E r \in Seq(Tokens) : FlattenSeq(t) = t[1] \o r
    BY <1>1, <1>6, FlattenFirst
  <2> QED
    BY <1>5, <2>1 DEF Body, t
<1>8. EncodeTurns(Append(front, m)) = Body(front) \o alone /\ alone \in Seq(Tokens)
  BY NewestLast
<1> HIDE DEF alone
<1>9. Turn(front[1]) \in Seq(Tokens)
  BY <1>4, TurnType
<1>10. Body(front) \o alone = Turn(front[1]) \o (r \o alone)
  BY <1>7, <1>8, <1>9, Associative, SMTT(40)
<1>11. r \o alone \in Seq(Tokens)
  BY <1>8, ConcatProperties
<1> QED
  BY <1>8, <1>9, <1>10, <1>11, StartsWith

\* The oldest turns are dropped first and no more than needed, the system
\* prompt stays while dropping turns is enough, and dropped_messages tells how
\* many of the conversation's turns the prompt lacks.
THEOREM OldestGoFirst == Spec => []OldestDroppedFirst
<1>1. CompletionInv => OldestDroppedFirst
  <2> SUFFICES ASSUME CompletionInv, Encoded, ~request.raw, ~window.token_fallback
               PROVE  LET gone == window.dropped_messages
                      IN  /\ Turns(window.ids) = Len(Chat) - gone
                          /\ \A k \in 0..(Len(Chat) - 2) :
                                Len(Without(Chat, k)) <= Budget =>
                                   gone <= k /\ IsPrefix(Turn(Chat[1]), window.ids)
    BY DEF OldestDroppedFirst
  <2> DEFINE c == WithDefaultSystem(request.messages)
             m == c[Len(c)]
             gone == window.dropped_messages
  <2>1. /\ request \in Requests /\ request.messages \in Messages /\ Budget \in Nat \ {0}
        /\ window = EncodeChatWindow(request.messages, Budget)
    <3>1. request \in Requests /\ window = WindowOf(request)
      BY DEF CompletionInv, TokensTyped, WindowIsOf, Encoded
    <3> QED
      BY <3>1, RequestFacts DEF WindowOf, Budget, Context
  <2>2. c \in Messages /\ m \in Message /\ Len(c) \in Nat \ {0}
    BY <2>1, NewestFacts
  <2>3. Chat = c
    BY DEF Chat
  <2>4. \/ \E front \in Messages : WholeTurns(window, c, Budget, front)
        \/ /\ Len(EncodeTurns(<<m>>)) > Budget /\ gone = Len(c) - 1
           /\ \E n \in Nat : EndOfNewest(window, m, Budget, n)
    BY <2>1, ChatWindowCases
  <2> HIDE DEF c
  <2>5. ASSUME NEW front \in Messages, WholeTurns(window, c, Budget, front)
        PROVE  /\ Turns(window.ids) = Len(c) - gone
               /\ \A k \in 0..(Len(c) - 2) :
                     Len(Without(c, k)) <= Budget =>
                        gone <= k /\ IsPrefix(Turn(c[1]), window.ids)
    <3>1. /\ window.ids = EncodeTurns(Append(front, m)) /\ Len(front) = Len(c) - 1 - gone
          /\ \A k \in 0..(Len(c) - 2) :
                Len(Without(c, k)) <= Budget =>
                   gone <= k /\ front # <<>> /\ front[1] = c[1]
      BY <2>5 DEF WholeTurns
    <3> HIDE DEF m, gone
    <3>2. Append(front, m) \in Messages /\ Len(Append(front, m)) = Len(front) + 1 /\ Len(front) \in Nat
      <4>1. front \in Seq(Message)
        BY DEF Messages, Message
      <4> QED
        BY <2>2, <4>1, BodyAppend, AppendProperties, LenProperties
    <3>3. Turns(window.ids) = Len(front) + 1
      BY <3>1, <3>2, TurnsOfEncoded
    <3>4. Len(front) + 1 = Len(c) - gone
      <4> DEFINE l == Len(c) - 1
      <4>1. l \in Int /\ l + 1 = Len(c)
        BY <2>2
      <4>2. Len(front) = l - gone /\ Len(front) \in Nat
        BY <3>1, <3>2
      <4>3. gone \in Int
        BY <2>5 DEF WholeTurns, gone
      <4> HIDE DEF l
      <4>4. Len(front) + 1 = (l + 1) - gone
        BY <4>1, <4>2, <4>3
      <4> QED
        BY <4>1, <4>4
    <3>5. ASSUME NEW k \in 0..(Len(c) - 2), Len(Without(c, k)) <= Budget
          PROVE  gone <= k /\ IsPrefix(Turn(c[1]), window.ids)
      <4>1. gone <= k /\ front # <<>> /\ front[1] = c[1]
        BY <3>1, <3>5
      <4> QED
        BY <2>2, <3>1, <4>1, FirstTurn
    <3> QED
      BY <3>3, <3>4, <3>5
  <2>6. ASSUME NEW n \in Nat, EndOfNewest(window, m, Budget, n),
               Len(EncodeTurns(<<m>>)) > Budget, gone = Len(c) - 1
        PROVE  /\ Turns(window.ids) = Len(c) - gone
               /\ \A k \in 0..(Len(c) - 2) : ~(Len(Without(c, k)) <= Budget)
    <3> DEFINE t == [m EXCEPT !.content = LastN(@, n)]
    <3> HIDE DEF m
    <3>1. n \in 0..Len(m.content) /\ window.ids = NewestTail(m, n)
      <4>1. Len(m.content) \in Nat
        BY <2>2, LenProperties DEF Message
      <4> QED
        BY <2>6, <4>1 DEF EndOfNewest
    <3>2. t \in Message
      BY <2>2, <3>1, NewestTailType
    <3>3. window.ids = EncodeTurns(<<t>>)
      BY <3>1 DEF NewestTail
    <3> HIDE DEF t
    <3>4. <<t>> \in Messages /\ Len(<<t>>) = 1
      BY <3>2, One
    <3>5. Turns(window.ids) = 1
      BY <3>3, <3>4, TurnsOfEncoded
    <3>6. 1 = Len(c) - gone
      BY <2>2, <2>6
    <3>7. ASSUME NEW k \in 0..(Len(c) - 2), Len(Without(c, k)) <= Budget
          PROVE  FALSE
      <4>1. PICK front \in Messages : Without(c, k) = EncodeTurns(Append(front, m))
        BY <2>2, WithoutOldest DEF m
      <4>2. Len(EncodeTurns(<<m>>)) <= Budget
        BY <2>1, <2>2, <3>7, <4>1, TurnsAreLonger
      <4>3. Len(EncodeTurns(<<m>>)) \in Nat
        BY <2>2, One, EncodeType
      <4> QED
        BY <2>1, <2>6, <4>2, <4>3
    <3> QED
      BY <3>5, <3>6, <3>7
  <2> QED
    BY <2>3, <2>4, <2>5, <2>6
<1> QED
  BY <1>1, CompletionInvariant, PTL

-----------------------------------------------------------------------------
(* Decoding *)

\* A part is at a place when every one of its elements is there.
LEMMA IsAtFacts ==
  ASSUME NEW T, NEW part \in Seq(T), NEW s \in Seq(T), NEW i \in Nat \ {0}
  PROVE  IsAt(part, s, i) <=> /\ i + Len(part) - 1 <= Len(s)
                              /\ \A j \in 1..Len(part) : s[i + j - 1] = part[j]
<1> DEFINE l == Len(part)  e == i + l - 1
<1>1. l \in Nat /\ Len(s) \in Nat /\ e \in Int
  BY LenProperties
<1>2. CASE ~(e <= Len(s))
  BY <1>2 DEF IsAt
<1>3. CASE e <= Len(s)
  <2>1. \A k \in i..e : s[k] \in T
    <3>1. \A k \in i..e : k \in 1..Len(s)
      BY <1>1, <1>3
    <3> QED
      BY <3>1, ElementOfSeq
  <2> HIDE DEF e
  <2>2. /\ SubSeq(s, i, e) \in Seq(T) /\ Len(SubSeq(s, i, e)) = IF i <= e THEN e - i + 1 ELSE 0
        /\ \A j \in 1..(e - i + 1) : SubSeq(s, i, e)[j] = s[i + j - 1]
    BY <1>1, <2>1, SubSeqProperties
  <2>3. Len(SubSeq(s, i, e)) = l /\ e - i + 1 = l
    BY <1>1, <2>2 DEF e
  <2> DEFINE u == SubSeq(s, i, e)
  <2>4. u \in Seq(T) /\ Len(u) = l /\ \A j \in 1..l : u[j] = s[i + j - 1]
    BY <2>2, <2>3
  <2>5. IsAt(part, s, i) <=> u = part
    BY <1>3 DEF IsAt, e
  <2> HIDE DEF u
  <2>6. u = part <=> \A j \in 1..l : u[j] = part[j]
    BY <2>4, SeqEqual
  <2> QED
    BY <1>3, <2>4, <2>5, <2>6 DEF e
<1> QED
  BY <1>2, <1>3

WideAt(b, i) == IsAt(<<Lead, Trail>>, b, i)
Char(b, i) ==
    IF WideAt(b, i) THEN Wide ELSE IF b[i] \in {Lead, Trail} THEN Bad ELSE b[i]
Skip(b, i) == IF WideAt(b, i) THEN i + 2 ELSE i + 1

LEMMA WideAtFacts ==
  ASSUME NEW b \in Seq(Characters), NEW i \in Nat \ {0}
  PROVE  WideAt(b, i) <=> i + 1 <= Len(b) /\ b[i] = Lead /\ b[i + 1] = Trail
<1> DEFINE p == <<Lead, Trail>>
<1>1. p \in Seq(Characters) /\ Len(p) = 2 /\ p[1] = Lead /\ p[2] = Trail
  BY CompletionAssumption
<1> HIDE DEF p
<1>2. IsAt(p, b, i) <=> i + 2 - 1 <= Len(b) /\ \A j \in 1..2 : b[i + j - 1] = p[j]
  <2>1. IsAt(p, b, i) <=> /\ i + Len(p) - 1 <= Len(b)
                          /\ \A j \in 1..Len(p) : b[i + j - 1] = p[j]
    BY <1>1, IsAtFacts
  <2> QED
    BY <1>1, <2>1
<1>3. \A j \in 1..2 : j = 1 \/ j = 2
  OBVIOUS
<1>4. i + 1 - 1 = i /\ i + 2 - 1 = i + 1 /\ 1 \in 1..2 /\ 2 \in 1..2
  OBVIOUS
<1>5. (\A j \in 1..2 : b[i + j - 1] = p[j]) <=> b[i] = Lead /\ b[i + 1] = Trail
  BY <1>1, <1>3, <1>4
<1> QED
  BY <1>2, <1>4, <1>5 DEF WideAt, p

LEMMA CharFacts ==
  ASSUME NEW b \in Seq(Characters), NEW i \in 1..Len(b)
  PROVE  Char(b, i) \in Characters /\ Skip(b, i) \in 1..(Len(b) + 1) /\ Skip(b, i) > i
<1>1. Len(b) \in Nat /\ b[i] \in Characters
  BY LenProperties, ElementOfSeq
<1>2. Char(b, i) \in Characters
  BY <1>1, CompletionAssumption DEF Char
<1>3. WideAt(b, i) => i + 1 <= Len(b)
  BY WideAtFacts
<1> QED
  BY <1>1, <1>2, <1>3 DEF Skip

\* f[i] is the text the bytes from i on decode to.
Decodes(f, b) ==
    /\ f \in [1..(Len(b) + 1) -> Seq(Characters)]
    /\ f[Len(b) + 1] = <<>>
    /\ \A i \in 1..Len(b) : f[i] = <<Char(b, i)>> \o f[Skip(b, i)]

LEMMA DecodeIs ==
  ASSUME NEW tokens, NEW b \in Seq(Characters), b = FlattenSeq(tokens)
  PROVE  \E f : Decodes(f, b) /\ Decode(tokens) = f[1]
<1> DEFINE n == Len(b)
           piece == [i \in 1..n |-> <<Char(b, i)>>]
           jump == [i \in 1..n |-> Skip(b, i)]
           Def(g) == [i \in 1..(Len(b) + 1) |->
                        IF i > Len(b) THEN <<>>
                        ELSE IF WideAt(b, i) THEN <<Wide>> \o g[i + 2]
                        ELSE <<IF b[i] \in {Lead, Trail} THEN Bad ELSE b[i]>> \o g[i + 1]]
<1>1. n \in Nat
  BY LenProperties
<1>2. piece \in [1..n -> Seq(Characters)]
  <2>1. \A i \in 1..n : <<Char(b, i)>> \in Seq(Characters)
    BY CharFacts
  <2> QED
    BY <2>1
<1>3. jump \in [1..n -> 1..(n + 1)] /\ \A i \in 1..n : jump[i] > i
  BY CharFacts
<1>4. PICK f \in [1..(n + 1) -> Seq(Characters)] : Reads(f, n, piece, jump)
  <2> HIDE DEF n, piece, jump
  <2> QED
    BY <1>1, <1>2, <1>3, ReadsExist
<1>5. f = Def(f)
  <2>1. f = [i \in 1..(Len(b) + 1) |-> f[i]]
    OBVIOUS
  <2>2. \A i \in 1..(Len(b) + 1) : ~(i > Len(b)) => i \in 1..n
    BY <1>1
  <2>3. \A i \in 1..(Len(b) + 1) : i > Len(b) => i = n + 1
    BY <1>1
  <2>4. \A i \in 1..(Len(b) + 1) : f[i] =
           IF i > Len(b) THEN <<>>
           ELSE IF WideAt(b, i) THEN <<Wide>> \o f[i + 2]
           ELSE <<IF b[i] \in {Lead, Trail} THEN Bad ELSE b[i]>> \o f[i + 1]
    BY <1>4, <2>2, <2>3 DEF Reads, Char, Skip
  <2> QED
    BY <2>1, <2>4
<1> DEFINE u == CHOOSE g : g = Def(g)
<1>6. u = Def(u)
  <2> HIDE DEF Def
  <2> QED
    BY <1>5, Zenon
<1>7. Decode(tokens) = u[1]
  BY DEF Decode, WideAt
<1> HIDE DEF u
<1>8. Reads(u, n, piece, jump)
  <2>1. n + 1 \in 1..(n + 1) /\ n + 1 > n
    BY <1>1
  <2>2. \A i \in 1..n : i \in 1..(n + 1) /\ ~(i > n)
    BY <1>1
  <2> QED
    BY <1>6, <2>1, <2>2 DEF Reads, Char, Skip
<1>9. u[1] = f[1]
  <2>1. \A i \in 1..(n + 1) : u[i] = f[i]
    <3>1. \A i \in 1..n : jump[i] \in 1..(n + 1) /\ jump[i] > i
      BY <1>3
    <3> HIDE DEF n, piece, jump, Def
    <3> QED
      BY <1>1, <1>4, <1>8, <3>1, ReadsAgree, SMTT(40)
  <2> QED
    BY <1>1, <2>1
<1>10. Decodes(f, b)
  BY <1>4 DEF Decodes, Reads
<1> QED
  BY <1>7, <1>9, <1>10

\* The characters that more bytes cannot change.
Sure(s) == IF s # <<>> /\ Last(s) = Bad THEN Len(s) - 1 ELSE Len(s)

LEMMA SureFacts ==
  ASSUME NEW s \in Seq(Characters), NEW c \in Characters
  PROVE  /\ Sure(s) \in Nat /\ Sure(s) <= Len(s)
         /\ <<c>> \o s \in Seq(Characters) /\ Len(<<c>> \o s) = Len(s) + 1
         /\ (<<c>> \o s)[1] = c /\ \A j \in 1..Len(s) : (<<c>> \o s)[j + 1] = s[j]
         /\ Sure(<<c>> \o s) = IF s = <<>> THEN (IF c = Bad THEN 0 ELSE 1) ELSE Sure(s) + 1
<1> DEFINE a == <<c>>  t == a \o s
<1>1. a \in Seq(Characters) /\ Len(a) = 1 /\ a[1] = c
  OBVIOUS
<1>2. Len(s) \in Nat /\ (s # <<>> => Len(s) # 0) /\ (s = <<>> => Len(s) = 0)
  BY LenProperties, EmptySeq
<1> HIDE DEF a
<1>3. /\ t \in Seq(Characters) /\ Len(t) = Len(a) + Len(s)
      /\ \A i \in 1 .. Len(a) + Len(s) : t[i] = IF i <= Len(a) THEN a[i] ELSE s[i - Len(a)]
  BY <1>1, ConcatProperties
<1> HIDE DEF t
<1>4. Len(t) = Len(s) + 1 /\ t # <<>>
  <2>1. Len(t) = Len(s) + 1
    BY <1>1, <1>2, <1>3
  <2> QED
    BY <1>2, <1>3, <2>1, EmptySeq
<1>5. t[1] = c
  BY <1>1, <1>2, <1>3
<1>6. ASSUME NEW j \in 1..Len(s)
      PROVE  t[j + 1] = s[j]
  <2>1. j + 1 \in 1..(Len(a) + Len(s)) /\ ~(j + 1 <= Len(a)) /\ (j + 1) - Len(a) = j
    BY <1>1, <1>2
  <2> QED
    BY <1>3, <2>1
<1>7. Last(t) = t[Len(s) + 1] /\ Last(s) = s[Len(s)]
  BY <1>4 DEF Last
<1>8. s # <<>> => Last(t) = Last(s)
  BY <1>2, <1>6, <1>7
<1>9. s = <<>> => Last(t) = c
  BY <1>2, <1>5, <1>7
<1>10. Sure(s) \in Nat /\ Sure(s) <= Len(s)
  BY <1>2 DEF Sure
<1>11. Sure(t) = IF s = <<>> THEN (IF c = Bad THEN 0 ELSE 1) ELSE Sure(s) + 1
  BY <1>2, <1>4, <1>8, <1>9 DEF Sure
<1> QED
  BY <1>3, <1>4, <1>5, <1>6, <1>10, <1>11 DEF a, t

\* More bytes d after b change no character but an unfinished last one.
LEMMA SameChar ==
  ASSUME NEW b \in Seq(Characters), NEW d \in Seq(Characters), Len(b) <= Len(d),
         \A i \in 1..Len(b) : d[i] = b[i],
         NEW i \in 1..Len(b), i # Len(b) \/ b[i] # Lead
  PROVE  Char(d, i) = Char(b, i) /\ Skip(d, i) = Skip(b, i)
<1>1. i \in Nat \ {0} /\ d[i] = b[i] /\ Len(b) \in Nat /\ Len(d) \in Nat
  BY LenProperties
<1>2. WideAt(d, i) <=> i + 1 <= Len(d) /\ d[i] = Lead /\ d[i + 1] = Trail
  BY <1>1, WideAtFacts
<1>3. WideAt(b, i) <=> i + 1 <= Len(b) /\ b[i] = Lead /\ b[i + 1] = Trail
  BY <1>1, WideAtFacts
<1>4. WideAt(d, i) <=> WideAt(b, i)
  <2>1. CASE b[i] # Lead
    BY <1>1, <1>2, <1>3, <2>1
  <2>2. CASE i # Len(b)
    <3>1. i + 1 <= Len(b) /\ i + 1 <= Len(d) /\ i + 1 \in 1..Len(b)
      BY <1>1, <2>2
    <3>2. d[i + 1] = b[i + 1]
      BY <3>1
    <3> QED
      BY <1>1, <1>2, <1>3, <3>1, <3>2
  <2> QED
    BY <2>1, <2>2
<1> QED
  BY <1>1, <1>4 DEF Char, Skip

\* More bytes leave what is sure of the text as it is, and never make it
\* shorter: only an incomplete last character may still change.
LEMMA MoreBytes ==
  ASSUME NEW b \in Seq(Characters), NEW x \in Seq(Characters),
         NEW f, Decodes(f, b), NEW g, Decodes(g, b \o x)
  PROVE  /\ Len(f[1]) <= Len(g[1])
         /\ \A j \in 1..Sure(f[1]) : g[1][j] = f[1][j]
<1> DEFINE n == Len(b)  d == b \o x  l == Len(d)
<1>1. /\ n \in Nat /\ d \in Seq(Characters) /\ l = n + Len(x) /\ Len(x) \in Nat
      /\ \A i \in 1..n : d[i] = b[i]
  BY ConcatProperties, LenProperties
<1> HIDE DEF d
<1>2. /\ f \in [1..(n + 1) -> Seq(Characters)] /\ f[n + 1] = <<>>
      /\ \A i \in 1..n : f[i] = <<Char(b, i)>> \o f[Skip(b, i)]
  BY DEF Decodes
<1>3. /\ g \in [1..(l + 1) -> Seq(Characters)]
      /\ \A i \in 1..l : g[i] = <<Char(d, i)>> \o g[Skip(d, i)]
  BY DEF Decodes, d
<1> HIDE DEF l
<1>4. ASSUME NEW i \in 1..n, i # n \/ b[i] # Lead
      PROVE  Char(d, i) = Char(b, i) /\ Skip(d, i) = Skip(b, i)
  BY <1>1, <1>4, SameChar, SMTT(40) DEF l
<1> DEFINE Kept(i) == /\ Len(f[i]) <= Len(g[i])
                      /\ \A j \in 1..Sure(f[i]) : g[i][j] = f[i][j]
           S == {k \in Nat : k <= n => Kept(n + 1 - k)}
<1>5. ASSUME NEW k \in Nat, \A m \in Nat : m < k => m \in S
      PROVE  k \in S
  <2> SUFFICES ASSUME k <= n PROVE Kept(n + 1 - k)
    OBVIOUS
  <2> DEFINE i == n + 1 - k
  <2>1. i \in 1..(n + 1) /\ n + 1 - k = i /\ i \in 1..(l + 1)
    BY <1>1
  <2>2. f[i] \in Seq(Characters) /\ g[i] \in Seq(Characters)
    BY <1>2, <1>3, <2>1
  <2>3. Len(f[i]) \in Nat /\ Len(g[i]) \in Nat
    BY <2>2, LenProperties
  <2>4. CASE i = n + 1
    <3>1. f[i] = <<>> /\ Len(<<>>) = 0 /\ Sure(<<>>) = 0
      BY <1>2, <2>4, EmptySeq DEF Sure
    <3> HIDE DEF i
    <3>2. Kept(i)
      BY <2>3, <3>1
    <3> QED
      BY <2>1, <3>2
  <2>5. CASE i # n + 1
    <3>1. i \in 1..n /\ i \in 1..l
      BY <1>1, <2>1, <2>5
    <3> DEFINE c == Char(b, i)  e == Skip(b, i)
    <3>2. c \in Characters /\ e \in 1..(n + 1) /\ e > i /\ f[i] = <<c>> \o f[e] /\ f[e] \in Seq(Characters)
      BY <1>2, <3>1, CharFacts
    <3>3. CASE i # n \/ b[i] # Lead
      <4>1. Char(d, i) = c /\ Skip(d, i) = e
        BY <1>4, <3>1, <3>3
      <4>2. g[i] = <<c>> \o g[e]
        BY <1>3, <3>1, <4>1
      <4>3. g[e] \in Seq(Characters)
        <5>1. e \in 1..(l + 1)
          BY <1>1, <3>2
        <5> QED
          BY <1>3, <5>1
      <4> DEFINE m == n + 1 - e
      <4>4. m \in Nat /\ m < k /\ m <= n /\ n + 1 - m = e
        <5>1. e \in Int /\ e <= n + 1 /\ e >= 1 /\ e > n + 1 - k
          BY <3>2
        <5> HIDE DEF e, i
        <5> QED
          BY <1>1, <5>1
      <4> HIDE DEF m, e, c, i
      <4>5. m \in S
        <5> HIDE DEF S
        <5> QED
          BY <1>5, <4>4
      <4>6. Kept(e)
        <5> HIDE DEF Kept
        <5> QED
          BY <4>4, <4>5
      <4>7. /\ Sure(f[e]) \in Nat /\ Sure(f[e]) <= Len(f[e])
            /\ Len(f[i]) = Len(f[e]) + 1 /\ f[i][1] = c
            /\ \A j \in 1..Len(f[e]) : f[i][j + 1] = f[e][j]
            /\ Sure(f[i]) = IF f[e] = <<>> THEN (IF c = Bad THEN 0 ELSE 1) ELSE Sure(f[e]) + 1
        BY <3>2, SureFacts, SMTT(40)
      <4>8. /\ Len(g[i]) = Len(g[e]) + 1 /\ g[i][1] = c
            /\ \A j \in 1..Len(g[e]) : g[i][j + 1] = g[e][j]
        BY <3>2, <4>2, <4>3, SureFacts
      <4>9. Len(f[e]) \in Nat /\ Len(g[e]) \in Nat
        BY <3>2, <4>3, LenProperties
      <4>10. Len(f[i]) <= Len(g[i])
        BY <4>6, <4>7, <4>8, <4>9
      <4>11. ASSUME NEW j \in 1..Sure(f[i])
             PROVE  g[i][j] = f[i][j]
        <5>1. CASE j = 1
          BY <4>7, <4>8, <5>1
        <5>2. CASE j # 1
          <6>1. Sure(f[i]) \in Nat /\ Sure(f[i]) <= Sure(f[e]) + 1
            BY <4>7
          <6>2. j - 1 \in 1..Sure(f[e]) /\ (j - 1) + 1 = j
            BY <4>7, <5>2, <6>1
          <6>3. j - 1 \in 1..Len(f[e]) /\ j - 1 \in 1..Len(g[e])
            BY <4>6, <4>7, <4>9, <6>2, SMTT(40)
          <6>4. g[e][j - 1] = f[e][j - 1]
            BY <4>6, <6>2
          <6>5. f[i][(j - 1) + 1] = f[e][j - 1] /\ g[i][(j - 1) + 1] = g[e][j - 1]
            BY <4>7, <4>8, <6>3
          <6> QED
            BY <6>2, <6>4, <6>5
        <5> QED
          BY <5>1, <5>2
      <4>12. Kept(i)
        BY <4>10, <4>11
      <4> HIDE DEF Kept
      <4> QED
        BY <2>1, <4>12 DEF i
    <3>4. CASE i = n /\ b[i] = Lead
      <4>1. c = Bad /\ e = n + 1
        <5>1. i \in Nat \ {0} /\ ~(i + 1 <= n)
          BY <1>1, <3>4
        <5>2. ~WideAt(b, i)
          BY <5>1, WideAtFacts
        <5> QED
          BY <3>4, <5>2 DEF Char, Skip
      <4>2. f[e] = <<>>
        BY <1>2, <4>1
      <4>3. Sure(f[i]) = 0 /\ Len(f[i]) = 1
        <5> HIDE DEF c, e, i
        <5>1. Sure(f[i]) = 0 /\ Len(f[i]) = Len(f[e]) + 1
          BY <3>2, <4>1, <4>2, SureFacts
        <5>2. Len(f[e]) = 0
          BY <4>2, EmptySeq
        <5> QED
          BY <5>1, <5>2
      <4>4. Len(g[i]) >= 1
        <5> DEFINE cc == Char(d, i)  ee == Skip(d, i)
        <5>1. cc \in Characters /\ ee \in 1..(l + 1)
          BY <1>1, <3>1, CharFacts DEF l
        <5>2. g[i] = <<cc>> \o g[ee] /\ g[ee] \in Seq(Characters)
          BY <1>3, <3>1, <5>1
        <5> HIDE DEF cc, ee, i
        <5>3. Len(g[i]) = Len(g[ee]) + 1 /\ Len(g[ee]) \in Nat
          BY <5>1, <5>2, SureFacts, LenProperties
        <5> QED
          BY <5>3
      <4> HIDE DEF i
      <4>5. Kept(i)
        BY <2>3, <4>3, <4>4
      <4> HIDE DEF Kept
      <4> QED
        BY <2>1, <4>5 DEF i
    <3> QED
      BY <3>3, <3>4
  <2> QED
    BY <2>4, <2>5
<1>6. \A k \in Nat : k \in S
  <2> HIDE DEF S
  <2> QED
    BY <1>5, StrongInduction
<1>7. n \in S /\ n + 1 - n = 1
  <2> HIDE DEF S
  <2> QED
    BY <1>1, <1>6
<1>8. Kept(n + 1 - n)
  <2> HIDE DEF Kept
  <2> QED
    BY <1>1, <1>7
<1> QED
  BY <1>7, <1>8

\* What a token more does to the decoded text.
LEMMA DecodeGrows ==
  ASSUME NEW ts \in Seq(Seq(Characters)), NEW t \in Seq(Characters)
  PROVE  /\ Decode(ts) \in Seq(Characters) /\ Decode(Append(ts, t)) \in Seq(Characters)
         /\ Len(Decode(ts)) <= Len(Decode(Append(ts, t)))
         /\ \A j \in 1..Sure(Decode(ts)) : Decode(Append(ts, t))[j] = Decode(ts)[j]
<1> DEFINE b == FlattenSeq(ts)
<1>1. b \in Seq(Characters) /\ FlattenSeq(Append(ts, t)) = b \o t
  BY FlattenType, FlattenAppend
<1>2. b \o t \in Seq(Characters)
  BY <1>1, ConcatProperties
<1>3. PICK f : Decodes(f, b) /\ Decode(ts) = f[1]
  BY <1>1, DecodeIs
<1>4. PICK g : Decodes(g, b \o t) /\ Decode(Append(ts, t)) = g[1]
  BY <1>1, <1>2, DecodeIs
<1> HIDE DEF b
<1>5. f[1] \in Seq(Characters) /\ g[1] \in Seq(Characters)
  <2>1. 1 \in 1..(Len(b) + 1) /\ 1 \in 1..(Len(b \o t) + 1)
    BY <1>1, <1>2, LenProperties
  <2> QED
    BY <1>3, <1>4, <2>1 DEF Decodes
<1>6. Len(f[1]) <= Len(g[1]) /\ \A j \in 1..Sure(f[1]) : g[1][j] = f[1][j]
  BY <1>1, <1>3, <1>4, MoreBytes
<1> QED
  BY <1>3, <1>4, <1>5, <1>6

LEMMA DecodeType ==
  ASSUME NEW ts \in Seq(Seq(Characters))
  PROVE  Decode(ts) \in Seq(Characters)
BY DecodeGrows, EmptySeq

-----------------------------------------------------------------------------
(* Matching stop sequences *)

\* The last p characters of s are the beginning of a longer stop sequence.
Begins(stop, s, p) == p < Len(stop) /\ FirstChars(stop, p) = LastN(s, p)

\* A stop sequence can only be completed with the last m characters.
OpenWithin(stops, s, m) ==
    \A q \in DOMAIN stops : \A p \in (m + 1)..Len(s) : ~Begins(stops[q], s, p)

LEMMA StopFacts ==
  ASSUME NEW stops \in Seq(Parts), NEW q \in DOMAIN stops
  PROVE  stops[q] \in Seq(Characters) /\ Len(stops[q]) \in Nat \ {0} /\ q \in Nat
<1>1. DOMAIN stops = 1..Len(stops) /\ Len(stops) \in Nat
  BY LenProperties
<1>2. stops[q] \in Parts /\ q \in Nat
  BY <1>1, ElementOfSeq
<1> QED
  BY <1>2, EmptySeq DEF Parts

\* stop is in s, from i on.
Occurs(stop, s, i) ==
    /\ i \in 1..Len(s)
    /\ i + Len(stop) - 1 <= Len(s)
    /\ \A j \in 1..Len(stop) : s[i + j - 1] = stop[j]

LEMMA FindsFacts ==
  ASSUME NEW stop \in Seq(Characters), NEW s \in Seq(Characters), NEW i
  PROVE  i \in Finds(stop, s) <=> Occurs(stop, s, i)
<1>1. DOMAIN s = 1..Len(s) /\ Len(s) \in Nat
  BY LenProperties
<1>2. CASE i \in 1..Len(s)
  <2>1. i \in Nat \ {0}
    BY <1>1, <1>2
  <2>2. IsAt(stop, s, i) <=> /\ i + Len(stop) - 1 <= Len(s)
                             /\ \A j \in 1..Len(stop) : s[i + j - 1] = stop[j]
    BY <2>1, IsAtFacts
  <2> QED
    BY <1>1, <1>2, <2>2 DEF Finds, Occurs
<1>3. CASE i \notin 1..Len(s)
  BY <1>1, <1>3 DEF Finds, Occurs
<1> QED
  BY <1>2, <1>3

LEMMA BeginsFacts ==
  ASSUME NEW stop \in Seq(Characters), NEW s \in Seq(Characters), NEW p \in 1..Len(s)
  PROVE  Begins(stop, s, p) <=> /\ p < Len(stop)
                                /\ \A j \in 1..p : stop[j] = s[Len(s) - p + j]
<1>1. Len(s) \in Nat /\ Len(stop) \in Nat /\ p \in Nat
  BY LenProperties
<1>2. CASE p < Len(stop)
  <2> DEFINE a == FirstChars(stop, p)  b == LastN(s, p)
  <2>1. a \in Seq(Characters) /\ Len(a) = p /\ \A j \in 1..p : a[j] = stop[j]
    <3>1. p \in 0..Len(stop)
      BY <1>1, <1>2
    <3> QED
      BY <3>1, FirstCharsType
  <2>2. b \in Seq(Characters) /\ Len(b) = p /\ \A j \in 1..p : b[j] = s[Len(s) - p + j]
    <3>1. p \in 0..Len(s)
      BY <1>1
    <3> QED
      BY <3>1, LastNType
  <2> HIDE DEF a, b
  <2>3. a = b <=> \A j \in 1..p : a[j] = b[j]
    BY <2>1, <2>2, SeqEqual
  <2> QED
    BY <1>2, <2>1, <2>2, <2>3 DEF Begins, a, b
<1>3. CASE ~(p < Len(stop))
  BY <1>3 DEF Begins
<1> QED
  BY <1>2, <1>3

\* No stop sequence is in s, and one can only be completed with its end t: then
\* every stop sequence in s and what follows it lies in t and what follows.
LEMMA HitsInBuffer ==
  ASSUME NEW stops \in Seq(Parts), NEW o \in Seq(Characters), NEW t \in Seq(Characters),
         NEW chars \in Seq(Characters),
         Hits(stops, o \o t) = {}, OpenWithin(stops, o \o t, Len(t)),
         NEW q \in DOMAIN stops
  PROVE  \A h : h \in Finds(stops[q], o \o (t \o chars)) <=>
                   h - Len(o) \in Finds(stops[q], t \o chars) /\ h \in Nat
<1> DEFINE stop == stops[q]  s == o \o t  u == t \o chars  g == o \o u
           a == Len(o)  m == Len(t)  k == Len(chars)  l == Len(stop)
<1>1. /\ stop \in Seq(Characters) /\ l \in Nat \ {0}
      /\ a \in Nat /\ m \in Nat /\ k \in Nat
  BY StopFacts, LenProperties
<1>2. /\ s \in Seq(Characters) /\ Len(s) = a + m
      /\ \A i \in 1..(a + m) : s[i] = IF i <= a THEN o[i] ELSE t[i - a]
  BY ConcatProperties
<1>3. /\ u \in Seq(Characters) /\ Len(u) = m + k
      /\ \A i \in 1..(m + k) : u[i] = IF i <= m THEN t[i] ELSE chars[i - m]
  BY ConcatProperties
<1>4. /\ g \in Seq(Characters) /\ Len(g) = a + (m + k)
      /\ \A i \in 1..(a + (m + k)) : g[i] = IF i <= a THEN o[i] ELSE u[i - a]
  <2> HIDE DEF u, m, k
  <2>1. g \in Seq(Characters) /\ Len(g) = a + Len(u)
        /\ \A i \in 1..(a + Len(u)) : g[i] = IF i <= a THEN o[i] ELSE u[i - a]
    BY <1>3, ConcatProperties
  <2> QED
    BY <1>3, <2>1
<1>5. Hits(stops, s) = {} /\ OpenWithin(stops, s, m)
  OBVIOUS
<1> HIDE DEF stop, s, u, g, a, m, k, l
<1>6. \A i \in 1..(a + m) : g[i] = s[i]
  <2> SUFFICES ASSUME NEW i \in 1..(a + m) PROVE g[i] = s[i]
    OBVIOUS
  <2>1. i \in 1..(a + (m + k))
    BY <1>1
  <2>2. CASE i <= a
    BY <1>2, <1>4, <2>1, <2>2
  <2>3. CASE ~(i <= a)
    <3>1. i - a \in 1..(m + k) /\ i - a <= m
      BY <1>1, <2>3
    <3>2. g[i] = u[i - a]
      BY <1>4, <2>1, <2>3
    <3> QED
      BY <1>2, <1>3, <2>3, <3>1, <3>2
  <2> QED
    BY <2>2, <2>3
<1>61. \A i : i \in Finds(stop, u) <=> /\ i \in 1..(m + k) /\ i + l - 1 <= m + k
                                       /\ \A j \in 1..l : u[i + j - 1] = stop[j]
  <2>1. \A i : i \in Finds(stop, u) <=> Occurs(stop, u, i)
    BY <1>1, <1>3, FindsFacts
  <2>2. Len(u) = m + k /\ Len(stop) = l
    BY <1>3 DEF l
  <2> QED
    BY <2>1, <2>2, Zenon DEF Occurs
<1>62. \A i : i \in Finds(stop, g) <=> /\ i \in 1..(a + (m + k)) /\ i + l - 1 <= a + (m + k)
                                       /\ \A j \in 1..l : g[i + j - 1] = stop[j]
  <2>1. \A i : i \in Finds(stop, g) <=> Occurs(stop, g, i)
    BY <1>1, <1>4, FindsFacts
  <2>2. Len(g) = a + (m + k) /\ Len(stop) = l
    BY <1>4 DEF l
  <2> QED
    BY <2>1, <2>2, Zenon DEF Occurs
<1>7. ASSUME NEW h, h \in Finds(stop, g)
      PROVE  h - a \in Finds(stop, u) /\ h \in Nat
  <2>1. /\ h \in 1..(a + (m + k)) /\ h + l - 1 <= a + (m + k)
        /\ \A j \in 1..l : g[h + j - 1] = stop[j]
    BY <1>7, <1>62
  <2>2. CASE h > a
    <3>1. h - a \in 1..(m + k) /\ (h - a) + l - 1 <= m + k /\ h \in Nat
      BY <1>1, <2>1, <2>2
    <3>2. ASSUME NEW j \in 1..l
          PROVE  u[(h - a) + j - 1] = stop[j]
      <4>1. /\ h + j - 1 \in 1..(a + (m + k)) /\ ~(h + j - 1 <= a)
            /\ (h + j - 1) - a = (h - a) + j - 1
        BY <1>1, <2>1, <2>2, SMTT(40)
      <4> QED
        BY <1>4, <2>1, <4>1
    <3> QED
      BY <1>61, <3>1, <3>2
  <2>3. CASE ~(h > a) /\ h + l - 1 <= a + m
    <3>1. h \in 1..(a + m)
      BY <1>1, <2>1, <2>3
    <3>2. \A j \in 1..l : s[h + j - 1] = stop[j]
      <4> SUFFICES ASSUME NEW j \in 1..l PROVE s[h + j - 1] = stop[j]
        OBVIOUS
      <4>1. h + j - 1 \in 1..(a + m)
        BY <1>1, <2>1, <2>3
      <4> QED
        BY <1>6, <2>1, <4>1
    <3>3. h \in Finds(stop, s)
      BY <1>1, <1>2, <2>3, <3>1, <3>2, FindsFacts DEF l, Occurs
    <3> QED
      BY <1>5, <3>3 DEF Hits, stop
  <2>4. CASE ~(h > a) /\ ~(h + l - 1 <= a + m)
    <3> DEFINE p == (a + m) - h + 1
    <3>1. p \in (m + 1)..(a + m) /\ p < l /\ p \in 1..(a + m)
      BY <1>1, <2>1, <2>4
    <3>2. \A j \in 1..p : stop[j] = s[(a + m) - p + j]
      <4> SUFFICES ASSUME NEW j \in 1..p PROVE stop[j] = s[(a + m) - p + j]
        OBVIOUS
      <4>1. (a + m) - p + j = h + j - 1 /\ h + j - 1 \in 1..(a + m) /\ j \in 1..l
        BY <1>1, <2>1, <2>4
      <4> QED
        BY <1>6, <2>1, <4>1
    <3> HIDE DEF p
    <3>3. Begins(stop, s, p)
      BY <1>1, <1>2, <3>1, <3>2, BeginsFacts DEF l
    <3> QED
      BY <1>2, <1>5, <3>1, <3>3 DEF OpenWithin, stop
  <2> QED
    BY <2>2, <2>3, <2>4
<1>8. ASSUME NEW h \in Nat, h - a \in Finds(stop, u)
      PROVE  h \in Finds(stop, g)
  <2>1. /\ h - a \in 1..(m + k) /\ (h - a) + l - 1 <= m + k
        /\ \A j \in 1..l : u[(h - a) + j - 1] = stop[j]
    BY <1>8, <1>61
  <2>2. h \in 1..(a + (m + k)) /\ h + l - 1 <= a + (m + k)
    BY <1>1, <2>1
  <2>3. ASSUME NEW j \in 1..l
        PROVE  g[h + j - 1] = stop[j]
    <3>1. /\ h + j - 1 \in 1..(a + (m + k)) /\ ~(h + j - 1 <= a)
          /\ (h + j - 1) - a = (h - a) + j - 1
      BY <1>1, <2>1, <2>2
    <3> QED
      BY <1>4, <2>1, <3>1
  <2> QED
    BY <1>62, <2>2, <2>3
<1>9. \A h : h \in Finds(stop, g) <=> h - a \in Finds(stop, u) /\ h \in Nat
  BY <1>7, <1>8
<1> QED
  BY <1>9 DEF stop, g, u, a

LEMMA HitsFacts ==
  ASSUME NEW stops \in Seq(Parts), NEW s \in Seq(Characters)
  PROVE  Hits(stops, s) \in SUBSET (1..Len(s))
<1>1. \A q \in DOMAIN stops : Finds(stops[q], s) \subseteq 1..Len(s)
  BY StopFacts, FindsFacts DEF Occurs
<1> QED
  BY <1>1 DEF Hits

\* So the earliest of them is found in t and what follows, and the same stop
\* sequence is named.
LEMMA SameMatch ==
  ASSUME NEW stops \in Seq(Parts), NEW o \in Seq(Characters), NEW t \in Seq(Characters),
         NEW chars \in Seq(Characters),
         Hits(stops, o \o t) = {}, OpenWithin(stops, o \o t, Len(t))
  PROVE  LET u == t \o chars  g == o \o u
         IN  /\ Hits(stops, g) = {} <=> Hits(stops, u) = {}
             /\ Hits(stops, u) # {} =>
                  /\ Min(Hits(stops, u)) \in 1..Len(u)
                  /\ Min(Hits(stops, g)) = Len(o) + Min(Hits(stops, u))
                  /\ Match(stops, g).stop = Match(stops, u).stop
                  /\ Match(stops, u).at = Min(Hits(stops, u))
                  /\ Match(stops, u).stop \in Seq(Characters)
<1> DEFINE u == t \o chars  g == o \o u  a == Len(o)
           T == Hits(stops, g)  U == Hits(stops, u)
<1>1. u \in Seq(Characters) /\ g \in Seq(Characters) /\ a \in Nat /\ Len(u) \in Nat
  BY ConcatProperties, LenProperties
<1>2. \A q \in DOMAIN stops : \A h : h \in Finds(stops[q], g) <=>
         h - a \in Finds(stops[q], u) /\ h \in Nat
  BY HitsInBuffer
<1> HIDE DEF u, g
<1>3. T \in SUBSET (1..Len(g)) /\ U \in SUBSET (1..Len(u)) /\ T \in SUBSET Nat /\ U \in SUBSET Nat
  BY <1>1, HitsFacts
<1>4. \A h : h \in T <=> h - a \in U /\ h \in Nat
  BY <1>2 DEF Hits
<1>5. ASSUME NEW x \in U
      PROVE  x + a \in T
  <2>1. x \in Nat
    BY <1>3
  <2>2. (x + a) - a = x /\ x + a \in Nat
    BY <1>1, <2>1
  <2> HIDE DEF T, U
  <2> QED
    BY <1>4, <1>5, <2>2
<1>6. T = {} <=> U = {}
  <2> HIDE DEF T, U
  <2> QED
    BY <1>4, <1>5
<1>7. ASSUME U # {}
      PROVE  /\ Min(U) \in 1..Len(u)
             /\ Min(T) = a + Min(U)
             /\ Match(stops, g).stop = Match(stops, u).stop
             /\ Match(stops, u).at = Min(U)
             /\ Match(stops, u).stop \in Seq(Characters)
  <2> DEFINE x == Min(U)  y == Min(T)
  <2>1. x \in U /\ \A j \in U : x <= j
    BY <1>3, <1>7, LeastElement
  <2>2. y \in T /\ \A j \in T : y <= j
    BY <1>3, <1>6, <1>7, LeastElement
  <2> HIDE DEF x, y
  <2>3. y = a + x
    <3>1. y - a \in U /\ x + a \in T
      <4> HIDE DEF T, U
      <4> QED
        BY <1>4, <1>5, <2>1, <2>2
    <3>2. x <= y - a /\ y <= x + a
      <4> HIDE DEF T, U
      <4> QED
        BY <2>1, <2>2, <3>1
    <3>3. x \in Nat /\ y \in Nat /\ a \in Nat
      BY <1>1, <1>3, <2>1, <2>2
    <3> HIDE DEF a
    <3> QED
      BY <3>2, <3>3
  <2> DEFINE A == {q \in DOMAIN stops : y \in Finds(stops[q], g)}
             B == {q \in DOMAIN stops : x \in Finds(stops[q], u)}
  <2>4. A = B
    <3>1. y - a = x /\ y \in Nat
      BY <1>1, <1>3, <2>1, <2>3
    <3> QED
      BY <1>2, <3>1
  <2>5. B \in SUBSET Nat /\ B # {}
    BY <2>1, StopFacts DEF Hits
  <2>6. Min(B) \in B
    BY <2>5, LeastElement
  <2>7. stops[Min(B)] \in Seq(Characters)
    BY <2>6, StopFacts
  <2>8. /\ Match(stops, g).stop = stops[Min(A)]
        /\ Match(stops, u).stop = stops[Min(B)]
        /\ Match(stops, u).at = x
    BY DEF Match, x, y, T, U
  <2>9. x \in 1..Len(u)
    BY <1>3, <2>1
  <2> HIDE DEF A, B
  <2> QED
    BY <2>3, <2>4, <2>7, <2>8, <2>9 DEF x, y
<1> HIDE DEF T, U
<1>8. /\ T = {} <=> U = {}
      /\ U # {} => /\ Min(U) \in 1..Len(u)
                   /\ Min(T) = a + Min(U)
                   /\ Match(stops, g).stop = Match(stops, u).stop
                   /\ Match(stops, u).at = Min(U)
                   /\ Match(stops, u).stop \in Seq(Characters)
  BY <1>6, <1>7
<1> QED
  BY <1>8 DEF T, U, u, g, a

\* What is held is the longest end that begins a stop sequence.
LEMMA HeldFacts ==
  ASSUME NEW stops \in Seq(Parts), NEW s \in Seq(Characters)
  PROVE  /\ Held(stops, s) \in 0..Len(s)
         /\ OpenWithin(stops, s, Held(stops, s))
         /\ Held(stops, s) # 0 => \E q \in DOMAIN stops : Begins(stops[q], s, Held(stops, s))
<1> DEFINE E == {n \in 1..Len(s) : \E q \in DOMAIN stops : Begins(stops[q], s, n)}
           h == Held(stops, s)
<1>1. Len(s) \in Nat
  BY LenProperties
<1>2. h = Max({0} \cup E)
  BY DEF Held, Begins
<1>3. h \in {0} \cup E /\ \A j \in {0} \cup E : j <= h
  <2>1. {0} \cup E \in SUBSET Nat /\ {0} \cup E # {} /\ \A j \in {0} \cup E : j <= Len(s)
    BY <1>1
  <2> HIDE DEF E
  <2> QED
    BY <1>1, <1>2, <2>1, LargestElement
<1> HIDE DEF h
<1>4. h \in 0..Len(s)
  BY <1>1, <1>3
<1>5. h # 0 => \E q \in DOMAIN stops : Begins(stops[q], s, h)
  BY <1>3
<1>6. OpenWithin(stops, s, h)
  <2> SUFFICES ASSUME NEW q \in DOMAIN stops, NEW p \in (h + 1)..Len(s), Begins(stops[q], s, p)
               PROVE  FALSE
    BY DEF OpenWithin
  <2>1. p \in 1..Len(s) /\ ~(p <= h)
    BY <1>1, <1>4
  <2>2. p \in E
    BY <2>1
  <2> QED
    BY <1>3, <2>1, <2>2
<1> QED
  BY <1>4, <1>5, <1>6 DEF h

\* If no stop sequence is in o, t and what follows, one can only be completed
\* with what the matcher holds of t and what follows.
LEMMA StaysOpen ==
  ASSUME NEW stops \in Seq(Parts), NEW o \in Seq(Characters), NEW t \in Seq(Characters),
         NEW chars \in Seq(Characters), OpenWithin(stops, o \o t, Len(t))
  PROVE  OpenWithin(stops, o \o (t \o chars), Held(stops, t \o chars))
<1> DEFINE s == o \o t  u == t \o chars  g == o \o u  h == Held(stops, u)
           a == Len(o)  m == Len(t)  k == Len(chars)
<1>1. a \in Nat /\ m \in Nat /\ k \in Nat
  BY LenProperties
<1>2. /\ s \in Seq(Characters) /\ Len(s) = a + m
      /\ \A i \in 1..(a + m) : s[i] = IF i <= a THEN o[i] ELSE t[i - a]
  BY ConcatProperties
<1>3. /\ u \in Seq(Characters) /\ Len(u) = m + k
      /\ \A i \in 1..(m + k) : u[i] = IF i <= m THEN t[i] ELSE chars[i - m]
  BY ConcatProperties
<1>4. /\ g \in Seq(Characters) /\ Len(g) = a + (m + k)
      /\ \A i \in 1..(a + (m + k)) : g[i] = IF i <= a THEN o[i] ELSE u[i - a]
  <2> HIDE DEF u, m, k
  <2>1. g \in Seq(Characters) /\ Len(g) = a + Len(u)
        /\ \A i \in 1..(a + Len(u)) : g[i] = IF i <= a THEN o[i] ELSE u[i - a]
    BY <1>3, ConcatProperties
  <2> QED
    BY <1>3, <2>1
<1>5. OpenWithin(stops, s, m)
  OBVIOUS
<1> HIDE DEF s, u, g, a, m, k
<1>6. \A i \in 1..(a + m) : g[i] = s[i]
  <2> SUFFICES ASSUME NEW i \in 1..(a + m) PROVE g[i] = s[i]
    OBVIOUS
  <2>1. i \in 1..(a + (m + k))
    BY <1>1
  <2>2. CASE i <= a
    BY <1>2, <1>4, <2>1, <2>2
  <2>3. CASE ~(i <= a)
    <3>1. i - a \in 1..(m + k) /\ i - a <= m
      BY <1>1, <2>3
    <3>2. g[i] = u[i - a]
      BY <1>4, <2>1, <2>3
    <3> QED
      BY <1>2, <1>3, <2>3, <3>1, <3>2
  <2> QED
    BY <2>2, <2>3
<1>7. h \in 0..(m + k) /\ OpenWithin(stops, u, h)
  BY <1>3, HeldFacts
<1> HIDE DEF h
<1>8. OpenWithin(stops, g, h)
  <2> SUFFICES ASSUME NEW q \in DOMAIN stops, NEW p \in (h + 1)..(a + (m + k)),
                      Begins(stops[q], g, p)
               PROVE  FALSE
    BY <1>4 DEF OpenWithin
  <2> DEFINE stop == stops[q]
  <2>1. stop \in Seq(Characters) /\ Len(stop) \in Nat
    BY StopFacts
  <2>2. p \in 1..(a + (m + k))
    BY <1>1, <1>7
  <2>3. Begins(stop, g, p)
    OBVIOUS
  <2> HIDE DEF stop
  <2>4. p < Len(stop) /\ \A j \in 1..p : stop[j] = g[(a + (m + k)) - p + j]
    <3>1. p \in 1..Len(g)
      BY <1>4, <2>2
    <3>2. p < Len(stop) /\ \A j \in 1..p : stop[j] = g[Len(g) - p + j]
      BY <1>4, <2>1, <2>3, <3>1, BeginsFacts
    <3> QED
      BY <1>4, <3>2
  <2>5. CASE p <= m + k
    <3>1. p \in 1..(m + k) /\ p \in (h + 1)..(m + k)
      BY <1>1, <2>2, <2>5
    <3>2. \A j \in 1..p : stop[j] = u[(m + k) - p + j]
      <4> SUFFICES ASSUME NEW j \in 1..p PROVE stop[j] = u[(m + k) - p + j]
        OBVIOUS
      <4> DEFINE i == (a + (m + k)) - p + j
      <4>1. i \in 1..(a + (m + k)) /\ ~(i <= a) /\ i - a = (m + k) - p + j
        BY <1>1, <3>1
      <4>2. stop[j] = g[i]
        BY <2>4
      <4> HIDE DEF i
      <4> QED
        BY <1>4, <4>1, <4>2
    <3>3. Begins(stop, u, p)
      <4>1. p \in 1..Len(u) /\ \A j \in 1..p : stop[j] = u[Len(u) - p + j]
        BY <1>3, <3>1, <3>2
      <4> QED
        BY <1>3, <2>1, <2>4, <4>1, BeginsFacts
    <3> QED
      BY <1>3, <1>7, <3>1, <3>3 DEF OpenWithin, stop
  <2>6. CASE ~(p <= m + k)
    <3> DEFINE e == p - k
    <3>1. e \in (m + 1)..(a + m) /\ e \in 1..(a + m) /\ e < Len(stop) /\ e \in Nat
      <4>1. p \in Nat /\ p > m + k /\ p <= a + (m + k) /\ p < Len(stop)
        BY <1>1, <2>2, <2>4, <2>6
      <4> DEFINE l == Len(stop)
      <4>2. l \in Nat /\ p < l
        BY <2>1, <4>1
      <4> HIDE DEF l
      <4>3. e \in (m + 1)..(a + m) /\ e \in 1..(a + m) /\ e < l /\ e \in Nat
        BY <1>1, <4>1, <4>2
      <4> QED
        BY <4>3 DEF l
    <3>2. \A j \in 1..e : stop[j] = s[(a + m) - e + j]
      <4> SUFFICES ASSUME NEW j \in 1..e PROVE stop[j] = s[(a + m) - e + j]
        OBVIOUS
      <4> DEFINE i == (a + m) - e + j
      <4>1. j \in 1..p /\ (a + (m + k)) - p + j = i /\ i \in 1..(a + m)
        BY <1>1, <2>2, <2>6
      <4>2. stop[j] = g[i]
        BY <2>4, <4>1
      <4> HIDE DEF i
      <4> QED
        BY <1>6, <4>1, <4>2 DEF i
    <3> HIDE DEF e
    <3>3. Begins(stop, s, e)
      <4>1. e \in 1..Len(s) /\ \A j \in 1..e : stop[j] = s[Len(s) - e + j]
        BY <1>2, <3>1, <3>2
      <4> QED
        BY <1>2, <2>1, <3>1, <4>1, BeginsFacts
    <3> QED
      BY <1>2, <1>5, <3>1, <3>3 DEF OpenWithin, stop
  <2> QED
    BY <2>5, <2>6
<1> QED
  BY <1>8 DEF g, u, h

LEMMA FirstOfConcat ==
  ASSUME NEW T, NEW o \in Seq(T), NEW u \in Seq(T), NEW n \in 0..Len(u)
  PROVE  o \o FirstChars(u, n) = FirstChars(o \o u, Len(o) + n)
<1> DEFINE a == Len(o)  l == Len(u)  g == o \o u  v == FirstChars(u, n)
           x == o \o v  y == FirstChars(g, a + n)
<1>1. a \in Nat /\ l \in Nat /\ n \in Nat /\ n <= l
  BY LenProperties
<1>2. v \in Seq(T) /\ Len(v) = n /\ \A i \in 1..n : v[i] = u[i]
  BY FirstCharsType
<1> HIDE DEF v
<1>3. g \in Seq(T) /\ Len(g) = a + l
      /\ \A i \in 1..(a + l) : g[i] = IF i <= a THEN o[i] ELSE u[i - a]
  BY ConcatProperties
<1> HIDE DEF g
<1>4. x \in Seq(T) /\ Len(x) = a + n
      /\ \A i \in 1..(a + n) : x[i] = IF i <= a THEN o[i] ELSE v[i - a]
  <2>1. x \in Seq(T) /\ Len(x) = a + Len(v)
        /\ \A i \in 1..(a + Len(v)) : x[i] = IF i <= a THEN o[i] ELSE v[i - a]
    BY <1>2, ConcatProperties
  <2> HIDE DEF x
  <2> QED
    BY <1>2, <2>1
<1>5. y \in Seq(T) /\ Len(y) = a + n /\ \A i \in 1..(a + n) : y[i] = g[i]
  <2>1. a + n \in 0..Len(g)
    BY <1>1, <1>3
  <2> QED
    BY <1>3, <2>1, FirstCharsType
<1> HIDE DEF x, y, a, l
<1>6. \A i \in 1..(a + n) : x[i] = y[i]
  <2> SUFFICES ASSUME NEW i \in 1..(a + n) PROVE x[i] = y[i]
    OBVIOUS
  <2>1. i \in 1..(a + l)
    BY <1>1
  <2>2. CASE i <= a
    BY <1>3, <1>4, <1>5, <2>1, <2>2
  <2>3. CASE ~(i <= a)
    <3>1. i - a \in 1..n
      BY <1>1, <2>3
    <3> QED
      BY <1>2, <1>3, <1>4, <1>5, <2>1, <2>3, <3>1
  <2> QED
    BY <2>2, <2>3
<1>7. x = y
  BY <1>4, <1>5, <1>6, SeqEqual
<1> QED
  BY <1>7 DEF x, y, v, g, a

LEMMA CutAndJoined ==
  ASSUME NEW T, NEW u \in Seq(T), NEW n \in 0..Len(u)
  PROVE  FirstChars(u, Len(u) - n) \o LastN(u, n) = u
<1> DEFINE l == Len(u)  v == FirstChars(u, l - n)  w == LastN(u, n)  x == v \o w
<1>1. l \in Nat /\ n \in Nat /\ n <= l /\ l - n \in 0..l
  BY LenProperties
<1>2. v \in Seq(T) /\ Len(v) = l - n /\ \A i \in 1..(l - n) : v[i] = u[i]
  BY <1>1, FirstCharsType
<1>3. w \in Seq(T) /\ Len(w) = n /\ \A i \in 1..n : w[i] = u[l - n + i]
  BY <1>1, LastNType
<1> HIDE DEF v, w
<1>4. x \in Seq(T) /\ Len(x) = Len(v) + Len(w)
      /\ \A i \in 1..(Len(v) + Len(w)) : x[i] = IF i <= Len(v) THEN v[i] ELSE w[i - Len(v)]
  BY <1>2, <1>3, ConcatProperties
<1> HIDE DEF x
<1>5. Len(x) = l /\ \A i \in 1..l : x[i] = u[i]
  <2>1. Len(v) + Len(w) = l
    BY <1>1, <1>2, <1>3
  <2> SUFFICES ASSUME NEW i \in 1..l PROVE x[i] = u[i]
    BY <1>4, <2>1
  <2>2. i \in 1..(Len(v) + Len(w))
    BY <2>1
  <2>3. CASE i <= l - n
    <3>1. i \in 1..(l - n)
      BY <1>1, <2>3
    <3> QED
      BY <1>2, <1>4, <2>2, <2>3, <3>1
  <2>4. CASE ~(i <= l - n)
    <3>1. i - (l - n) \in 1..n /\ l - n + (i - (l - n)) = i
      BY <1>1, <2>4
    <3>2. x[i] = w[i - (l - n)]
      BY <1>2, <1>4, <2>2, <2>4
    <3> QED
      BY <1>3, <3>1, <3>2
  <2> QED
    BY <2>3, <2>4
<1>6. Len(u) = l
  OBVIOUS
<1> HIDE DEF l
<1>7. x = u
  BY <1>4, <1>5, <1>6, SeqEqual
<1> QED
  BY <1>7 DEF x, v, w, l

\* What StopMatcher.feed makes of more characters, when everything yielded and
\* held so far has no stop sequence: total is the text up to these characters.
LEMMA FeedFacts ==
  ASSUME request.stops \in Seq(Parts), pending \in Seq(Characters), out \in Seq(Characters),
         NEW chars \in Seq(Characters), NEW total, total = (out \o pending) \o chars,
         Hits(request.stops, out \o pending) = {},
         OpenWithin(request.stops, out \o pending, Len(pending))
  PROVE  LET stops == request.stops
             fed == Feed(chars)
         IN  /\ fed.text \in Seq(Characters) /\ fed.pending \in Seq(Characters)
             /\ total \in Seq(Characters) /\ out \o fed.text \in Seq(Characters)
             /\ Hits(stops, total) # {} =>
                  /\ fed.pending = <<>>
                  /\ out \o fed.text = FirstChars(total, Min(Hits(stops, total)) - 1)
                  /\ fed.matched = Match(stops, total).stop
                  /\ fed.matched # NoStop
             /\ Hits(stops, total) = {} =>
                  /\ fed.matched = NoStop
                  /\ (out \o fed.text) \o fed.pending = total
                  /\ OpenWithin(stops, total, Len(fed.pending))
                  /\ fed.pending # <<>> =>
                       \E q \in DOMAIN stops : IsStrictPrefix(fed.pending, stops[q])
<1> DEFINE stops == request.stops  u == pending \o chars  h == Held(stops, u)
           fed == Feed(chars)  at == Min(Hits(stops, u))
<1>1. u \in Seq(Characters) /\ Len(u) \in Nat /\ Len(out) \in Nat
  BY ConcatProperties, LenProperties
<1>2. total = out \o u /\ total \in Seq(Characters)
  <2>1. total = out \o u
    BY Associative, SMTT(40)
  <2> QED
    BY <1>1, <2>1, ConcatProperties
<1>3. /\ Hits(stops, total) = {} <=> Hits(stops, u) = {}
      /\ Hits(stops, u) # {} =>
           /\ at \in 1..Len(u)
           /\ Min(Hits(stops, total)) = Len(out) + at
           /\ Match(stops, total).stop = Match(stops, u).stop
           /\ Match(stops, u).at = at
           /\ Match(stops, u).stop \in Seq(Characters)
  <2> DEFINE g == out \o u
  <2>1. /\ Hits(stops, g) = {} <=> Hits(stops, u) = {}
        /\ Hits(stops, u) # {} =>
             /\ at \in 1..Len(u)
             /\ Min(Hits(stops, g)) = Len(out) + at
             /\ Match(stops, g).stop = Match(stops, u).stop
             /\ Match(stops, u).at = at
             /\ Match(stops, u).stop \in Seq(Characters)
    BY SameMatch
  <2> HIDE DEF g, at, u, stops
  <2> QED
    BY <1>2, <2>1 DEF g
<1>4. OpenWithin(stops, total, h)
  BY <1>2, StaysOpen
<1>5. h \in 0..Len(u) /\ (h # 0 => \E q \in DOMAIN stops : Begins(stops[q], u, h))
  BY <1>1, HeldFacts
<1>6. fed = IF Hits(stops, u) # {}
            THEN [text |-> FirstChars(u, Match(stops, u).at - 1), pending |-> <<>>,
                  matched |-> Match(stops, u).stop]
            ELSE [text |-> FirstChars(u, Len(u) - h), pending |-> LastN(u, h),
                  matched |-> NoStop]
  BY DEF Feed
<1>7. /\ <<>> \in Seq(Characters)
      /\ NoStop \notin Seq(Characters)
  BY EmptySeq, CompletionAssumption
<1>8. \A q \in DOMAIN stops : stops[q] \in Seq(Characters)
  BY StopFacts
<1> HIDE DEF stops, u, h, fed, at
<1>9. CASE Hits(stops, u) # {}
  <2>1. /\ fed.text = FirstChars(u, at - 1) /\ fed.pending = <<>>
        /\ fed.matched = Match(stops, u).stop
    BY <1>3, <1>6, <1>9
  <2> DEFINE l == Len(u)  a == Len(out)
  <2>2. at - 1 \in 0..Len(u) /\ Len(out) + (at - 1) = (Len(out) + at) - 1
    <3>1. at \in 1..l /\ l \in Nat /\ a \in Nat
      BY <1>1, <1>3, <1>9
    <3> HIDE DEF l, a
    <3>2. at - 1 \in 0..l /\ a + (at - 1) = (a + at) - 1
      BY <3>1
    <3> QED
      BY <3>2 DEF l, a
  <2>3. fed.text \in Seq(Characters)
    BY <1>1, <2>1, <2>2, FirstCharsType
  <2>4. out \o fed.text = FirstChars(total, Len(out) + (at - 1))
    BY <1>1, <1>2, <2>1, <2>2, FirstOfConcat
  <2>5. out \o fed.text = FirstChars(total, Min(Hits(stops, total)) - 1)
    BY <1>3, <1>9, <2>2, <2>4
  <2>6. out \o fed.text \in Seq(Characters)
    BY <2>3, ConcatProperties
  <2>7. fed.matched = Match(stops, total).stop /\ fed.matched # NoStop
    BY <1>3, <1>7, <1>9, <2>1
  <2> QED
    BY <1>2, <1>3, <1>7, <1>9, <2>1, <2>3, <2>5, <2>6, <2>7 DEF stops, fed
<1>10. CASE Hits(stops, u) = {}
  <2>1. /\ fed.text = FirstChars(u, Len(u) - h) /\ fed.pending = LastN(u, h)
        /\ fed.matched = NoStop
    BY <1>6, <1>10
  <2>2. Len(u) - h \in 0..Len(u)
    BY <1>1, <1>5
  <2>3. fed.text \in Seq(Characters)
    BY <1>1, <2>1, <2>2, FirstCharsType
  <2>4. fed.pending \in Seq(Characters) /\ Len(fed.pending) = h
    BY <1>1, <1>5, <2>1, LastNType
  <2>5. fed.text \o fed.pending = u
    BY <1>1, <1>5, <2>1, CutAndJoined
  <2>6. (out \o fed.text) \o fed.pending = total /\ out \o fed.text \in Seq(Characters)
    <3> DEFINE v == fed.text  w == fed.pending
    <3>1. v \in Seq(Characters) /\ w \in Seq(Characters) /\ out \in Seq(Characters)
      BY <2>3, <2>4
    <3>2. v \o w = u
      BY <2>5
    <3> HIDE DEF v, w
    <3>3. (out \o v) \o w = out \o (v \o w)
      BY <3>1, SMTT(40)
    <3>4. out \o v \in Seq(Characters)
      BY <3>1, ConcatProperties
    <3> QED
      BY <1>2, <3>2, <3>3, <3>4 DEF v, w
  <2>7. ASSUME fed.pending # <<>>
        PROVE  \E q \in DOMAIN stops : IsStrictPrefix(fed.pending, stops[q])
    <3>1. h # 0
      BY <2>4, <2>7, EmptySeq
    <3>2. PICK q \in DOMAIN stops : Begins(stops[q], u, h)
      BY <1>5, <3>1
    <3> DEFINE stop == stops[q]  held == fed.pending
    <3>3. h < Len(stop) /\ FirstChars(stop, h) = held /\ stop \in Seq(Characters)
      BY <1>8, <2>1, <3>2 DEF Begins
    <3>4. held \in Seq(Characters) /\ Len(held) = h
      BY <2>4
    <3> HIDE DEF stop, held
    <3>5. FirstChars(held, h) = held
      BY <3>4 DEF FirstChars
    <3>6. Len(stop) \in Nat /\ held # stop
      BY <1>1, <1>5, <3>3, <3>4, LenProperties
    <3>7. IsStrictPrefix(held, stop)
      BY <1>1, <1>5, <3>3, <3>4, <3>5, <3>6 DEF IsStrictPrefix, IsPrefix, FirstChars
    <3> QED
      BY <3>7 DEF held, stop
  <2> QED
    BY <1>2, <1>3, <1>4, <1>10, <2>1, <2>3, <2>4, <2>6, <2>7 DEF stops, fed
<1> QED
  BY <1>9, <1>10

-----------------------------------------------------------------------------
(* The answer *)

CutShort(s) == s # <<>> /\ Last(s) = Bad

\* o is yielded and p held of the first r characters of s: nothing in them is
\* a stop sequence, only an end of p may begin one, and what is not among them
\* is half a character.
Split(stops, s, r, o, p) ==
    /\ r \in 0..Sure(s)
    /\ r = Len(s) \/ CutShort(s)
    /\ o \in Seq(Characters) /\ p \in Seq(Characters)
    /\ o \o p = FirstChars(s, r)
    /\ Hits(stops, o \o p) = {}
    /\ OpenWithin(stops, o \o p, Len(p))
    /\ p # <<>> => \E q \in DOMAIN stops : IsStrictPrefix(p, stops[q])

CutAt(stops, s, o, m) ==
    /\ Hits(stops, s) # {}
    /\ o = FirstChars(s, Min(Hits(stops, s)) - 1)
    /\ m = Match(stops, s).stop

\* Until a stop sequence is found or the rest let go, everything decoded is
\* yielded or held.
Feeding == pc \in {"encode", "decode", "choose"} \/ (pc = "end" /\ matched = NoStop)
AllSplit ==
    Feeding =>
        matched = NoStop /\ Split(request.stops, Decoded, released, out, pending)

\* A stop sequence found by the loop waits to be answered.
CutInTheLoop ==
    pc = "end" /\ matched # NoStop =>
        /\ CutAt(request.stops, Decoded, out \o text, matched)
        /\ finish = "stop"
        /\ text \in Seq(Characters)

AnswerInv == AllSplit /\ CutInTheLoop /\ AnswerExact

LEMMA SliceFacts ==
  ASSUME NEW T, NEW s \in Seq(T), NEW n \in 0..Len(s), NEW r \in 0..n
  PROVE  /\ SubSeq(s, r + 1, n) \in Seq(T)
         /\ FirstChars(s, r) \o SubSeq(s, r + 1, n) = FirstChars(s, n)
         /\ FirstChars(s, Len(s)) = s
<1> DEFINE l == Len(s)  v == FirstChars(s, r)  w == SubSeq(s, r + 1, n)
           x == v \o w  y == FirstChars(s, n)
<1>1. l \in Nat /\ n \in Nat /\ r \in Nat /\ r <= n /\ n <= l /\ r \in 0..l
  BY LenProperties
<1>2. v \in Seq(T) /\ Len(v) = r /\ \A i \in 1..r : v[i] = s[i]
  BY <1>1, FirstCharsType
<1>3. w \in Seq(T) /\ Len(w) = n - r /\ \A i \in 1..(n - r) : w[i] = s[r + i]
  <2>1. \A i \in (r + 1)..n : s[i] \in T
    <3>1. \A i \in (r + 1)..n : i \in 1..l
      BY <1>1
    <3> QED
      BY <3>1, ElementOfSeq
  <2> QED
    BY <1>1, <2>1, SubSeqProperties
<1>4. y \in Seq(T) /\ Len(y) = n /\ \A i \in 1..n : y[i] = s[i]
  BY <1>1, FirstCharsType
<1> HIDE DEF v, w, y
<1>5. x \in Seq(T) /\ Len(x) = Len(v) + Len(w)
      /\ \A i \in 1..(Len(v) + Len(w)) : x[i] = IF i <= Len(v) THEN v[i] ELSE w[i - Len(v)]
  BY <1>2, <1>3, ConcatProperties
<1> HIDE DEF x
<1>6. Len(x) = n /\ \A i \in 1..n : x[i] = y[i]
  <2>1. Len(v) + Len(w) = n
    BY <1>1, <1>2, <1>3
  <2> SUFFICES ASSUME NEW i \in 1..n PROVE x[i] = y[i]
    BY <1>5, <2>1
  <2>2. i \in 1..(Len(v) + Len(w))
    BY <2>1
  <2>3. CASE i <= r
    <3>1. i \in 1..r
      BY <1>1, <2>3
    <3> QED
      BY <1>2, <1>4, <1>5, <2>2, <2>3, <3>1
  <2>4. CASE ~(i <= r)
    <3>1. i - r \in 1..(n - r) /\ r + (i - r) = i
      BY <1>1, <2>4
    <3>2. x[i] = w[i - r]
      BY <1>2, <1>5, <2>2, <2>4
    <3> QED
      BY <1>3, <1>4, <3>1, <3>2
  <2> QED
    BY <2>3, <2>4
<1>7. x = y
  BY <1>4, <1>5, <1>6, SeqEqual
<1>8. FirstChars(s, Len(s)) = s
  BY DEF FirstChars
<1> QED
  BY <1>3, <1>7, <1>8 DEF x, v, w, y

\* What the detokenizer releases with a token more.
LEMMA PushFacts ==
  ASSUME NEW d \in Seq(Characters), NEW e \in Seq(Characters),
         Len(d) <= Len(e), \A j \in 1..Sure(d) : e[j] = d[j],
         NEW r \in 0..Sure(d), r = Len(d) \/ CutShort(d),
         NEW n, n = IF CutShort(e) THEN r ELSE Len(e)
  PROVE  /\ n \in 0..Sure(e) /\ r \in 0..n /\ n \in 0..Len(e)
         /\ n = Len(e) \/ (CutShort(e) /\ n = r)
         /\ FirstChars(e, r) = FirstChars(d, r)
<1> DEFINE ld == Len(d)  le == Len(e)
<1>1. ld \in Nat /\ le \in Nat /\ (d = <<>> <=> ld = 0) /\ (e = <<>> <=> le = 0)
  BY LenProperties, EmptySeq
<1>2. /\ Sure(d) = IF CutShort(d) THEN ld - 1 ELSE ld
      /\ Sure(e) = IF CutShort(e) THEN le - 1 ELSE le
      /\ ld <= le
  BY DEF Sure, CutShort
<1>3. CutShort(d) => ld # 0
  BY <1>1 DEF CutShort
<1>4. CutShort(e) => le # 0 /\ e[le] = Bad
  BY <1>1 DEF CutShort, Last
<1>5. ~CutShort(d) /\ ld # 0 => d[ld] # Bad
  BY <1>1 DEF CutShort, Last
<1>6. \A j \in 1..Sure(d) : e[j] = d[j]
  OBVIOUS
<1> HIDE DEF ld, le
<1>7. r \in Nat /\ r <= ld /\ Sure(d) <= ld
  BY <1>1, <1>2, <1>3
<1>8. ASSUME CutShort(e)
      PROVE  r <= le - 1
  <2>1. CASE CutShort(d)
    BY <1>1, <1>2, <1>3, <2>1
  <2>2. CASE ~CutShort(d) /\ ld # le
    BY <1>1, <1>2, <1>7, <2>2
  <2>3. CASE ~CutShort(d) /\ ld = le
    <3>1. ld # 0 /\ ld \in 1..Sure(d)
      BY <1>1, <1>2, <1>4, <1>8, <2>3
    <3> QED
      BY <1>4, <1>5, <1>6, <1>8, <2>3, <3>1
  <2> QED
    BY <2>1, <2>2, <2>3
<1>9. /\ n \in 0..Sure(e) /\ r \in 0..n /\ n \in 0..le
      /\ n = le \/ (CutShort(e) /\ n = r)
  <2>1. CASE CutShort(e)
    <3>1. n = r
      BY <2>1
    <3> QED
      BY <1>1, <1>2, <1>7, <1>8, <2>1, <3>1
  <2>2. CASE ~CutShort(e)
    <3>1. n = le
      BY <2>2 DEF le
    <3> QED
      BY <1>1, <1>2, <1>7, <2>2, <3>1
  <2> QED
    BY <2>1, <2>2
<1>10. FirstChars(e, r) = FirstChars(d, r)
  <2> DEFINE x == FirstChars(e, r)  y == FirstChars(d, r)
  <2>1. r \in 0..Len(d) /\ r \in 0..Len(e)
    BY <1>1, <1>2, <1>7 DEF ld, le
  <2>2. x \in Seq(Characters) /\ Len(x) = r /\ \A i \in 1..r : x[i] = e[i]
    BY <2>1, FirstCharsType
  <2>3. y \in Seq(Characters) /\ Len(y) = r /\ \A i \in 1..r : y[i] = d[i]
    BY <2>1, FirstCharsType
  <2>4. \A i \in 1..r : i \in 1..Sure(d)
    BY <1>1, <1>2, <1>3
  <2> HIDE DEF x, y
  <2>5. x = y
    BY <1>6, <2>2, <2>3, <2>4, SeqEqual
  <2> QED
    BY <2>5 DEF x, y
<1> QED
  BY <1>9, <1>10 DEF le

LEMMA StopsType ==
  ASSUME NEW r \in Requests
  PROVE  r.stops \in Seq(Parts)
BY CompletionAssumption DEF IsRequest, Parts

\* A token leaves everything decoded yielded or held, or finds the earliest
\* stop sequence of the text so far.
LEMMA TakeStep ==
  ASSUME CompletionInv, AllSplit, Take
  PROVE  AllSplit' /\ CutInTheLoop' /\ text' \in Seq(Characters)
<1> DEFINE d == Decode(generated)  tokens == Append(generated, next)  e == Decode(tokens)
           stops == request.stops  n == Push(tokens)
           chars == SubSeq(e, released + 1, n)  fed == Feed(chars)
           total == FirstChars(e, n)
<1>1. request \in Requests /\ generated \in Seq(Seq(Characters)) /\ next \in Seq(Characters)
  <2>1. next \in Seq(SingleBytes) /\ SingleBytes \subseteq Characters
    BY TakenType DEF SingleBytes
  <2>2. next \in Seq(Characters)
    BY <2>1, SeqMonotonic
  <2> QED
    BY <2>2, BytesAreText DEF CompletionInv, TokensTyped
<1>2. stops \in Seq(Parts)
  BY <1>1, StopsType
<1>3. /\ d \in Seq(Characters) /\ e \in Seq(Characters)
      /\ Len(d) <= Len(e) /\ \A j \in 1..Sure(d) : e[j] = d[j]
  BY <1>1, DecodeGrows
<1>4. matched = NoStop /\ Split(stops, d, released, out, pending)
  BY DEF Take, AllSplit, Feeding, Decoded
<1>5. n = IF CutShort(e) THEN released ELSE Len(e)
  BY DEF Push, CutShort
<1>6. /\ generated' = tokens /\ released' = n /\ request' = request
      /\ pending' = fed.pending /\ matched' = fed.matched /\ text' = fed.text
      /\ finish' = IF fed.matched # NoStop THEN "stop" ELSE finish
      /\ IF fed.matched # NoStop \/ fed.text = <<>>
         THEN out' = out ELSE out' = out \o fed.text
      /\ pc' \in {"end", "decode"}
      /\ fed.matched # NoStop => pc' = "end"
  <2>1. /\ generated' = tokens /\ released' = n /\ request' = request
        /\ pending' = fed.pending /\ matched' = fed.matched /\ text' = fed.text
    BY DEF Take, callVars
  <2>2. finish' = IF fed.matched # NoStop THEN "stop" ELSE finish
    BY DEF Take
  <2>3. IF fed.matched # NoStop \/ fed.text = <<>>
        THEN out' = out ELSE out' = out \o fed.text
    BY DEF Take, Yield
  <2>4. pc' = IF fed.matched # NoStop \/ Len(tokens) >= request.max THEN "end" ELSE "decode"
    BY DEF Take
  <2> HIDE DEF fed, tokens
  <2> QED
    BY <2>1, <2>2, <2>3, <2>4
<1> HIDE DEF tokens
<1>7. Decoded' = e
  BY <1>6 DEF Decoded, e
<1> HIDE DEF d, e, n, stops
<1>8. /\ n \in 0..Sure(e) /\ released \in 0..n /\ n \in 0..Len(e)
      /\ n = Len(e) \/ (CutShort(e) /\ n = released)
      /\ FirstChars(e, released) = FirstChars(d, released)
  <2>1. released \in 0..Sure(d) /\ (released = Len(d) \/ CutShort(d))
    BY <1>4 DEF Split
  <2> QED
    BY <1>3, <1>5, <2>1, PushFacts
<1>9. /\ chars \in Seq(Characters)
      /\ FirstChars(e, released) \o chars = total
      /\ FirstChars(e, Len(e)) = e
  BY <1>3, <1>8, SliceFacts
<1>10. /\ out \o pending = FirstChars(e, released) /\ total = (out \o pending) \o chars
       /\ out \in Seq(Characters) /\ pending \in Seq(Characters)
       /\ Hits(stops, out \o pending) = {}
       /\ OpenWithin(stops, out \o pending, Len(pending))
  BY <1>4, <1>8, <1>9 DEF Split
<1> HIDE DEF chars, fed, total
<1>11. /\ fed.text \in Seq(Characters) /\ fed.pending \in Seq(Characters)
       /\ total \in Seq(Characters) /\ out \o fed.text \in Seq(Characters)
       /\ Hits(stops, total) # {} =>
            /\ fed.pending = <<>>
            /\ out \o fed.text = FirstChars(total, Min(Hits(stops, total)) - 1)
            /\ fed.matched = Match(stops, total).stop
            /\ fed.matched # NoStop
       /\ Hits(stops, total) = {} =>
            /\ fed.matched = NoStop
            /\ (out \o fed.text) \o fed.pending = total
            /\ OpenWithin(stops, total, Len(fed.pending))
            /\ fed.pending # <<>> =>
                 \E q \in DOMAIN stops : IsStrictPrefix(fed.pending, stops[q])
  BY <1>2, <1>9, <1>10, FeedFacts DEF fed, stops
<1>12. stops' = stops
  BY <1>6 DEF stops
<1>13. text' \in Seq(Characters)
  BY <1>6, <1>11
<1>14. CASE Hits(stops, total) = {}
  <2>1. fed.matched = NoStop
    BY <1>11, <1>14
  <2>2. out' = out \o fed.text
    <3>1. out \o <<>> = out
      BY <1>10, ConcatProperties, EmptySeq
    <3> QED
      BY <1>6, <2>1, <3>1
  <2>3. Split(stops, e, n, out \o fed.text, fed.pending)
    <3>1. n = Len(e) \/ CutShort(e)
      BY <1>8
    <3> QED
      BY <1>8, <1>11, <1>14, <3>1 DEF Split, total
  <2>4. AllSplit'
    BY <1>6, <1>7, <1>12, <2>1, <2>2, <2>3 DEF AllSplit, stops
  <2> QED
    BY <1>6, <1>13, <2>1, <2>4 DEF CutInTheLoop
<1>15. CASE Hits(stops, total) # {}
  <2>1. total = e
    <3>1. n # released
      <4> SUFFICES ASSUME n = released PROVE FALSE
        OBVIOUS
      <4>1. total = out \o pending
        BY <1>10 DEF total
      <4> QED
        BY <1>10, <1>15, <4>1
    <3> QED
      BY <1>8, <1>9, <3>1 DEF total
  <2>2. fed.matched # NoStop
    BY <1>11, <1>15
  <2>3. CutAt(stops, e, out \o fed.text, fed.matched)
    BY <1>11, <1>15, <2>1 DEF CutAt
  <2>4. out' = out /\ text' = fed.text /\ matched' = fed.matched /\ finish' = "stop" /\ pc' = "end"
    BY <1>6, <2>2
  <2>5. CutInTheLoop'
    BY <1>7, <1>11, <1>12, <2>2, <2>3, <2>4 DEF CutInTheLoop, stops
  <2> QED
    BY <1>13, <2>2, <2>4, <2>5 DEF AllSplit, Feeding
<1> QED
  BY <1>14, <1>15

\* What the detokenizer and the matcher let go of at the end completes the
\* text, or a stop sequence.
LEMMA FlushStep ==
  ASSUME CompletionInv, AllSplit, EndFlushed
  PROVE  AnswerExact' /\ text' \in Seq(Characters)
<1> DEFINE d == Decode(generated)  stops == request.stops
           chars == After(d, released)  fed == Feed(chars)
<1>1. request \in Requests /\ generated \in Seq(Seq(Characters))
  BY BytesAreText DEF CompletionInv, TokensTyped
<1>2. stops \in Seq(Parts)
  BY <1>1, StopsType
<1>3. d \in Seq(Characters) /\ Len(d) \in Nat
  BY <1>1, DecodeType, LenProperties
<1>4. matched = NoStop /\ Split(stops, d, released, out, pending)
  BY DEF EndFlushed, AllSplit, Feeding, Decoded
<1>5. /\ generated' = generated /\ request' = request
      /\ matched' = fed.matched /\ out' = out \o (fed.text \o fed.pending)
      /\ finish' = IF fed.matched # NoStop THEN "stop" ELSE finish
  BY DEF EndFlushed, Yield, callVars
<1>6. Decoded' = d
  BY <1>5 DEF Decoded, d
<1> HIDE DEF d, stops
<1>7. released \in 0..Len(d) /\ Len(d) \in 0..Len(d)
  <2>1. released \in 0..Sure(d) /\ Sure(d) <= Len(d) /\ Sure(d) \in Int
    BY <1>3, <1>4 DEF Split, Sure
  <2> QED
    BY <1>3, <2>1
<1>8. chars \in Seq(Characters) /\ FirstChars(d, released) \o chars = d
  BY <1>3, <1>7, SliceFacts DEF After
<1>9. /\ d = (out \o pending) \o chars
      /\ out \in Seq(Characters) /\ pending \in Seq(Characters)
      /\ Hits(stops, out \o pending) = {}
      /\ OpenWithin(stops, out \o pending, Len(pending))
  BY <1>4, <1>8 DEF Split
<1> HIDE DEF chars, fed
<1>10. /\ fed.text \in Seq(Characters) /\ fed.pending \in Seq(Characters)
       /\ d \in Seq(Characters) /\ out \o fed.text \in Seq(Characters)
       /\ Hits(stops, d) # {} =>
            /\ fed.pending = <<>>
            /\ out \o fed.text = FirstChars(d, Min(Hits(stops, d)) - 1)
            /\ fed.matched = Match(stops, d).stop
            /\ fed.matched # NoStop
       /\ Hits(stops, d) = {} =>
            /\ fed.matched = NoStop
            /\ (out \o fed.text) \o fed.pending = d
            /\ OpenWithin(stops, d, Len(fed.pending))
            /\ fed.pending # <<>> =>
                 \E q \in DOMAIN stops : IsStrictPrefix(fed.pending, stops[q])
  BY <1>2, <1>8, <1>9, FeedFacts DEF fed, stops
<1>11. out \o (fed.text \o fed.pending) = (out \o fed.text) \o fed.pending
  <2> DEFINE v == fed.text  w == fed.pending
  <2>1. v \in Seq(Characters) /\ w \in Seq(Characters) /\ out \in Seq(Characters)
    BY <1>9, <1>10
  <2> HIDE DEF v, w
  <2>2. (out \o v) \o w = out \o (v \o w)
    BY <2>1, SMTT(40)
  <2> QED
    BY <2>2 DEF v, w
<1>12. request.stops' = stops
  BY <1>5 DEF stops
<1>13. text' \in Seq(Characters)
  <2>1. text' = fed.text \o fed.pending
    BY DEF EndFlushed, fed, chars, d
  <2> QED
    BY <1>10, <2>1, ConcatProperties
<1>14. CASE Hits(stops, d) = {}
  <2>1. out' = d /\ matched' = NoStop
    BY <1>5, <1>10, <1>11, <1>14
  <2> QED
    BY <1>6, <1>12, <1>13, <1>14, <2>1 DEF AnswerExact
<1>15. CASE Hits(stops, d) # {}
  <2>1. (out \o fed.text) \o <<>> = out \o fed.text
    BY <1>10, ConcatProperties, EmptySeq
  <2>2. /\ out' = FirstChars(d, Min(Hits(stops, d)) - 1)
        /\ matched' = Match(stops, d).stop
        /\ finish' = "stop"
    BY <1>5, <1>10, <1>11, <1>15, <2>1
  <2> QED
    BY <1>6, <1>12, <1>13, <1>15, <2>2 DEF AnswerExact
<1> QED
  BY <1>14, <1>15

LEMMA AnswerInit == Init => AnswerInv
<1> SUFFICES ASSUME Init PROVE AnswerInv
  OBVIOUS
<1> DEFINE none == <<>>
<1>1. /\ generated = none /\ released = 0 /\ pending = none /\ matched = NoStop
      /\ out = none /\ pc = "encode" /\ request \in Requests
  BY DEF Init
<1>2. none \in Seq(Characters) /\ none \in Seq(Seq(Characters)) /\ Len(none) = 0
  BY EmptySeq
<1>3. Decode(none) = none
  <2>1. FlattenSeq(none) = none
    BY DEF FlattenSeq
  <2>2. PICK f : Decodes(f, none) /\ Decode(none) = f[1]
    BY <1>2, <2>1, DecodeIs
  <2> HIDE DEF none
  <2>3. f[0 + 1] = <<>>
    BY <1>2, <2>2 DEF Decodes
  <2> QED
    BY <2>2, <2>3 DEF none
<1>4. none \o none = none /\ FirstChars(none, 0) = none
  BY DEF FirstChars
<1> HIDE DEF none
<1>5. \A stops \in Seq(Parts) : Hits(stops, none) = {} /\ OpenWithin(stops, none, 0)
  <2> SUFFICES ASSUME NEW stops \in Seq(Parts)
               PROVE  Hits(stops, none) = {} /\ OpenWithin(stops, none, 0)
    OBVIOUS
  <2>1. Hits(stops, none) \in SUBSET (1..0)
    <3>1. Hits(stops, none) \in SUBSET (1..Len(none))
      BY <1>2, HitsFacts
    <3> QED
      BY <1>2, <3>1
  <2>2. OpenWithin(stops, none, 0)
    BY <1>2 DEF OpenWithin
  <2> QED
    BY <2>1, <2>2
<1>6. request.stops \in Seq(Parts)
  BY <1>1, StopsType
<1>7. Sure(none) = 0
  BY <1>2 DEF Sure, none
<1>8. Split(request.stops, none, 0, none, none)
  BY <1>2, <1>4, <1>5, <1>6, <1>7 DEF Split, none
<1>9. AllSplit
  BY <1>1, <1>3, <1>8 DEF AllSplit, Decoded
<1> QED
  BY <1>1, <1>9 DEF AnswerInv, CutInTheLoop, AnswerExact

LEMMA AnswerStep == CompletionInv /\ AnswerInv /\ [Next]_vars => AnswerInv'
<1> SUFFICES ASSUME CompletionInv, AnswerInv, [Next]_vars
             PROVE  AnswerInv'
  OBVIOUS
<1>1. AllSplit /\ CutInTheLoop /\ AnswerExact
  BY DEF AnswerInv
<1> DEFINE state == <<request, generated, released, pending, matched, text, out>>
<1>2. ASSUME UNCHANGED state, Feeding, Feeding', pc' # "done",
             matched # NoStop => pc' # "end"
      PROVE  AnswerInv'
  <2>1. /\ request' = request /\ generated' = generated /\ released' = released
        /\ pending' = pending /\ matched' = matched /\ out' = out
    BY <1>2
  <2>2. Decoded' = Decoded
    BY <2>1 DEF Decoded
  <2>3. AllSplit'
    BY <1>1, <1>2, <2>1, <2>2 DEF AllSplit
  <2> QED
    BY <1>2, <2>1, <2>3 DEF AnswerInv, CutInTheLoop, AnswerExact
<1>3. CASE Encode
  <2>1. UNCHANGED state /\ pc = "encode" /\ pc' = "decode"
    BY <1>3 DEF Encode, textVars
  <2> QED
    BY <1>2, <2>1 DEF Feeding
<1>4. CASE DecodeStep
  <2>1. UNCHANGED state /\ pc = "decode" /\ pc' = "choose"
    BY <1>4 DEF DecodeStep, textVars, callVars
  <2> QED
    BY <1>2, <2>1 DEF Feeding
<1>5. CASE TakeEos
  <2>1. UNCHANGED state /\ pc = "choose" /\ pc' = "end"
    BY <1>5 DEF TakeEos, textVars, callVars
  <2>2. Feeding /\ matched = NoStop /\ matched' = NoStop
    BY <1>1, <2>1 DEF Feeding, AllSplit
  <2> QED
    BY <1>2, <2>1, <2>2 DEF Feeding
<1>6. CASE Take
  <2>1. AllSplit' /\ CutInTheLoop'
    BY <1>1, <1>6, TakeStep
  <2>2. pc' # "done"
    BY <1>6 DEF Take
  <2> QED
    BY <2>1, <2>2 DEF AnswerInv, AnswerExact
<1>7. CASE EndMatched
  <2>1. /\ request' = request /\ generated' = generated /\ matched' = matched
        /\ out' = out \o text /\ finish' = finish
        /\ pc = "end" /\ matched # NoStop /\ pc' = "done"
    BY <1>7 DEF EndMatched, textVars, callVars, Yield
  <2>2. Decoded' = Decoded
    BY <2>1 DEF Decoded
  <2>3. CutAt(request.stops, Decoded, out \o text, matched) /\ finish = "stop"
    BY <1>1, <2>1 DEF CutInTheLoop
  <2>4. AnswerExact'
    BY <2>1, <2>2, <2>3 DEF AnswerExact, CutAt
  <2> QED
    BY <2>1, <2>4 DEF AnswerInv, AllSplit, Feeding, CutInTheLoop
<1>8. CASE EndFlushed
  <2>1. AnswerExact'
    BY <1>1, <1>8, FlushStep
  <2>2. pc' = "done"
    BY <1>8 DEF EndFlushed
  <2> QED
    BY <2>1, <2>2 DEF AnswerInv, AllSplit, Feeding, CutInTheLoop
<1>9. CASE UNCHANGED vars
  <2>1. /\ request' = request /\ generated' = generated /\ released' = released
        /\ pending' = pending /\ matched' = matched /\ text' = text /\ out' = out
        /\ pc' = pc /\ finish' = finish
    BY <1>9 DEF vars, callVars, textVars
  <2>2. Decoded' = Decoded /\ Feeding' = Feeding
    BY <2>1 DEF Decoded, Feeding
  <2> QED
    BY <1>1, <2>1, <2>2 DEF AnswerInv, AllSplit, CutInTheLoop, AnswerExact
<1> QED
  BY <1>3, <1>4, <1>5, <1>6, <1>7, <1>8, <1>9 DEF Next

LEMMA AnswerInvariant == Spec => [](CompletionInv /\ AnswerInv)
<1>1. Init => CompletionInv /\ AnswerInv
  BY CompletionInit, AnswerInit
<1>2. CompletionInv /\ AnswerInv /\ [Next]_vars => (CompletionInv /\ AnswerInv)'
  BY CompletionStep, AnswerStep
<1> QED
  BY <1>1, <1>2, PTL DEF Spec

\* A caller gets the generated text up to the earliest stop sequence in it, or
\* all of it, and is told which one: StreamDetokenizer and StopMatcher never
\* change, lose or repeat a character, however the text is cut into tokens.
THEOREM AnswerIsExact == Spec => []AnswerExact
<1>1. AnswerInv => AnswerExact
  BY DEF AnswerInv
<1> QED
  BY <1>1, AnswerInvariant, PTL

\* Between two tokens the stream holds back only half a character or what may
\* still become a stop sequence.
THEOREM HeldIsNeeded == Spec => []HeldOnlyIfNeeded
<1>1. CompletionInv /\ AnswerInv => HeldOnlyIfNeeded
  <2> DEFINE d == Decoded  held == After(d, Len(out))
  <2> SUFFICES ASSUME CompletionInv, AnswerInv, pc = "decode", held # <<>>
               PROVE  \/ Last(held) = Bad
                      \/ \E r \in DOMAIN request.stops : IsStrictPrefix(held, request.stops[r])
    BY DEF HeldOnlyIfNeeded
  <2>1. Split(request.stops, d, released, out, pending)
    BY DEF AnswerInv, AllSplit, Feeding
  <2>2. d \in Seq(Characters) /\ Len(d) \in Nat /\ Len(out) \in Nat /\ Len(pending) \in Nat
    BY <2>1, BytesAreText, DecodeType, LenProperties DEF Split, CompletionInv, TokensTyped, Decoded
  <2> HIDE DEF d
  <2>3. released \in 0..Len(d)
    <3>1. released \in 0..Sure(d) /\ Sure(d) <= Len(d) /\ Sure(d) \in Int
      BY <2>1, <2>2 DEF Split, Sure
    <3> QED
      BY <2>2, <3>1
  <2>4. Len(out) + Len(pending) = released
    <3>1. Len(FirstChars(d, released)) = released
      BY <2>2, <2>3, FirstCharsType
    <3>2. Len(out \o pending) = Len(out) + Len(pending)
      BY <2>1, ConcatProperties DEF Split
    <3> QED
      BY <2>1, <3>1, <3>2 DEF Split
  <2>5. Len(out) < Len(d) /\ Len(held) = Len(d) - Len(out) /\ held \in Seq(Characters)
        /\ \A i \in 1..(Len(d) - Len(out)) : held[i] = d[Len(out) + i]
    <3> DEFINE a == Len(out)  l == Len(d)
    <3>1. a \in Nat /\ l \in Nat /\ a <= l
      BY <2>2, <2>3, <2>4
    <3>2. \A i \in (a + 1)..l : d[i] \in Characters
      <4>1. \A i \in (a + 1)..l : i \in 1..l
        BY <3>1
      <4> QED
        BY <2>2, <4>1, ElementOfSeq
    <3>3. held = SubSeq(d, a + 1, l)
      BY DEF After
    <3> HIDE DEF a, l, held
    <3>4. held \in Seq(Characters) /\ Len(held) = l - a
          /\ \A i \in 1..(l - a) : held[i] = d[a + i]
      BY <3>1, <3>2, <3>3, SubSeqProperties
    <3>5. a # l
      <4> SUFFICES ASSUME a = l PROVE FALSE
        OBVIOUS
      <4>1. Len(held) = 0
        BY <3>1, <3>4
      <4> QED
        BY <3>4, <4>1, EmptySeq DEF held
    <3> QED
      BY <3>1, <3>4, <3>5 DEF a, l
  <2>6. CASE released = Len(d)
    <3> DEFINE a == Len(out)  l == Len(d)  m == Len(pending)
    <3>1. out \o pending = d
      <4>1. FirstChars(d, Len(d)) = d
        <5>1. Len(d) \in 0..Len(d) /\ 0 \in 0..Len(d)
          BY <2>2
        <5> QED
          BY <2>2, <5>1, SliceFacts
      <4> QED
        BY <2>1, <2>6, <4>1 DEF Split
    <3>2. \A i \in 1..(a + m) : d[i] = IF i <= a THEN out[i] ELSE pending[i - a]
      BY <2>1, <3>1, ConcatProperties DEF Split
    <3>3. a \in Nat /\ m \in Nat /\ l = a + m /\ Len(held) = m
      BY <2>2, <2>4, <2>5, <2>6
    <3>4. \A i \in 1..m : held[i] = d[a + i]
      BY <2>2, <2>4, <2>5, <2>6
    <3> HIDE DEF a, l, held
    <3>5. \A i \in 1..m : held[i] = pending[i]
      <4> SUFFICES ASSUME NEW i \in 1..m PROVE held[i] = pending[i]
        OBVIOUS
      <4> HIDE DEF m
      <4>1. a + i \in 1..(a + m) /\ ~(a + i <= a) /\ (a + i) - a = i
        BY <3>3
      <4> QED
        BY <3>2, <3>4, <4>1
    <3>6. held = pending
      BY <2>1, <2>5, <3>3, <3>5, SeqEqual DEF Split
    <3> QED
      BY <2>1, <3>6 DEF Split, held
  <2>7. CASE released # Len(d)
    <3>1. Last(d) = Bad
      BY <2>1, <2>7 DEF Split, CutShort
    <3>2. Last(held) = held[Len(held)] /\ Last(d) = d[Len(d)]
      BY DEF Last
    <3> HIDE DEF held
    <3>3. Last(held) = d[Len(d)]
      <4>1. Len(d) - Len(out) \in 1..(Len(d) - Len(out)) /\ Len(out) + (Len(d) - Len(out)) = Len(d)
        BY <2>2, <2>5
      <4> QED
        BY <2>5, <3>2, <4>1
    <3> QED
      BY <3>1, <3>2, <3>3 DEF held
  <2> QED
    BY <2>6, <2>7
<1> QED
  BY <1>1, AnswerInvariant, PTL

-----------------------------------------------------------------------------
(* The bytes of a text *)

Width(c) == 1 + (IF c = Wide THEN 1 ELSE 0) + (IF c = Bad THEN 2 ELSE 0)

LEMMA BytesType ==
  ASSUME NEW s \in Seq(Characters)
  PROVE  Bytes(s) \in Nat /\ Len(s) <= Bytes(s)
<1>1. Bytes(s) = Len(s) + Number(s, Wide) + 2 * Number(s, Bad)
  BY DEF Bytes, Number, Places
<1>2. Len(s) \in Nat /\ Number(s, Wide) \in Nat /\ Number(s, Bad) \in Nat
  BY LenProperties, PlacesFinite
<1> QED
  BY <1>1, <1>2

LEMMA BytesConcat ==
  ASSUME NEW s \in Seq(Characters), NEW t \in Seq(Characters)
  PROVE  Bytes(s \o t) = Bytes(s) + Bytes(t)
<1> DEFINE u == s \o t
<1>1. /\ Bytes(s) = Len(s) + Number(s, Wide) + 2 * Number(s, Bad)
      /\ Bytes(t) = Len(t) + Number(t, Wide) + 2 * Number(t, Bad)
      /\ Bytes(u) = Len(u) + Number(u, Wide) + 2 * Number(u, Bad)
  BY DEF Bytes, Number, Places
<1>2. /\ Len(s) \in Nat /\ Number(s, Wide) \in Nat /\ Number(s, Bad) \in Nat
      /\ Len(t) \in Nat /\ Number(t, Wide) \in Nat /\ Number(t, Bad) \in Nat
  BY LenProperties, PlacesFinite
<1>3. /\ Number(u, Wide) = Number(s, Wide) + Number(t, Wide)
      /\ Number(u, Bad) = Number(s, Bad) + Number(t, Bad)
  BY NumberConcat
<1>4. Len(u) = Len(s) + Len(t)
  BY ConcatProperties
<1> HIDE DEF u
<1>5. Bytes(u) = Bytes(s) + Bytes(t)
  BY <1>1, <1>2, <1>3, <1>4
<1> QED
  BY <1>5 DEF u

LEMMA BytesOfOne ==
  ASSUME NEW c \in Characters
  PROVE  <<c>> \in Seq(Characters) /\ Bytes(<<c>>) = Width(c) /\ Bytes(<<>>) = 0
<1> DEFINE a == <<c>>
<1>1. DOMAIN a = 1..1 /\ a[1] = c /\ Len(a) = 1 /\ a \in Seq(Characters)
  OBVIOUS
<1> HIDE DEF a
<1>2. \A x : Places(a, x) = IF c = x THEN 1..1 ELSE {}
  <2> SUFFICES ASSUME NEW x PROVE Places(a, x) = IF c = x THEN 1..1 ELSE {}
    OBVIOUS
  <2>1. \A i \in 1..1 : i = 1
    OBVIOUS
  <2>2. \A i \in 1..1 : a[i] = x <=> c = x
    BY <1>1, <2>1
  <2> QED
    BY <1>1, <2>2 DEF Places
<1>3. Cardinality(1..1) = 1 /\ Cardinality({}) = 0
  <2>1. Cardinality(1..1) = 1
    <3>1. \A n \in Int : Cardinality(n..n) = IF n > n THEN 0 ELSE n - n + 1
      BY FS_Interval
    <3> QED
      BY <3>1
  <2>2. Cardinality({}) = 0
    BY FS_EmptySet
  <2> QED
    BY <2>1, <2>2
<1>4. \A x : Number(a, x) = IF c = x THEN 1 ELSE 0
  BY <1>2, <1>3 DEF Number
<1>5. Bytes(a) = Len(a) + Number(a, Wide) + 2 * Number(a, Bad)
  BY DEF Bytes, Number, Places
<1>6. Bytes(a) = Width(c)
  BY <1>1, <1>4, <1>5 DEF Width
<1>7. Bytes(<<>>) = 0
  <2> DEFINE none == <<>>
  <2>1. DOMAIN none = {} /\ Len(none) = 0
    OBVIOUS
  <2>2. Bytes(none) = Len(none) + Number(none, Wide) + 2 * Number(none, Bad)
    BY DEF Bytes, Number, Places
  <2> HIDE DEF none
  <2>3. Places(none, Wide) = {} /\ Places(none, Bad) = {}
    BY <2>1 DEF Places
  <2>4. Number(none, Wide) = 0 /\ Number(none, Bad) = 0
    BY <1>3, <2>3 DEF Number
  <2>5. Bytes(none) = 0
    BY <2>1, <2>2, <2>4
  <2> QED
    BY <2>5 DEF none
<1> QED
  BY <1>1, <1>6, <1>7 DEF a

\* The first characters of a text, counted from its first one.
LEMMA FirstByte ==
  ASSUME NEW c \in Characters, NEW s \in Seq(Characters), NEW j \in 1..(Len(s) + 1)
  PROVE  /\ j - 1 \in 0..Len(s)
         /\ Bytes(FirstChars(<<c>> \o s, j)) = Width(c) + Bytes(FirstChars(s, j - 1))
<1> DEFINE a == <<c>>
<1>1. a \in Seq(Characters) /\ Len(a) = 1 /\ Len(s) \in Nat
  BY LenProperties
<1>2. j - 1 \in 0..Len(s) /\ 1 + (j - 1) = j
  BY <1>1
<1>3. Bytes(a) = Width(c)
  BY BytesOfOne
<1> HIDE DEF a
<1>4. a \o FirstChars(s, j - 1) = FirstChars(a \o s, Len(a) + (j - 1))
  BY <1>1, <1>2, FirstOfConcat
<1>5. FirstChars(s, j - 1) \in Seq(Characters)
  BY <1>2, FirstCharsType
<1>6. Bytes(a \o FirstChars(s, j - 1)) = Bytes(a) + Bytes(FirstChars(s, j - 1))
  BY <1>1, <1>5, BytesConcat
<1> QED
  BY <1>1, <1>2, <1>3, <1>4, <1>6 DEF a

LEMMA BytesEmpty == Bytes(<<>>) = 0
BY BytesOfOne, CompletionAssumption

\* A character that is decoded as one has as many bytes as are skipped for it.
LEMMA WidthIsSkipped ==
  ASSUME NEW b \in Seq(SingleBytes), NEW i \in 1..Len(b), Char(b, i) # Bad
  PROVE  Width(Char(b, i)) = Skip(b, i) - i
<1>1. b[i] \in SingleBytes /\ i \in Int
  BY ElementOfSeq
<1>2. Wide # Bad /\ b[i] # Wide /\ b[i] # Bad
  BY <1>1 DEF SingleBytes, Wide, Bad
<1>3. CASE WideAt(b, i)
  <2>1. Char(b, i) = Wide /\ Skip(b, i) = i + 2
    BY <1>3 DEF Char, Skip
  <2>2. Width(Wide) = 2
    BY <1>2 DEF Width
  <2> QED
    BY <1>1, <2>1, <2>2
<1>4. CASE ~WideAt(b, i)
  <2>1. Char(b, i) = b[i] /\ Skip(b, i) = i + 1
    BY <1>4 DEF Char, Skip
  <2>2. Width(b[i]) = 1
    BY <1>2 DEF Width
  <2> QED
    BY <1>1, <2>1, <2>2
<1> QED
  BY <1>3, <1>4

LEMMA SingleBytesType ==
  ASSUME NEW b \in Seq(SingleBytes)
  PROVE  b \in Seq(Characters) /\ Len(b) \in Nat
<1>1. SingleBytes \subseteq Characters
  BY DEF SingleBytes
<1> QED
  BY <1>1, SeqMonotonic, LenProperties

\* Valid text is not longer than the bytes it is decoded from.
LEMMA BytesOfText ==
  ASSUME NEW b \in Seq(SingleBytes), NEW f, Decodes(f, b), NEW m \in 0..Len(f[1]),
         \A q \in 1..m : f[1][q] # Bad
  PROVE  Bytes(FirstChars(f[1], m)) <= Len(b)
<1> DEFINE n == Len(b)
           Short(i) == \A j \in 0..Len(f[i]) :
                          (\A q \in 1..j : f[i][q] # Bad) =>
                             Bytes(FirstChars(f[i], j)) <= n + 1 - i
           S == {k \in Nat : k <= n => Short(n + 1 - k)}
<1>1. b \in Seq(Characters) /\ n \in Nat
  BY SingleBytesType
<1>2. /\ f \in [1..(n + 1) -> Seq(Characters)] /\ f[n + 1] = <<>>
      /\ \A i \in 1..n : f[i] = <<Char(b, i)>> \o f[Skip(b, i)]
  BY DEF Decodes
<1>3. ASSUME NEW k \in Nat, \A l \in Nat : l < k => l \in S
      PROVE  k \in S
  <2> SUFFICES ASSUME k <= n PROVE Short(n + 1 - k)
    OBVIOUS
  <2> DEFINE i == n + 1 - k
  <2>1. i \in 1..(n + 1) /\ n + 1 - k = i
    BY <1>1
  <2>2. f[i] \in Seq(Characters) /\ Len(f[i]) \in Nat
    BY <1>2, <2>1, LenProperties
  <2> HIDE DEF i
  <2>3. ASSUME NEW j \in 0..Len(f[i]), \A q \in 1..j : f[i][q] # Bad
        PROVE  Bytes(FirstChars(f[i], j)) <= n + 1 - i
    <3>1. CASE j = 0
      <4>1. FirstChars(f[i], 0) = <<>>
        BY <2>2 DEF FirstChars
      <4> QED
        BY <1>1, <2>1, <3>1, <4>1, BytesEmpty
    <3>2. CASE j # 0 /\ i = n + 1
      <4>1. Len(f[i]) = 0
        BY <1>2, <3>2, EmptySeq
      <4> QED
        BY <3>2, <4>1
    <3>3. CASE j # 0 /\ i # n + 1
      <4>1. i \in 1..n /\ j \in 1..Len(f[i]) /\ 1 \in 1..j
        BY <1>1, <2>1, <2>2, <3>3
      <4> DEFINE c == Char(b, i)  e == Skip(b, i)
      <4>2. c \in Characters /\ e \in 1..(n + 1) /\ e > i /\ f[i] = <<c>> \o f[e] /\ f[e] \in Seq(Characters)
        BY <1>1, <1>2, <4>1, CharFacts
      <4>3. Len(f[i]) = Len(f[e]) + 1 /\ f[i][1] = c
            /\ \A q \in 1..Len(f[e]) : f[i][q + 1] = f[e][q]
        <5> HIDE DEF c, e
        <5> QED
          BY <4>2, SureFacts
      <4>4. c # Bad
        BY <2>3, <4>1, <4>3
      <4>5. Width(c) = e - i
        BY <4>1, <4>4, WidthIsSkipped
      <4> DEFINE l == n + 1 - e
      <4>6. l \in Nat /\ l < k /\ l <= n /\ n + 1 - l = e
        <5> HIDE DEF c, e
        <5> QED
          BY <1>1, <4>2 DEF i
      <4> HIDE DEF l, c, e
      <4>7. Short(e)
        <5>1. l \in S
          <6> HIDE DEF S
          <6> QED
            BY <1>3, <4>6
        <5> HIDE DEF Short
        <5> QED
          BY <4>6, <5>1
      <4>8. /\ j - 1 \in 0..Len(f[e])
            /\ Bytes(FirstChars(f[i], j)) = Width(c) + Bytes(FirstChars(f[e], j - 1))
        <5>1. j \in 1..(Len(f[e]) + 1)
          BY <4>1, <4>3
        <5> QED
          BY <4>2, <5>1, FirstByte
      <4>9. \A q \in 1..(j - 1) : f[e][q] # Bad
        <5> SUFFICES ASSUME NEW q \in 1..(j - 1) PROVE f[e][q] # Bad
          OBVIOUS
        <5>1. q + 1 \in 1..j /\ q \in 1..Len(f[e])
          <6>1. Len(f[e]) \in Nat
            BY <4>2, LenProperties
          <6> QED
            BY <4>8, <6>1
        <5> QED
          BY <2>3, <4>3, <5>1
      <4>10. Bytes(FirstChars(f[e], j - 1)) <= n + 1 - e
        BY <4>7, <4>8, <4>9
      <4>11. Bytes(FirstChars(f[e], j - 1)) \in Nat
        <5>1. FirstChars(f[e], j - 1) \in Seq(Characters)
          BY <4>2, <4>8, FirstCharsType
        <5> QED
          BY <5>1, BytesType
      <4> DEFINE x == Bytes(FirstChars(f[e], j - 1))  y == Bytes(FirstChars(f[i], j))
      <4>12. x \in Nat /\ x <= n + 1 - e /\ y = (e - i) + x
        BY <4>5, <4>8, <4>10, <4>11
      <4> HIDE DEF x, y
      <4>13. y <= n + 1 - i
        BY <1>1, <2>1, <4>2, <4>12
      <4> QED
        BY <4>13 DEF y
    <3> QED
      BY <3>1, <3>2, <3>3
  <2>4. Short(i)
    BY <2>3
  <2> HIDE DEF Short
  <2> QED
    BY <2>1, <2>4
<1>4. n \in S
  <2>1. \A k \in Nat : k \in S
    <3> HIDE DEF S
    <3> QED
      BY <1>3, StrongInduction
  <2> QED
    BY <1>1, <2>1
<1>5. Short(1)
  <2>1. n + 1 - n = 1
    BY <1>1
  <2> HIDE DEF Short
  <2> QED
    BY <1>1, <1>4, <2>1
<1>6. Bytes(FirstChars(f[1], m)) <= n + 1 - 1
  <2> HIDE DEF n
  <2> QED
    BY <1>5
<1> QED
  BY <1>1, <1>6

\* Valid text that goes beyond what is sure of the text of b has more bytes.
LEMMA BytesBeyond ==
  ASSUME NEW b \in Seq(SingleBytes), NEW x \in Seq(SingleBytes),
         NEW f, Decodes(f, b), NEW g, Decodes(g, b \o x),
         NEW m \in 0..Len(g[1]), m > Sure(f[1]), \A q \in 1..m : g[1][q] # Bad
  PROVE  Bytes(FirstChars(g[1], m)) > Len(b)
<1> DEFINE n == Len(b)  d == b \o x  l == Len(d)
           Long(i) == \A j \in 0..Len(g[i]) :
                         j > Sure(f[i]) /\ (\A q \in 1..j : g[i][q] # Bad) =>
                            Bytes(FirstChars(g[i], j)) > n + 1 - i
           S == {k \in Nat : k <= n => Long(n + 1 - k)}
<1>1. /\ b \in Seq(Characters) /\ n \in Nat /\ d \in Seq(SingleBytes) /\ d \in Seq(Characters)
      /\ l = n + Len(x) /\ Len(x) \in Nat
      /\ \A i \in 1..n : d[i] = b[i]
  <2>1. /\ d \in Seq(SingleBytes) /\ l = n + Len(x) /\ \A i \in 1..n : d[i] = b[i]
        /\ n \in Nat /\ Len(x) \in Nat
    BY ConcatProperties, LenProperties
  <2> HIDE DEF d, n
  <2> QED
    BY <2>1, SingleBytesType
<1> HIDE DEF d
<1>2. /\ f \in [1..(n + 1) -> Seq(Characters)] /\ f[n + 1] = <<>>
      /\ \A i \in 1..n : f[i] = <<Char(b, i)>> \o f[Skip(b, i)]
  BY DEF Decodes
<1>3. /\ g \in [1..(l + 1) -> Seq(Characters)]
      /\ \A i \in 1..l : g[i] = <<Char(d, i)>> \o g[Skip(d, i)]
  BY DEF Decodes, d
<1> HIDE DEF l
<1>4. ASSUME NEW k \in Nat, \A p \in Nat : p < k => p \in S
      PROVE  k \in S
  <2> SUFFICES ASSUME k <= n PROVE Long(n + 1 - k)
    OBVIOUS
  <2> DEFINE i == n + 1 - k
  <2>1. i \in 1..(n + 1) /\ n + 1 - k = i /\ i \in 1..(l + 1)
    BY <1>1
  <2>2. /\ f[i] \in Seq(Characters) /\ g[i] \in Seq(Characters)
        /\ Len(f[i]) \in Nat /\ Len(g[i]) \in Nat
    BY <1>2, <1>3, <2>1, LenProperties
  <2>3. Sure(f[i]) \in Nat
    BY <2>2, CompletionAssumption, SureFacts
  <2> HIDE DEF i
  <2>4. ASSUME NEW j \in 0..Len(g[i]), j > Sure(f[i]), \A q \in 1..j : g[i][q] # Bad
        PROVE  Bytes(FirstChars(g[i], j)) > n + 1 - i
    <3> DEFINE y == Bytes(FirstChars(g[i], j))
    <3>1. j \in Nat /\ j # 0 /\ 1 \in 1..j
      BY <2>3, <2>4
    <3>2. y \in Nat /\ j <= y
      <4>1. FirstChars(g[i], j) \in Seq(Characters) /\ Len(FirstChars(g[i], j)) = j
        BY <2>2, FirstCharsType
      <4> QED
        BY <4>1, BytesType
    <3> HIDE DEF y
    <3>3. CASE i = n + 1
      <4>1. y > n + 1 - i
        BY <1>1, <3>1, <3>2, <3>3
      <4> QED
        BY <4>1 DEF y
    <3>4. CASE i # n + 1
      <4>1. i \in 1..n /\ i \in 1..l
        BY <1>1, <2>1, <3>4
      <4> DEFINE c == Char(d, i)  e == Skip(d, i)  z == Bytes(FirstChars(g[e], j - 1))
      <4>2. c \in Characters /\ e \in 1..(l + 1) /\ e > i /\ g[i] = <<c>> \o g[e] /\ g[e] \in Seq(Characters)
        <5>1. c \in Characters /\ e \in 1..(l + 1) /\ e > i
          BY <1>1, <4>1, CharFacts DEF l
        <5> QED
          BY <1>3, <4>1, <5>1
      <4>3. Len(g[i]) = Len(g[e]) + 1 /\ g[i][1] = c
            /\ \A q \in 1..Len(g[e]) : g[i][q + 1] = g[e][q]
        <5> HIDE DEF c, e
        <5> QED
          BY <4>2, SureFacts
      <4>4. c # Bad
        BY <2>4, <3>1, <4>3
      <4>5. Width(c) = e - i
        <5>1. i \in 1..Len(d)
          BY <4>1 DEF l
        <5> QED
          BY <1>1, <4>4, <5>1, WidthIsSkipped
      <4>6. j - 1 \in 0..Len(g[e]) /\ y = Width(c) + z
        <5>1. j \in 1..(Len(g[e]) + 1)
          BY <3>1, <4>3
        <5> HIDE DEF c, e
        <5> QED
          BY <4>2, <5>1, FirstByte DEF y
      <4>7. z \in Nat
        <5>1. FirstChars(g[e], j - 1) \in Seq(Characters)
          BY <4>2, <4>6, FirstCharsType
        <5> QED
          BY <5>1, BytesType
      <4>8. CASE i = n /\ b[i] = Lead
        <5>1. WideAt(d, i)
          <6>1. d[i] = Lead
            BY <1>1, <4>1, <4>8
          <6> QED
            BY <4>4, <6>1 DEF Char
        <5>2. e = i + 2
          BY <5>1 DEF Skip
        <5> HIDE DEF c, e, z
        <5>3. y > n + 1 - i
          BY <1>1, <4>5, <4>6, <4>7, <4>8, <5>2
        <5> QED
          BY <5>3 DEF y
      <4>9. CASE i # n \/ b[i] # Lead
        <5>1. Char(b, i) = c /\ Skip(b, i) = e
          <6>1. Len(b) <= Len(d) /\ i \in 1..Len(b) /\ (i # Len(b) \/ b[i] # Lead)
            BY <1>1, <4>1, <4>9 DEF l
          <6>2. \A q \in 1..Len(b) : d[q] = b[q]
            BY <1>1
          <6> QED
            BY <1>1, <6>1, <6>2, SameChar
        <5>2. f[i] = <<c>> \o f[e]
          BY <1>2, <4>1, <5>1
        <5>3. e \in 1..(n + 1) /\ f[e] \in Seq(Characters)
          <6>1. e \in 1..(n + 1)
            BY <1>1, <4>1, <5>1, CharFacts
          <6> QED
            BY <1>2, <6>1
        <5> HIDE DEF c, e
        <5>4. Sure(f[i]) = Sure(f[e]) + 1 /\ Sure(f[e]) \in Nat
          <6>1. /\ Sure(f[e]) \in Nat
                /\ Sure(f[i]) = IF f[e] = <<>> THEN (IF c = Bad THEN 0 ELSE 1) ELSE Sure(f[e]) + 1
            BY <4>2, <5>2, <5>3, SureFacts, SMTT(40)
          <6>2. f[e] = <<>> => Sure(f[e]) = 0
            BY EmptySeq DEF Sure
          <6> QED
            BY <4>4, <6>1, <6>2
        <5> DEFINE p == n + 1 - e
        <5>5. p \in Nat /\ p < k /\ p <= n /\ n + 1 - p = e
          BY <1>1, <4>2, <5>3 DEF i
        <5> HIDE DEF p
        <5>6. Long(e)
          <6>1. p \in S
            <7> HIDE DEF S
            <7> QED
              BY <1>4, <5>5
          <6> HIDE DEF Long
          <6> QED
            BY <5>5, <6>1
        <5>7. j - 1 > Sure(f[e])
          BY <2>4, <3>1, <5>4
        <5>8. \A q \in 1..(j - 1) : g[e][q] # Bad
          <6> SUFFICES ASSUME NEW q \in 1..(j - 1) PROVE g[e][q] # Bad
            OBVIOUS
          <6>1. q + 1 \in 1..j /\ q \in 1..Len(g[e])
            <7>1. Len(g[e]) \in Nat
              BY <4>2, LenProperties
            <7> QED
              BY <4>6, <7>1
          <6> QED
            BY <2>4, <4>3, <6>1
        <5>9. z > n + 1 - e
          BY <4>6, <5>6, <5>7, <5>8
        <5> HIDE DEF z
        <5>10. y > n + 1 - i
          BY <1>1, <2>1, <4>5, <4>6, <4>7, <5>3, <5>9
        <5> QED
          BY <5>10 DEF y
      <4> QED
        BY <4>8, <4>9
    <3> QED
      BY <3>3, <3>4
  <2>5. Long(i)
    BY <2>4
  <2> HIDE DEF Long
  <2> QED
    BY <2>1, <2>5
<1>5. n \in S
  <2>1. \A k \in Nat : k \in S
    <3> HIDE DEF S
    <3> QED
      BY <1>4, StrongInduction
  <2> QED
    BY <1>1, <2>1
<1>6. Long(1)
  <2>1. n + 1 - n = 1
    BY <1>1
  <2> HIDE DEF Long
  <2> QED
    BY <1>1, <1>5, <2>1
<1>7. Bytes(FirstChars(g[1], m)) > n + 1 - 1
  <2> HIDE DEF n
  <2> QED
    BY <1>6
<1>8. n + 1 - 1 = n
  BY <1>1
<1> QED
  BY <1>7, <1>8

LEMMA FirstOfFirst ==
  ASSUME NEW T, NEW s \in Seq(T), NEW n \in 0..Len(s), NEW m \in 0..n
  PROVE  FirstChars(FirstChars(s, n), m) = FirstChars(s, m)
<1> DEFINE u == FirstChars(s, n)  v == FirstChars(u, m)  w == FirstChars(s, m)
<1>1. n \in Nat /\ m \in 0..Len(s) /\ Len(s) \in Nat
  BY LenProperties
<1>2. u \in Seq(T) /\ Len(u) = n /\ \A i \in 1..n : u[i] = s[i]
  BY FirstCharsType
<1> HIDE DEF u
<1>3. v \in Seq(T) /\ Len(v) = m /\ \A i \in 1..m : v[i] = u[i]
  BY <1>2, FirstCharsType
<1>4. w \in Seq(T) /\ Len(w) = m /\ \A i \in 1..m : w[i] = s[i]
  BY <1>1, FirstCharsType
<1> HIDE DEF v, w
<1>5. \A i \in 1..m : v[i] = w[i]
  BY <1>1, <1>2, <1>3, <1>4
<1>6. v = w
  BY <1>3, <1>4, <1>5, SeqEqual
<1> QED
  BY <1>6 DEF u, v, w

LEMMA FirstOfAppend ==
  ASSUME NEW T, NEW s \in Seq(T), NEW e \in T, NEW n \in 0..Len(s)
  PROVE  FirstChars(Append(s, e), n) = FirstChars(s, n)
<1> DEFINE t == Append(s, e)  u == FirstChars(t, n)  v == FirstChars(s, n)
<1>1. t \in Seq(T) /\ Len(t) = Len(s) + 1 /\ Len(s) \in Nat /\ \A i \in 1..Len(s) : t[i] = s[i]
  BY AppendProperties, LenProperties
<1> HIDE DEF t
<1>2. u \in Seq(T) /\ Len(u) = n /\ \A i \in 1..n : u[i] = t[i]
  <2>1. n \in 0..Len(t)
    BY <1>1
  <2> QED
    BY <1>1, <2>1, FirstCharsType
<1>3. v \in Seq(T) /\ Len(v) = n /\ \A i \in 1..n : v[i] = s[i]
  BY FirstCharsType
<1> HIDE DEF u, v
<1>4. \A i \in 1..n : u[i] = v[i]
  BY <1>1, <1>2, <1>3, SMTT(40)
<1>5. u = v
  BY <1>2, <1>3, <1>4, SeqEqual
<1> QED
  BY <1>5 DEF t, u, v

\* The bytes of the first tokens begin the bytes of all.
LEMMA FlattenPrefix ==
  ASSUME NEW T, NEW ss \in Seq(Seq(T)), NEW n \in 0..Len(ss)
  PROVE  \E x \in Seq(T) : FlattenSeq(ss) = FlattenSeq(FirstChars(ss, n)) \o x
<1> DEFINE l == Len(ss)  b == FlattenSeq(FirstChars(ss, n))
           Begun(i) == \E x \in Seq(T) : FlattenSeq(FirstChars(ss, i)) = b \o x
           S == {k \in Nat : n + k <= l => Begun(n + k)}
<1>1. l \in Nat /\ n \in Nat /\ n <= l /\ FirstChars(ss, l) = ss
  BY LenProperties DEF FirstChars
<1>2. b \in Seq(T)
  BY FirstCharsType, FlattenType
<1> HIDE DEF b
<1>3. 0 \in S
  <2>1. b \o <<>> = b /\ <<>> \in Seq(T) /\ n + 0 = n
    BY <1>1, <1>2, ConcatEmptySeq, EmptySeq
  <2>2. Begun(n)
    BY <2>1 DEF b
  <2> HIDE DEF Begun
  <2> QED
    BY <2>1, <2>2
<1>4. ASSUME NEW k \in Nat, k \in S
      PROVE  k + 1 \in S
  <2> DEFINE i == n + k
  <2> SUFFICES ASSUME n + (k + 1) <= l
               PROVE  Begun(n + (k + 1))
    <3> HIDE DEF Begun
    <3> QED
      OBVIOUS
  <2>1. i \in 0..l /\ i + 1 \in 0..l /\ i + 1 \in 1..l /\ n + (k + 1) = i + 1 /\ n + k <= l
    BY <1>1
  <2>2. PICK x \in Seq(T) : FlattenSeq(FirstChars(ss, i)) = b \o x
    <3>1. Begun(n + k)
      <4> HIDE DEF Begun
      <4> QED
        BY <1>4, <2>1
    <3> QED
      BY <3>1
  <2> HIDE DEF i
  <2> DEFINE u == FirstChars(ss, i)  v == FirstChars(ss, i + 1)  t == ss[i + 1]
  <2>3. u \in Seq(Seq(T)) /\ Len(u) = i /\ \A j \in 1..i : u[j] = ss[j]
    BY <2>1, FirstCharsType
  <2>4. v \in Seq(Seq(T)) /\ Len(v) = i + 1 /\ \A j \in 1..(i + 1) : v[j] = ss[j]
    BY <2>1, FirstCharsType
  <2>5. t \in Seq(T)
    BY <2>1, ElementOfSeq
  <2> HIDE DEF u, v, t
  <2>6. v = Append(u, t)
    <3> DEFINE w == Append(u, t)
    <3>1. w \in Seq(Seq(T)) /\ Len(w) = i + 1 /\ w[i + 1] = t /\ \A j \in 1..i : w[j] = u[j]
      BY <2>3, <2>5, AppendProperties
    <3> HIDE DEF w
    <3>2. \A j \in 1..(i + 1) : w[j] = v[j]
      <4> SUFFICES ASSUME NEW j \in 1..(i + 1) PROVE w[j] = v[j]
        OBVIOUS
      <4>1. CASE j = i + 1
        BY <2>4, <3>1, <4>1 DEF t
      <4>2. CASE j # i + 1
        <5>1. j \in 1..i
          BY <2>1, <4>2
        <5> QED
          BY <2>3, <2>4, <3>1, <5>1
      <4> QED
        BY <4>1, <4>2
    <3>3. v = w
      BY <2>4, <3>1, <3>2, SeqEqual
    <3> QED
      BY <3>3 DEF w
  <2>7. FlattenSeq(v) = FlattenSeq(u) \o t
    BY <2>3, <2>5, <2>6, FlattenAppend
  <2>8. FlattenSeq(v) = b \o (x \o t)
    <3>1. (b \o x) \o t = b \o (x \o t)
      BY <1>2, <2>5, Associative
    <3> QED
      BY <2>2, <2>7, <3>1 DEF u
  <2>9. x \o t \in Seq(T)
    BY <2>5, ConcatProperties
  <2>10. Begun(i + 1)
    BY <2>8, <2>9 DEF v
  <2> HIDE DEF Begun
  <2> QED
    BY <2>1, <2>10
<1>5. PICK k \in Nat : n + k = l
  <2>1. l - n \in Nat /\ n + (l - n) = l
    BY <1>1
  <2> QED
    BY <2>1
<1>6. Begun(l)
  <2>1. k \in S
    <3> HIDE DEF S
    <3> QED
      BY <1>3, <1>4, Induction
  <2> HIDE DEF Begun
  <2>2. Begun(n + k)
    BY <1>1, <1>5, <2>1
  <2> QED
    BY <1>5, <2>2
<1> QED
  BY <1>1, <1>6 DEF b

\* The bytes before a token are less than the yielded text, as long as that is
\* valid, just when the text before the token is not sure beyond it.
LEMMA BytesContributed ==
  ASSUME NEW ts \in Seq(Seq(SingleBytes)), NEW n \in 0..Len(ts),
         NEW j \in 0..Len(Decode(ts)), \A q \in 1..j : Decode(ts)[q] # Bad
  PROVE  /\ Len(FlattenSeq(FirstChars(ts, n))) < Bytes(FirstChars(Decode(ts), j))
              <=> Sure(Decode(FirstChars(ts, n))) < j
         /\ Bytes(FirstChars(Decode(ts), j)) <= Len(FlattenSeq(ts))
<1> DEFINE us == FirstChars(ts, n)  b == FlattenSeq(us)  a == FlattenSeq(ts)
           o == FirstChars(Decode(ts), j)
<1>1. /\ us \in Seq(Seq(SingleBytes))
      /\ us \in Seq(Seq(Characters)) /\ ts \in Seq(Seq(Characters))
  BY FirstCharsType, BytesAreText
<1>2. /\ b \in Seq(SingleBytes) /\ b \in Seq(Characters) /\ Len(b) \in Nat
      /\ a \in Seq(SingleBytes) /\ a \in Seq(Characters) /\ Len(a) \in Nat
  <2>1. b \in Seq(SingleBytes) /\ a \in Seq(SingleBytes)
    BY <1>1, FlattenType
  <2> HIDE DEF a, b
  <2> QED
    BY <2>1, SingleBytesType
<1>3. PICK x \in Seq(SingleBytes) : a = b \o x
  BY FlattenPrefix
<1>4. PICK f : Decodes(f, b) /\ Decode(us) = f[1]
  BY <1>2, DecodeIs
<1>5. PICK g : Decodes(g, a) /\ Decode(ts) = g[1]
  BY <1>2, DecodeIs
<1> HIDE DEF a, b
<1>6. /\ f[1] \in Seq(Characters) /\ g[1] \in Seq(Characters)
      /\ Len(f[1]) \in Nat /\ Len(g[1]) \in Nat
  BY <1>1, <1>4, <1>5, DecodeType, LenProperties
<1>7. o = FirstChars(g[1], j) /\ j \in 0..Len(g[1]) /\ \A q \in 1..j : g[1][q] # Bad
  BY <1>5
<1> HIDE DEF o
<1>8. o \in Seq(Characters) /\ Bytes(o) \in Nat /\ Len(o) = j /\ \A q \in 1..j : o[q] = g[1][q]
  <2>1. o \in Seq(Characters) /\ Len(o) = j /\ \A q \in 1..j : o[q] = g[1][q]
    BY <1>6, <1>7, FirstCharsType
  <2> QED
    BY <2>1, BytesType
<1>9. Bytes(o) <= Len(a)
  BY <1>2, <1>5, <1>7, BytesOfText
<1>10. Sure(f[1]) \in Nat /\ Sure(f[1]) <= Len(f[1])
  BY <1>6, CompletionAssumption, SureFacts
<1>11. CASE Sure(f[1]) < j
  <2>1. Bytes(o) > Len(b)
    BY <1>2, <1>3, <1>4, <1>5, <1>7, <1>10, <1>11, BytesBeyond
  <2> QED
    BY <1>2, <1>4, <1>8, <1>9, <1>11, <2>1 DEF a, b, o
<1>12. CASE ~(Sure(f[1]) < j)
  <2>1. \A q \in 1..Sure(f[1]) : g[1][q] = f[1][q]
    BY <1>2, <1>3, <1>4, <1>5, MoreBytes
  <2>2. j \in 0..Len(f[1]) /\ \A q \in 1..j : q \in 1..Sure(f[1])
    BY <1>6, <1>10, <1>12
  <2>3. \A q \in 1..j : f[1][q] = g[1][q] /\ f[1][q] # Bad
    BY <1>7, <2>1, <2>2
  <2> DEFINE p == FirstChars(f[1], j)
  <2>4. p \in Seq(Characters) /\ Len(p) = j /\ \A q \in 1..j : p[q] = f[1][q]
    BY <1>6, <2>2, FirstCharsType
  <2>5. Bytes(p) <= Len(b)
    BY <1>2, <1>4, <2>2, <2>3, BytesOfText
  <2> HIDE DEF p
  <2>6. \A q \in 1..j : p[q] = o[q]
    BY <1>8, <2>3, <2>4
  <2>7. p = o
    BY <1>8, <2>4, <2>6, SeqEqual
  <2>8. ~(Len(b) < Bytes(o))
    BY <1>2, <1>8, <2>5, <2>7
  <2> QED
    BY <1>4, <1>9, <1>12, <2>8 DEF a, b, o
<1> QED
  BY <1>11, <1>12

-----------------------------------------------------------------------------
(* The entries of the tokens *)

\* Where the bytes of the n-th token start.
Start(ts, n) == Len(FlattenSeq(FirstChars(ts, n - 1)))

\* The entries of all tokens after the k-th wait, and those of the first k are
\* reported.
Waiting(w, ts, k) ==
    /\ w \in Seq([at : Nat, token : Nat])
    /\ k \in Nat /\ k + Len(w) = Len(ts)
    /\ \A i \in 1..Len(w) : w[i] = [at |-> Start(ts, k + i), token |-> k + i]
Counted(r, k) == r \in Seq(Nat) /\ Len(r) = k /\ \A i \in 1..k : r[i] = i

\* What is downward closed is counted from one.
LEMMA InitialPart ==
  ASSUME NEW n \in Nat, NEW S \in SUBSET (1..n), \A i \in S : \A j \in 1..i : j \in S
  PROVE  Cardinality(S) \in 0..n /\ S = 1..Cardinality(S)
<1>1. CASE S = {}
  <2>1. Cardinality(S) = 0
    BY <1>1, FS_EmptySet
  <2> QED
    BY <1>1, <2>1
<1>2. CASE S # {}
  <2> DEFINE m == Max(S)
  <2>1. m \in S /\ \A j \in S : j <= m
    <3>1. S \in SUBSET Nat /\ \A j \in S : j <= n
      OBVIOUS
    <3> QED
      BY <1>2, <3>1, LargestElement
  <2> HIDE DEF m
  <2>2. m \in 1..n /\ S = 1..m
    <3>1. m \in 1..n
      BY <2>1
    <3>2. \A j \in S : j \in 1..m
      BY <2>1, <3>1
    <3>3. \A j \in 1..m : j \in S
      BY <2>1
    <3> QED
      BY <3>1, <3>2, <3>3
  <2>3. Cardinality(1..m) = m
    <3>1. \A q \in Int : Cardinality(1..q) = IF 1 > q THEN 0 ELSE q - 1 + 1
      BY FS_Interval
    <3> QED
      BY <2>2, <3>1
  <2> QED
    BY <2>2, <2>3
<1> QED
  BY <1>1, <1>2

LEMMA StartsGrow ==
  ASSUME NEW T, NEW ts \in Seq(Seq(T)), NEW n \in 1..(Len(ts) + 1), NEW m \in 1..n
  PROVE  Start(ts, m) \in Nat /\ Start(ts, n) \in Nat /\ Start(ts, m) <= Start(ts, n)
<1> DEFINE us == FirstChars(ts, n - 1)  vs == FirstChars(ts, m - 1)
           u == FlattenSeq(us)  v == FlattenSeq(vs)
<1>1. n - 1 \in 0..Len(ts) /\ m - 1 \in 0..(n - 1) /\ m - 1 \in 0..Len(ts)
  BY LenProperties
<1>2. us \in Seq(Seq(T)) /\ Len(us) = n - 1 /\ vs \in Seq(Seq(T)) /\ FirstChars(us, m - 1) = vs
  BY <1>1, FirstCharsType, FirstOfFirst
<1> HIDE DEF us, vs
<1>3. u \in Seq(T) /\ v \in Seq(T) /\ Len(u) \in Nat /\ Len(v) \in Nat
  BY <1>2, FlattenType, LenProperties
<1>4. PICK x \in Seq(T) : u = v \o x
  <2>1. m - 1 \in 0..Len(us)
    BY <1>1, <1>2
  <2> QED
    BY <1>2, <2>1, FlattenPrefix
<1>5. Len(u) = Len(v) + Len(x) /\ Len(x) \in Nat
  BY <1>3, <1>4, ConcatProperties, LenProperties
<1>6. Len(v) <= Len(u)
  BY <1>3, <1>5
<1> QED
  BY <1>3, <1>6 DEF Start, u, v, us, vs

LEMMA ReadyIs ==
  ASSUME NEW T, NEW ts \in Seq(Seq(T)), NEW w, NEW k, Waiting(w, ts, k), NEW bytes \in Nat
  PROVE  /\ Ready(w, bytes) \in 0..Len(w)
         /\ \A i \in 1..Len(w) : i <= Ready(w, bytes) <=> Start(ts, k + i) < bytes
<1> DEFINE R == {i \in DOMAIN w : w[i].at < bytes}  l == Len(w)  r == Ready(w, bytes)
<1>1. /\ l \in Nat /\ DOMAIN w = 1..l /\ k \in Nat /\ k + l = Len(ts)
      /\ \A i \in 1..l : w[i].at = Start(ts, k + i)
  <2>1. w \in Seq([at : Nat, token : Nat]) /\ k \in Nat /\ k + l = Len(ts)
    BY DEF Waiting
  <2>2. ASSUME NEW i \in 1..l
        PROVE  w[i].at = Start(ts, k + i)
    <3>1. w[i] = [at |-> Start(ts, k + i), token |-> k + i]
      BY DEF Waiting
    <3> QED
      BY <3>1
  <2> QED
    BY <2>1, <2>2, LenProperties
<1>2. r = Cardinality(R)
  BY DEF Ready
<1>3. \A i \in 1..l : i \in R <=> Start(ts, k + i) < bytes
  BY <1>1
<1>4. R \in SUBSET (1..l)
  BY <1>1
<1>sizes. l \in Nat /\ k \in Nat /\ k + l = Len(ts)
  BY <1>1
<1> HIDE DEF R, l, r
<1>5. ASSUME NEW i \in R, NEW j \in 1..i
      PROVE  j \in R
  <2>1. i \in 1..l /\ j \in 1..l /\ Start(ts, k + i) < bytes
    <3>1. i \in 1..l
      BY <1>4
    <3>2. j \in 1..l
      BY <1>sizes, <3>1
    <3> QED
      BY <1>3, <3>1, <3>2
  <2>2. k + i \in 1..(Len(ts) + 1) /\ k + j \in 1..(k + i)
    BY <1>sizes, <2>1
  <2>3. /\ Start(ts, k + j) \in Nat /\ Start(ts, k + i) \in Nat
        /\ Start(ts, k + j) <= Start(ts, k + i)
    BY <2>2, StartsGrow
  <2>4. Start(ts, k + j) < bytes
    BY <2>1, <2>3
  <2> QED
    BY <1>3, <2>1, <2>4
<1>6. r \in 0..l /\ R = 1..r
  BY <1>1, <1>2, <1>4, <1>5, InitialPart
<1>7. \A i \in 1..l : i <= r <=> i \in R
  BY <1>6
<1> QED
  BY <1>3, <1>6, <1>7 DEF l, r

\* The entries of the first n tokens that wait are reported.
LEMMA MoreReported ==
  ASSUME NEW T, NEW ts \in Seq(Seq(T)), NEW w, NEW k, Waiting(w, ts, k),
         NEW rep, Counted(rep, k), NEW n \in 0..Len(w)
  PROVE  /\ Counted(rep \o [i \in 1..n |-> w[i].token], k + n)
         /\ Waiting(After(w, n), ts, k + n)
<1> DEFINE new == [i \in 1..n |-> w[i].token]  both == rep \o new  rest == After(w, n)
           l == Len(w)
<1>1. /\ w \in Seq([at : Nat, token : Nat]) /\ l \in Nat /\ k \in Nat /\ k + l = Len(ts)
      /\ n \in Nat /\ n <= l
  BY LenProperties DEF Waiting
<1>2. \A i \in 1..l : w[i] = [at |-> Start(ts, k + i), token |-> k + i]
  BY DEF Waiting
<1>3. rep \in Seq(Nat) /\ Len(rep) = k /\ \A i \in 1..k : rep[i] = i
  BY DEF Counted
<1>4. new \in Seq(Nat) /\ Len(new) = n /\ \A i \in 1..n : new[i] = k + i
  <2>1. \A i \in 1..n : w[i].token = k + i /\ k + i \in Nat
    <3> SUFFICES ASSUME NEW i \in 1..n PROVE w[i].token = k + i /\ k + i \in Nat
      OBVIOUS
    <3>1. i \in 1..l
      BY <1>1
    <3>2. w[i] = [at |-> Start(ts, k + i), token |-> k + i]
      BY <1>2, <3>1
    <3> QED
      BY <1>1, <3>2
  <2>2. new \in [1..n -> Nat] /\ \A i \in 1..n : new[i] = k + i
    BY <2>1
  <2> HIDE DEF new
  <2> QED
    BY <1>1, <2>2
<1> HIDE DEF new
<1>5. Counted(both, k + n)
  <2>1. /\ both \in Seq(Nat) /\ Len(both) = k + n
        /\ \A i \in 1..(k + n) : both[i] = IF i <= k THEN rep[i] ELSE new[i - k]
    BY <1>3, <1>4, ConcatProperties
  <2> HIDE DEF both
  <2>2. ASSUME NEW i \in 1..(k + n)
        PROVE  both[i] = i
    <3>1. CASE i <= k
      <4>1. i \in 1..k
        BY <1>1, <3>1
      <4> QED
        BY <1>3, <2>1, <3>1, <4>1
    <3>2. CASE ~(i <= k)
      <4>1. i - k \in 1..n /\ k + (i - k) = i
        BY <1>1, <3>2
      <4> QED
        BY <1>4, <2>1, <3>2, <4>1
    <3> QED
      BY <3>1, <3>2
  <2> QED
    BY <2>1, <2>2 DEF Counted
<1>6. /\ rest \in Seq([at : Nat, token : Nat]) /\ Len(rest) = l - n
      /\ \A i \in 1..(l - n) : rest[i] = w[n + i]
  <2>1. \A i \in (n + 1)..l : w[i] \in [at : Nat, token : Nat]
    <3>1. \A i \in (n + 1)..l : i \in 1..l
      BY <1>1
    <3> QED
      BY <1>1, <3>1, ElementOfSeq
  <2> DEFINE a == n + 1  u == SubSeq(w, a, l)
  <2>2. a \in Int /\ l \in Int /\ \A i \in a..l : w[i] \in [at : Nat, token : Nat]
    BY <1>1, <2>1
  <2> HIDE DEF a, l
  <2>3. /\ u \in Seq([at : Nat, token : Nat]) /\ Len(u) = IF a <= l THEN l - a + 1 ELSE 0
        /\ \A i \in 1..(l - a + 1) : u[i] = w[a + i - 1]
    BY <2>2, SubSeqProperties
  <2>4. rest = u
    BY DEF After, a, l
  <2> HIDE DEF u, rest
  <2>5. Len(rest) = l - n
    BY <1>1, <2>3, <2>4 DEF a
  <2>6. \A i \in 1..(l - n) : i \in 1..(l - a + 1) /\ a + i - 1 = n + i
    BY <1>1 DEF a
  <2>7. ASSUME NEW i \in 1..(l - n)
        PROVE  rest[i] = w[n + i]
    <3>1. i \in 1..(l - a + 1) /\ a + i - 1 = n + i
      BY <2>6
    <3>2. u[i] = w[a + i - 1]
      BY <2>3, <3>1
    <3> QED
      BY <2>4, <3>1, <3>2
  <2>8. rest \in Seq([at : Nat, token : Nat])
    BY <2>3, <2>4
  <2> QED
    BY <2>5, <2>7, <2>8
<1>sizes. l \in Nat /\ k \in Nat /\ k + l = Len(ts) /\ n \in Nat /\ n <= l
  BY <1>1
<1> HIDE DEF rest, l
<1>7. \A i \in 1..Len(rest) : rest[i] = [at |-> Start(ts, (k + n) + i), token |-> (k + n) + i]
  <2> SUFFICES ASSUME NEW i \in 1..Len(rest)
               PROVE  rest[i] = [at |-> Start(ts, (k + n) + i), token |-> (k + n) + i]
    OBVIOUS
  <2>1. i \in 1..(l - n) /\ n + i \in 1..l /\ k + (n + i) = (k + n) + i
    <3>1. i \in 1..(l - n)
      BY <1>6
    <3> QED
      BY <1>sizes, <3>1
  <2>2. w[n + i] = [at |-> Start(ts, k + (n + i)), token |-> k + (n + i)]
    BY <1>2, <2>1
  <2> QED
    BY <1>6, <2>1, <2>2
<1>8. k + n \in Nat /\ (k + n) + Len(rest) = Len(ts)
  <2>1. k + n \in Nat /\ (k + n) + (l - n) = k + l
    BY <1>1
  <2>2. k + l = Len(ts) /\ Len(rest) = l - n
    BY <1>1, <1>6
  <2> HIDE DEF both, new
  <2> QED
    BY <2>1, <2>2
<1>9. Waiting(rest, ts, k + n)
  BY <1>6, <1>7, <1>8 DEF Waiting
<1> QED
  BY <1>5, <1>9 DEF both, new, rest

\* Where a token starts depends on those before it only.
LEMMA StartOfAppend ==
  ASSUME NEW T, NEW ts \in Seq(Seq(T)), NEW t \in Seq(T)
  PROVE  /\ \A n \in 1..(Len(ts) + 1) : Start(Append(ts, t), n) = Start(ts, n)
         /\ Start(ts, Len(ts) + 1) = Len(FlattenSeq(ts))
         /\ Len(FlattenSeq(ts)) \in Nat
<1>1. Len(ts) \in Nat
  BY LenProperties
<1>2. ASSUME NEW n \in 1..(Len(ts) + 1)
      PROVE  Start(Append(ts, t), n) = Start(ts, n)
  <2>1. n - 1 \in 0..Len(ts)
    BY <1>1
  <2>2. FirstChars(Append(ts, t), n - 1) = FirstChars(ts, n - 1)
    BY <2>1, FirstOfAppend
  <2> QED
    BY <2>2 DEF Start
<1>3. FirstChars(ts, (Len(ts) + 1) - 1) = ts
  <2>1. (Len(ts) + 1) - 1 = Len(ts)
    BY <1>1
  <2> QED
    BY <2>1 DEF FirstChars
<1>4. FlattenSeq(ts) \in Seq(T)
  BY FlattenType
<1> QED
  BY <1>2, <1>3, <1>4, LenProperties DEF Start

LEMMA OneMoreWaits ==
  ASSUME NEW T, NEW ts \in Seq(Seq(T)), NEW t \in Seq(T), NEW w, NEW k, Waiting(w, ts, k)
  PROVE  Waiting(Append(w, [at |-> Len(FlattenSeq(ts)), token |-> Len(Append(ts, t))]),
                 Append(ts, t), k)
<1> DEFINE us == Append(ts, t)  e == [at |-> Len(FlattenSeq(ts)), token |-> Len(us)]
           v == Append(w, e)  l == Len(w)
<1>1. /\ w \in Seq([at : Nat, token : Nat]) /\ l \in Nat /\ k \in Nat /\ k + l = Len(ts)
      /\ \A i \in 1..l : w[i] = [at |-> Start(ts, k + i), token |-> k + i]
  BY LenProperties DEF Waiting
<1>sizes. l \in Nat /\ k \in Nat /\ k + l = Len(ts)
  BY <1>1
<1> HIDE DEF l
<1>2. Len(us) = k + (l + 1)
  <2>1. Len(us) = Len(ts) + 1
    BY AppendProperties
  <2> HIDE DEF us
  <2> QED
    BY <1>1, <2>1
<1>3. /\ \A n \in 1..(k + (l + 1)) : Start(us, n) = Start(ts, n)
      /\ Start(ts, k + (l + 1)) = Len(FlattenSeq(ts))
      /\ Len(FlattenSeq(ts)) \in Nat
  <2>1. Len(ts) + 1 = k + (l + 1)
    BY <1>1
  <2> QED
    BY <2>1, StartOfAppend
<1> HIDE DEF us
<1>4. e = [at |-> Start(us, k + (l + 1)), token |-> k + (l + 1)] /\ e \in [at : Nat, token : Nat]
  <2>1. k + (l + 1) \in 1..(k + (l + 1)) /\ k + (l + 1) \in Nat
    BY <1>1
  <2> QED
    BY <1>2, <1>3, <2>1
<1> HIDE DEF e
<1>5. /\ v \in Seq([at : Nat, token : Nat]) /\ Len(v) = l + 1 /\ v[l + 1] = e
      /\ \A i \in 1..l : v[i] = w[i]
  BY <1>1, <1>4, AppendProperties DEF l
<1> HIDE DEF v
<1>6. \A i \in 1..Len(v) : v[i] = [at |-> Start(us, k + i), token |-> k + i]
  <2> SUFFICES ASSUME NEW i \in 1..Len(v)
               PROVE  v[i] = [at |-> Start(us, k + i), token |-> k + i]
    OBVIOUS
  <2>1. CASE i = l + 1
    BY <1>4, <1>5, <2>1
  <2>2. CASE i # l + 1
    <3>1. i \in 1..l /\ k + i \in 1..(k + (l + 1))
      <4>1. i \in 1..(l + 1)
        BY <1>5
      <4> QED
        BY <1>sizes, <2>2, <4>1
    <3>2. Start(us, k + i) = Start(ts, k + i)
      BY <1>3, <3>1
    <3> QED
      BY <1>1, <1>5, <3>1, <3>2
  <2> QED
    BY <2>1, <2>2
<1>7. k + Len(v) = Len(us)
  BY <1>2, <1>5
<1>8. Waiting(v, us, k)
  BY <1>1, <1>5, <1>6, <1>7 DEF Waiting
<1> QED
  BY <1>8 DEF v, e, us

Valid(s) == \A q \in DOMAIN s : s[q] # Bad
Due(ts, k, s) == \A n \in 1..Len(ts) : n <= k <=> Start(ts, n) < Bytes(s)

\* What release() leaves: the entries reported are those of the tokens that
\* start before the end of the text, or all.
LEMMA ReleaseStep ==
  ASSUME NEW T, NEW ts \in Seq(Seq(T)), NEW w, NEW k, Waiting(w, ts, k),
         Counted(reported, k), out \in Seq(Characters), emitted = Bytes(out),
         Valid(out) => \A n \in 1..k : Start(ts, n) < Bytes(out),
         NEW chars \in Seq(Characters), NEW all \in BOOLEAN,
         Release(chars, w, all), Yield(chars)
  PROVE  /\ out' \in Seq(Characters) /\ emitted' = Bytes(out')
         /\ \E r \in Nat : /\ Counted(reported', r) /\ Waiting(entries', ts, r)
                           /\ all => r = Len(ts)
                           /\ ~all /\ Valid(out') => Due(ts, r, out')
<1> DEFINE bytes == emitted + Bytes(chars)  n == IF all THEN Len(w) ELSE Ready(w, bytes)
           l == Len(w)
<1>1. out' = out \o chars
  BY DEF Yield
<1>2. /\ out' \in Seq(Characters) /\ Bytes(out') = Bytes(out) + Bytes(chars)
      /\ Bytes(out) \in Nat /\ Bytes(chars) \in Nat
  BY <1>1, ConcatProperties, BytesConcat, BytesType
<1>3. /\ emitted' = bytes
      /\ reported' = reported \o [i \in 1..n |-> w[i].token]
      /\ entries' = After(w, n)
  BY DEF Release
<1>4. bytes \in Nat /\ bytes = Bytes(out')
  BY <1>2
<1>5. l \in Nat /\ k \in Nat /\ k + l = Len(ts)
  BY LenProperties DEF Waiting
<1> HIDE DEF bytes
<1>6. /\ Ready(w, bytes) \in 0..l
      /\ \A i \in 1..l : i <= Ready(w, bytes) <=> Start(ts, k + i) < bytes
  BY <1>4, ReadyIs
<1> HIDE DEF l
<1>7. n \in 0..l /\ n \in 0..Len(w) /\ n \in Nat /\ (all => n = l) /\ (~all => n = Ready(w, bytes))
  <2>1. n \in 0..l /\ (all => n = l) /\ (~all => n = Ready(w, bytes))
    BY <1>5, <1>6 DEF l
  <2> HIDE DEF n
  <2> QED
    BY <1>5, <2>1 DEF l
<1> HIDE DEF n
<1>8. Counted(reported', k + n) /\ Waiting(entries', ts, k + n)
  BY <1>3, <1>7, MoreReported
<1>9. all => k + n = Len(ts)
  BY <1>5, <1>7
<1>10. ASSUME ~all, Valid(out')
       PROVE  Due(ts, k + n, out')
  <2>1. Valid(out)
    <3>1. /\ Len(out) \in Nat /\ Len(chars) \in Nat /\ DOMAIN out = 1..Len(out)
          /\ DOMAIN out' = 1..(Len(out) + Len(chars))
          /\ \A q \in 1..(Len(out) + Len(chars)) :
                out'[q] = IF q <= Len(out) THEN out[q] ELSE chars[q - Len(out)]
      BY <1>1, ConcatProperties, LenProperties
    <3> SUFFICES ASSUME NEW q \in DOMAIN out PROVE out[q] # Bad
      BY DEF Valid
    <3>2. q \in DOMAIN out' /\ q <= Len(out)
      BY <3>1
    <3> QED
      BY <1>10, <3>1, <3>2 DEF Valid
  <2> SUFFICES ASSUME NEW i \in 1..Len(ts)
               PROVE  i <= k + n <=> Start(ts, i) < bytes
    BY <1>4 DEF Due
  <2>2. CASE i <= k
    <3>1. Start(ts, i) < Bytes(out) /\ Bytes(out) <= bytes /\ i <= k + n
      <4>1. i \in 1..k
        BY <1>5, <2>2
      <4> QED
        BY <1>2, <1>4, <1>5, <1>7, <2>1, <2>2, <4>1
    <3>2. Start(ts, i) \in Nat
      <4>1. i \in 1..(Len(ts) + 1) /\ i \in 1..i
        BY <1>5
      <4> QED
        BY <4>1, StartsGrow
    <3> QED
      BY <1>2, <1>4, <3>1, <3>2
  <2>3. CASE ~(i <= k)
    <3>1. i - k \in 1..l /\ k + (i - k) = i
      BY <1>5, <2>3
    <3>2. i - k <= n <=> Start(ts, i) < bytes
      BY <1>6, <1>7, <1>10, <3>1
    <3>3. i - k <= n <=> i <= k + n
      BY <1>5, <1>7
    <3> QED
      BY <3>2, <3>3
  <2> QED
    BY <2>2, <2>3
<1>11. k + n \in Nat
  BY <1>5, <1>7
<1> QED
  BY <1>2, <1>3, <1>4, <1>8, <1>9, <1>10, <1>11

LEMMA PrefixIs ==
  ASSUME NEW T, NEW s \in Seq(T), NEW o \in Seq(T), NEW p \in Seq(T), NEW n \in 0..Len(s),
         o \o p = FirstChars(s, n)
  PROVE  Len(o) \in 0..Len(s) /\ o = FirstChars(s, Len(o))
<1> DEFINE u == FirstChars(s, n)
<1>1. u \in Seq(T) /\ Len(u) = n
  BY FirstCharsType
<1>2. Len(u) = Len(o) + Len(p) /\ Len(o) \in Nat /\ Len(p) \in Nat /\ Len(s) \in Nat
  BY ConcatProperties, LenProperties
<1>3. Len(o) \in 0..n /\ Len(o) \in 0..Len(s)
  BY <1>1, <1>2
<1>4. o \o FirstChars(p, 0) = FirstChars(o \o p, Len(o) + 0)
  <2>1. 0 \in 0..Len(p)
    BY <1>2
  <2> QED
    BY <2>1, FirstOfConcat
<1>5. o \o FirstChars(p, 0) = o
  <2>1. FirstChars(p, 0) = <<>>
    BY DEF FirstChars
  <2> QED
    BY <2>1, ConcatEmptySeq
<1>6. FirstChars(u, Len(o)) = FirstChars(s, Len(o))
  BY <1>3, FirstOfFirst
<1>7. Len(o) + 0 = Len(o)
  BY <1>2
<1> QED
  BY <1>3, <1>4, <1>5, <1>6, <1>7

\* Every token has one entry, reported or waiting, in their order; the tokens
\* reported are those that start before the end of the yielded text.
EntriesInv ==
    /\ pc \in {"encode", "decode", "choose", "end", "done"}
    /\ out \in Seq(Characters)
    /\ request.logprobs =>
         /\ emitted = Bytes(out)
         /\ \E k \in Nat :
               /\ Counted(reported, k) /\ Waiting(entries, generated, k)
               /\ IF pc = "done" /\ matched = NoStop THEN k = Len(generated)
                  ELSE Valid(out) => Due(generated, k, out)

\* What is yielded is the beginning of the decoded text, at every step.
LEMMA OutIsPrefix ==
  ASSUME CompletionInv, AnswerInv, EntriesInv
  PROVE  /\ Decoded \in Seq(Characters) /\ Len(out) \in 0..Len(Decoded)
         /\ out = FirstChars(Decoded, Len(out))
<1> DEFINE d == Decoded  stops == request.stops
<1>1. d \in Seq(Characters) /\ Len(d) \in Nat /\ out \in Seq(Characters)
  BY BytesAreText, DecodeType, LenProperties DEF CompletionInv, TokensTyped, Decoded, EntriesInv
<1>2. stops \in Seq(Parts)
  BY StopsType DEF CompletionInv, TokensTyped
<1> HIDE DEF d, stops
<1>3. CASE Feeding
  <2>1. Split(stops, d, released, out, pending)
    BY <1>3 DEF AnswerInv, AllSplit, d, stops
  <2>2. /\ released \in 0..Sure(d) /\ pending \in Seq(Characters)
        /\ out \o pending = FirstChars(d, released)
    BY <2>1 DEF Split
  <2>3. released \in 0..Len(d)
    BY <1>1, <2>2 DEF Sure
  <2> QED
    BY <1>1, <2>2, <2>3, PrefixIs DEF d
<1>4. ASSUME Hits(stops, d) # {}, NEW p \in Seq(Characters),
             out \o p = FirstChars(d, Min(Hits(stops, d)) - 1)
      PROVE  Len(out) \in 0..Len(d) /\ out = FirstChars(d, Len(out))
  <2> DEFINE m == Min(Hits(stops, d))
  <2>1. m \in 1..Len(d)
    <3> DEFINE H == Hits(stops, d)
    <3>1. H \in SUBSET (1..Len(d)) /\ H # {}
      BY <1>1, <1>2, <1>4, HitsFacts
    <3> HIDE DEF H
    <3>2. H \in SUBSET Nat
      BY <3>1
    <3>3. Min(H) \in H
      BY <3>1, <3>2, LeastElement
    <3> QED
      BY <3>1, <3>3 DEF H
  <2> HIDE DEF m
  <2>2. m - 1 \in 0..Len(d)
    BY <1>1, <2>1
  <2> QED
    BY <1>1, <1>4, <2>2, PrefixIs DEF m
<1>5. CASE pc = "end" /\ matched # NoStop
  <2>1. CutAt(stops, d, out \o text, matched) /\ text \in Seq(Characters)
    BY <1>5 DEF AnswerInv, CutInTheLoop, d, stops
  <2> QED
    BY <1>1, <1>4, <2>1 DEF CutAt, d
<1>6. CASE pc = "done"
  <2>1. CASE Hits(stops, d) # {}
    <3>1. out = FirstChars(d, Min(Hits(stops, d)) - 1)
      BY <1>6, <2>1 DEF AnswerInv, AnswerExact, d, stops
    <3>2. out \o <<>> = out /\ <<>> \in Seq(Characters)
      BY <1>1, ConcatEmptySeq, EmptySeq
    <3> QED
      BY <1>1, <1>4, <2>1, <3>1, <3>2 DEF d
  <2>2. CASE Hits(stops, d) = {}
    <3>1. out = d
      BY <1>6, <2>2 DEF AnswerInv, AnswerExact, d, stops
    <3>2. FirstChars(d, Len(d)) = d /\ Len(d) \in 0..Len(d)
      BY <1>1 DEF FirstChars
    <3> QED
      BY <1>1, <3>1, <3>2 DEF d
  <2> QED
    BY <2>1, <2>2
<1>7. Feeding \/ (pc = "end" /\ matched # NoStop) \/ pc = "done"
  BY DEF EntriesInv, Feeding
<1> QED
  BY <1>3, <1>5, <1>6, <1>7

LEMMA EntriesInit == Init => EntriesInv
<1> SUFFICES ASSUME Init PROVE EntriesInv
  OBVIOUS
<1> DEFINE none == <<>>
<1>1. /\ pc = "encode" /\ out = none /\ emitted = 0 /\ reported = none /\ entries = none
      /\ generated = none
  BY DEF Init
<1>2. /\ none \in Seq(Characters) /\ none \in Seq(Nat) /\ none \in Seq([at : Nat, token : Nat])
      /\ Len(none) = 0
  BY EmptySeq
<1>3. Bytes(none) = 0
  BY BytesEmpty
<1> HIDE DEF none
<1>4. Counted(none, 0) /\ Waiting(none, none, 0) /\ Due(none, 0, none)
  BY <1>2 DEF Counted, Waiting, Due
<1> QED
  BY <1>1, <1>2, <1>3, <1>4 DEF EntriesInv

\* A token taken has its entry wait; what is yielded with it reports those of
\* the tokens it completes.
LEMMA EntriesTaken ==
  ASSUME CompletionInv, AnswerInv, EntriesInv, Take
  PROVE  EntriesInv'
<1> DEFINE ts == generated  us == Append(generated, next)
           entry == [at |-> Len(FlattenSeq(generated)), token |-> Len(us)]
           waiting == IF request.logprobs THEN Append(entries, entry) ELSE <<>>
           fed == Feed(SubSeq(Decode(us), released + 1, Push(us)))
           stopped == fed.matched # NoStop
           quiet == stopped \/ fed.text = <<>>
<1>1. /\ ts \in Seq(Seq(SingleBytes)) /\ next \in Seq(SingleBytes)
      /\ us \in Seq(Seq(SingleBytes)) /\ Len(us) = Len(ts) + 1 /\ Len(ts) \in Nat
  BY TakenType, AppendProperties, LenProperties DEF CompletionInv, TokensTyped
<1>2. /\ generated' = us /\ request' = request /\ pc' \in {"end", "decode"}
      /\ text' = fed.text
  BY DEF Take, callVars
<1>3. CASE quiet
  <2>1. UNCHANGED <<emitted, reported, out>> /\ entries' = waiting
    BY <1>3 DEF Take
  <2> HIDE DEF us, entry, fed, quiet
  <2>2. ASSUME request.logprobs
        PROVE  \E k \in Nat : /\ Counted(reported, k) /\ Waiting(waiting, us, k)
                              /\ Valid(out) => Due(us, k, out)
    <3>1. pc # "done"
      BY DEF Take
    <3>2. PICK k \in Nat : /\ Counted(reported, k) /\ Waiting(entries, ts, k)
                           /\ Valid(out) => Due(ts, k, out)
      BY <2>2, <3>1 DEF EntriesInv
    <3>3. Waiting(waiting, us, k)
      BY <1>1, <2>2, <3>2, OneMoreWaits DEF us, entry
    <3>4. ASSUME Valid(out)
          PROVE  Due(us, k, out)
      <4>1. /\ \A n \in 1..(Len(ts) + 1) : Start(us, n) = Start(ts, n)
            /\ Start(ts, Len(ts) + 1) = Len(FlattenSeq(ts))
            /\ Len(FlattenSeq(ts)) \in Nat
        BY <1>1, StartOfAppend DEF us
      <4>2. Bytes(out) <= Len(FlattenSeq(ts)) /\ Bytes(out) \in Nat
        <5>1. /\ Len(out) \in 0..Len(Decode(ts)) /\ Decode(ts) \in Seq(Characters)
              /\ out = FirstChars(Decode(ts), Len(out))
          BY OutIsPrefix DEF Decoded
        <5>2. out \in Seq(Characters) /\ \A q \in 1..Len(out) : out[q] = Decode(ts)[q] /\ out[q] # Bad
          <6>1. out \in Seq(Characters)
            BY DEF EntriesInv
          <6>2. \A q \in 1..Len(out) : out[q] # Bad
            BY <3>4, <6>1, LenProperties DEF Valid
          <6> DEFINE o == FirstChars(Decode(ts), Len(out))
          <6>3. \A q \in 1..Len(out) : o[q] = Decode(ts)[q]
            BY <5>1, FirstCharsType
          <6>4. o = out
            BY <5>1
          <6> HIDE DEF o
          <6> QED
            BY <6>1, <6>2, <6>3, <6>4
        <5>3. Bytes(FirstChars(Decode(ts), Len(out))) <= Len(FlattenSeq(ts))
          <6>1. \A q \in 1..Len(out) : Decode(ts)[q] # Bad
            BY <5>2
          <6>2. 0 \in 0..Len(ts)
            BY <1>1
          <6> QED
            BY <1>1, <5>1, <6>1, <6>2, BytesContributed
        <5> QED
          BY <5>1, <5>2, <5>3, BytesType
      <4> SUFFICES ASSUME NEW n \in 1..Len(us)
                   PROVE  n <= k <=> Start(us, n) < Bytes(out)
        BY DEF Due
      <4>3. n \in 1..(Len(ts) + 1) /\ Start(us, n) = Start(ts, n)
        BY <1>1, <4>1
      <4>4. CASE n = Len(ts) + 1
        <5>1. k + Len(entries) = Len(ts) /\ Len(entries) \in Nat
          BY <3>2, LenProperties DEF Waiting
        <5>2. ~(n <= k)
          BY <1>1, <4>4, <5>1
        <5>3. ~(Start(us, n) < Bytes(out))
          BY <4>1, <4>2, <4>3, <4>4
        <5> QED
          BY <5>2, <5>3
      <4>5. CASE n # Len(ts) + 1
        <5>1. n \in 1..Len(ts)
          BY <1>1, <4>3, <4>5
        <5> QED
          BY <3>2, <3>4, <4>3, <5>1 DEF Due
      <4> QED
        BY <4>4, <4>5
    <3> QED
      BY <3>2, <3>3, <3>4
  <2> HIDE DEF waiting
  <2> QED
    BY <1>2, <2>1, <2>2 DEF EntriesInv
<1>4. CASE ~quiet
  <2>1. Release(fed.text, waiting, FALSE) /\ Yield(fed.text)
    BY <1>4 DEF Take
  <2>2. fed.text \in Seq(Characters) /\ out \in Seq(Characters)
    BY <1>2, TakeStep DEF AnswerInv, EntriesInv
  <2> HIDE DEF us, entry, fed, quiet
  <2>3. ASSUME request.logprobs
        PROVE  /\ emitted' = Bytes(out')
               /\ \E k \in Nat : /\ Counted(reported', k) /\ Waiting(entries', us, k)
                                 /\ Valid(out') => Due(us, k, out')
    <3>1. pc # "done"
      BY DEF Take
    <3>2. PICK k \in Nat : /\ Counted(reported, k) /\ Waiting(entries, ts, k)
                           /\ Valid(out) => Due(ts, k, out)
      BY <2>3, <3>1 DEF EntriesInv
    <3>3. Waiting(waiting, us, k)
      BY <1>1, <2>3, <3>2, OneMoreWaits DEF us, entry
    <3>4. Valid(out) => \A n \in 1..k : Start(us, n) < Bytes(out)
      <4> SUFFICES ASSUME Valid(out), NEW n \in 1..k PROVE Start(us, n) < Bytes(out)
        OBVIOUS
      <4>1. k + Len(entries) = Len(ts) /\ Len(entries) \in Nat
        BY <3>2, LenProperties DEF Waiting
      <4>2. n \in 1..Len(ts) /\ n \in 1..(Len(ts) + 1) /\ n <= k
        BY <1>1, <4>1
      <4>3. Start(us, n) = Start(ts, n)
        BY <1>1, <4>2, StartOfAppend DEF us
      <4> QED
        BY <3>2, <4>2, <4>3 DEF Due
    <3>5. emitted = Bytes(out)
      BY <2>3 DEF EntriesInv
    <3> HIDE DEF waiting, ts
    <3> QED
      BY <1>1, <2>1, <2>2, <3>2, <3>3, <3>4, <3>5, ReleaseStep
  <2>4. out' \in Seq(Characters)
    BY <2>1, <2>2, ConcatProperties DEF Yield
  <2> HIDE DEF waiting
  <2> QED
    BY <1>2, <2>3, <2>4 DEF EntriesInv
<1> QED
  BY <1>3, <1>4

\* At the end the entries of the tokens that start before the last text are
\* reported, or all if no stop sequence was found.
LEMMA EntriesEnd ==
  ASSUME CompletionInv, EntriesInv, pc # "done",
         NEW chars \in Seq(Characters), NEW all \in BOOLEAN,
         Release(chars, entries, all), Yield(chars),
         UNCHANGED <<request, generated>>, pc' = "done", matched' = NoStop <=> all
  PROVE  EntriesInv'
<1>1. out \in Seq(Characters) /\ generated \in Seq(Seq(SingleBytes))
  BY DEF EntriesInv, CompletionInv, TokensTyped
<1>2. out' \in Seq(Characters)
  BY <1>1, ConcatProperties DEF Yield
<1>3. ASSUME request.logprobs
      PROVE  /\ emitted' = Bytes(out')
             /\ \E k \in Nat :
                   /\ Counted(reported', k) /\ Waiting(entries', generated, k)
                   /\ IF all THEN k = Len(generated)
                      ELSE Valid(out') => Due(generated, k, out')
  <2>1. PICK k \in Nat : /\ Counted(reported, k) /\ Waiting(entries, generated, k)
                         /\ Valid(out) => Due(generated, k, out)
    BY <1>3 DEF EntriesInv
  <2>2. Valid(out) => \A n \in 1..k : Start(generated, n) < Bytes(out)
    <3> SUFFICES ASSUME Valid(out), NEW n \in 1..k PROVE Start(generated, n) < Bytes(out)
      OBVIOUS
    <3>1. k + Len(entries) = Len(generated) /\ Len(entries) \in Nat /\ Len(generated) \in Nat
      BY <1>1, <2>1, LenProperties DEF Waiting
    <3>2. n \in 1..Len(generated) /\ n <= k
      BY <3>1
    <3> QED
      BY <2>1, <3>2 DEF Due
  <2>3. emitted = Bytes(out)
    BY <1>3 DEF EntriesInv
  <2>4. /\ emitted' = Bytes(out')
        /\ \E r \in Nat : /\ Counted(reported', r) /\ Waiting(entries', generated, r)
                          /\ all => r = Len(generated)
                          /\ ~all /\ Valid(out') => Due(generated, r, out')
    BY <1>1, <2>1, <2>2, <2>3, ReleaseStep
  <2> QED
    BY <2>4
<1> QED
  BY <1>2, <1>3 DEF EntriesInv

LEMMA EntriesStep ==
  CompletionInv /\ AnswerInv /\ EntriesInv /\ [Next]_vars => EntriesInv'
<1> SUFFICES ASSUME CompletionInv, AnswerInv, EntriesInv, [Next]_vars
             PROVE  EntriesInv'
  OBVIOUS
<1> DEFINE kept == <<request, generated, out, emitted, reported, entries, matched>>
<1>1. ASSUME UNCHANGED kept, pc' = "done" <=> pc = "done",
             pc' \in {"encode", "decode", "choose", "end", "done"}
      PROVE  EntriesInv'
  BY <1>1 DEF EntriesInv
<1>2. CASE Encode
  BY <1>1, <1>2 DEF Encode, textVars, entryVars
<1>3. CASE DecodeStep
  BY <1>1, <1>3 DEF DecodeStep, textVars, entryVars, callVars
<1>4. CASE TakeEos
  BY <1>1, <1>4 DEF TakeEos, textVars, entryVars, callVars
<1>5. CASE Take
  BY <1>5, EntriesTaken
<1>6. CASE EndMatched
  <2>1. /\ Release(text, entries, FALSE) /\ Yield(text) /\ UNCHANGED <<request, generated>>
        /\ pc = "end" /\ pc' = "done" /\ matched # NoStop /\ matched' = matched
    BY <1>6 DEF EndMatched, callVars, textVars
  <2>2. text \in Seq(Characters)
    BY <2>1 DEF AnswerInv, CutInTheLoop
  <2> QED
    BY <2>1, <2>2, EntriesEnd
<1>7. CASE EndFlushed
  <2>1. text' \in Seq(Characters)
    BY <1>7, FlushStep DEF AnswerInv
  <2>2. /\ Release(text', entries, ~(matched' # NoStop)) /\ Yield(text')
        /\ UNCHANGED <<request, generated>> /\ pc = "end" /\ pc' = "done"
    BY <1>7 DEF EndFlushed, callVars
  <2> QED
    BY <2>1, <2>2, EntriesEnd
<1>8. CASE UNCHANGED vars
  BY <1>1, <1>8 DEF vars, callVars, textVars, entryVars, EntriesInv
<1> QED
  BY <1>2, <1>3, <1>4, <1>5, <1>6, <1>7, <1>8 DEF Next

LEMMA EntriesInvariant == Spec => [](CompletionInv /\ AnswerInv /\ EntriesInv)
<1>1. Init => CompletionInv /\ AnswerInv /\ EntriesInv
  BY CompletionInit, AnswerInit, EntriesInit
<1>2. CompletionInv /\ AnswerInv /\ EntriesInv /\ [Next]_vars
        => (CompletionInv /\ AnswerInv /\ EntriesInv)'
  BY CompletionStep, AnswerStep, EntriesStep
<1> QED
  BY <1>1, <1>2, PTL DEF Spec

\* While the text is valid, a caller has the log-probability entries of the
\* tokens that contributed to the text it has, in order and once each, and at
\* the end of an answer that no stop sequence cut those of all: release()
\* counts bytes, and the detokenizer and the stop matcher never mislead it.
THEOREM EntriesFollow == Spec => []EntriesFollowText
<1>1. CompletionInv /\ AnswerInv /\ EntriesInv => EntriesFollowText
  <2> DEFINE ts == generated  d == Decode(ts)  all == pc = "done" /\ matched = NoStop
  <2> SUFFICES ASSUME CompletionInv, AnswerInv, EntriesInv, request.logprobs,
                      Bad \notin ToSet(d)
               PROVE  /\ ToSet(reported) = {n \in DOMAIN ts : all \/ Contributed(n)}
                      /\ \A i, j \in DOMAIN reported : i < j => reported[i] < reported[j]
    BY DEF EntriesFollowText, Decoded
  <2>1. ts \in Seq(Seq(SingleBytes)) /\ Len(ts) \in Nat /\ DOMAIN ts = 1..Len(ts)
    BY LenProperties DEF CompletionInv, TokensTyped
  <2>2. /\ d \in Seq(Characters) /\ Len(out) \in 0..Len(d) /\ out = FirstChars(d, Len(out))
    BY OutIsPrefix DEF Decoded
  <2>3. \A q \in 1..Len(out) : d[q] # Bad
    <3>1. \A q \in 1..Len(out) : q \in DOMAIN d
      BY <2>2, LenProperties
    <3> QED
      BY <3>1 DEF ToSet
  <2>4. out \in Seq(Characters) /\ Valid(out)
    <3> DEFINE o == FirstChars(d, Len(out))
    <3>1. o \in Seq(Characters) /\ \A q \in 1..Len(out) : o[q] = d[q]
      BY <2>2, FirstCharsType
    <3>2. o = out
      BY <2>2
    <3> HIDE DEF o
    <3> QED
      BY <2>3, <3>1, <3>2, LenProperties DEF Valid
  <2>5. PICK k \in Nat : /\ Counted(reported, k) /\ Waiting(entries, ts, k)
                         /\ IF all THEN k = Len(ts) ELSE Valid(out) => Due(ts, k, out)
    BY DEF EntriesInv
  <2>6. DOMAIN reported = 1..k /\ \A i \in 1..k : reported[i] = i
    BY <2>5, LenProperties DEF Counted
  <2>7. ToSet(reported) = 1..k
    BY <2>6 DEF ToSet
  <2>8. k <= Len(ts)
    <3>1. k + Len(entries) = Len(ts) /\ Len(entries) \in Nat
      BY <2>5, LenProperties DEF Waiting
    <3> QED
      BY <2>1, <3>1
  <2>9. ASSUME NEW n \in 1..Len(ts)
        PROVE  n <= k <=> all \/ Contributed(n)
    <3>1. CASE all
      BY <2>1, <2>5, <3>1
    <3>2. CASE ~all
      <4>1. n <= k <=> Start(ts, n) < Bytes(FirstChars(d, Len(out)))
        <5>1. Due(ts, k, out)
          BY <2>4, <2>5, <3>2
        <5> HIDE DEF d, ts
        <5> QED
          BY <2>2, <5>1 DEF Due
      <4>2. n - 1 \in 0..Len(ts)
        BY <2>1
      <4>3. Start(ts, n) < Bytes(FirstChars(d, Len(out)))
              <=> Sure(Decode(FirstChars(ts, n - 1))) < Len(out)
        BY <2>1, <2>2, <2>3, <4>2, BytesContributed DEF Start
      <4>4. Contributed(n) <=> Sure(Decode(FirstChars(ts, n - 1))) < Len(out)
        BY DEF Contributed, Complete, Sure
      <4> HIDE DEF d, ts, all
      <4> QED
        BY <3>2, <4>1, <4>3, <4>4
    <3> QED
      BY <3>1, <3>2
  <2> HIDE DEF all, ts
  <2>10. {n \in DOMAIN ts : all \/ Contributed(n)} = 1..k
    <3>1. \A n \in 1..k : n \in 1..Len(ts) /\ n <= k
      BY <2>1, <2>8
    <3>2. \A n \in 1..Len(ts) : n <= k => n \in 1..k
      BY <2>8
    <3> QED
      BY <2>1, <2>9, <3>1, <3>2
  <2> QED
    BY <2>6, <2>7, <2>10
<1> QED
  BY <1>1, EntriesInvariant, PTL
=============================================================================
