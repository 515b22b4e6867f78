------------------------- MODULE PrefixCache_proofs -------------------------
(***************************************************************************)
(* Theorems about PrefixCache for any vocabulary, any number of generator  *)
(* frames, any window and any max_new_tokens.  PrefixExact needs no help   *)
(* from the generators: whatever is decoded, wherever, keeps it.  That no  *)
(* step leaves the window follows from Fits, which ties each generator's   *)
(* position to its text; that every token is chosen from fresh logits, from*)
(* Owned: the rows below the position of a generation nobody else wrote    *)
(* into are those of its text.                                             *)
(***************************************************************************)
EXTENDS PrefixCache, SequenceTheorems, WellFoundedInduction, TLAPS

-----------------------------------------------------------------------------
(* Prefixes *)

LEMMA PrefixFacts ==
  ASSUME NEW S, NEW s \in Seq(S), NEW n \in 0..Len(s)
  PROVE  /\ Prefix(s, n) \in Seq(S)
         /\ Len(Prefix(s, n)) = n
         /\ \A i \in 1..n : Prefix(s, n)[i] = s[i]
<1>1. Len(s) \in Nat
  BY LenProperties
<1>2. \A i \in 1..n : s[i] \in S
  BY <1>1, ElementOfSeq
<1> QED
  BY <1>1, <1>2, SubSeqProperties DEF Prefix

LEMMA PrefixOfPrefix ==
  ASSUME NEW S, NEW s \in Seq(S), NEW n \in 0..Len(s), NEW m \in 0..n
  PROVE  Prefix(Prefix(s, n), m) = Prefix(s, m)
<1>1. Len(s) \in Nat
  BY LenProperties
<1>2. /\ Prefix(s, n) \in Seq(S) /\ Len(Prefix(s, n)) = n
      /\ \A i \in 1..n : Prefix(s, n)[i] = s[i]
  BY PrefixFacts
<1>3. /\ Prefix(s, m) \in Seq(S) /\ Len(Prefix(s, m)) = m
      /\ \A i \in 1..m : Prefix(s, m)[i] = s[i]
  BY <1>1, PrefixFacts
<1>4. /\ Prefix(Prefix(s, n), m) \in Seq(S) /\ Len(Prefix(Prefix(s, n), m)) = m
      /\ \A i \in 1..m : Prefix(Prefix(s, n), m)[i] = Prefix(s, n)[i]
  <2> DEFINE q == Prefix(s, n)
  <2>1. q \in Seq(S) /\ m \in 0..Len(q)
    BY <1>2
  <2> HIDE DEF q
  <2>2. /\ Prefix(q, m) \in Seq(S) /\ Len(Prefix(q, m)) = m
        /\ \A i \in 1..m : Prefix(q, m)[i] = q[i]
    BY <2>1, PrefixFacts
  <2> QED
    BY <2>2 DEF q
<1>5. \A i \in 1..m : Prefix(Prefix(s, n), m)[i] = Prefix(s, m)[i]
  BY <1>1, <1>2, <1>3, <1>4
<1> QED
  BY <1>3, <1>4, <1>5, SeqEqual

LEMMA PrefixOfAppend ==
  ASSUME NEW S, NEW s \in Seq(S), NEW t \in S, NEW n \in 0..Len(s)
  PROVE  Prefix(Append(s, t), n) = Prefix(s, n)
<1> DEFINE q == Append(s, t)
<1>1. Len(s) \in Nat
  BY LenProperties
<1>2. /\ q \in Seq(S) /\ Len(q) = Len(s) + 1
      /\ \A i \in 1..Len(s) : q[i] = s[i]
  BY <1>1, AppendProperties
<1> HIDE DEF q
<1>3. /\ Prefix(s, n) \in Seq(S) /\ Len(Prefix(s, n)) = n
      /\ \A i \in 1..n : Prefix(s, n)[i] = s[i]
  BY PrefixFacts
<1>4. n \in 0..Len(q)
  BY <1>1, <1>2
<1>5. /\ Prefix(q, n) \in Seq(S) /\ Len(Prefix(q, n)) = n
      /\ \A i \in 1..n : Prefix(q, n)[i] = q[i]
  BY <1>2, <1>4, PrefixFacts
<1>6. \A i \in 1..n : Prefix(q, n)[i] = Prefix(s, n)[i]
  BY <1>1, <1>2, <1>3, <1>5, SMTT(40)
<1> QED
  BY <1>3, <1>5, <1>6, SeqEqual DEF q

LEMMA PrefixNext ==
  ASSUME NEW S, NEW s \in Seq(S), NEW n \in 0..(Len(s) - 1)
  PROVE  Append(Prefix(s, n), s[n + 1]) = Prefix(s, n + 1)
<1>1. Len(s) \in Nat /\ n \in Nat /\ n \in 0..Len(s) /\ n + 1 \in 0..Len(s)
  BY LenProperties
<1>2. /\ Prefix(s, n) \in Seq(S) /\ Len(Prefix(s, n)) = n
      /\ \A i \in 1..n : Prefix(s, n)[i] = s[i]
  BY <1>1, PrefixFacts
<1>3. /\ Prefix(s, n + 1) \in Seq(S) /\ Len(Prefix(s, n + 1)) = n + 1
      /\ \A i \in 1..(n + 1) : Prefix(s, n + 1)[i] = s[i]
  BY <1>1, PrefixFacts
<1>4. s[n + 1] \in S
  BY <1>1, ElementOfSeq
<1> DEFINE q == Append(Prefix(s, n), s[n + 1])
<1>5. /\ q \in Seq(S) /\ Len(q) = n + 1
      /\ \A i \in 1..n : q[i] = Prefix(s, n)[i]
      /\ q[n + 1] = s[n + 1]
  BY <1>1, <1>2, <1>4, AppendProperties
<1> HIDE DEF q
<1>6. \A i \in 1..(n + 1) : q[i] = Prefix(s, n + 1)[i]
  BY <1>1, <1>2, <1>3, <1>5
<1> QED
  BY <1>3, <1>5, <1>6, SeqEqual DEF q

LEMMA PrefixWhole ==
  ASSUME NEW S, NEW s \in Seq(S)
  PROVE  Prefix(s, Len(s)) = s
BY SubSeqFull DEF Prefix

\* A nonempty set of numbers below a bound has its Max.
LEMMA MaxBelow ==
  ASSUME NEW k \in Nat, NEW T, T \subseteq 0..k, T # {}
  PROVE  Max(T) \in T
<1> DEFINE U == {k - x : x \in T}
<1>1. U \subseteq Nat /\ U # {}
  <2>1. \A x \in T : x \in 0..k /\ k - x \in Nat
    OBVIOUS
  <2>2. PICK x \in T : TRUE
    OBVIOUS
  <2>3. k - x \in U
    BY <2>2
  <2> QED
    BY <2>1, <2>3
<1>2. PICK y \in U : \A z \in U : ~ (<<z, y>> \in OpToRel(<, Nat))
  BY <1>1, NatLessThanWellFounded, WFMin
<1>3. PICK x \in T : y = k - x
  OBVIOUS
<1>4. \A z \in T : x >= z
  <2> TAKE z \in T
  <2>1. k - z \in U /\ k - z \in Nat /\ y \in Nat
    OBVIOUS
  <2>2. ~ (k - z < y)
    BY <1>2, <2>1 DEF OpToRel
  <2> QED
    BY <1>3, <2>1, <2>2
<1> QED
  BY <1>4 DEF Max

-----------------------------------------------------------------------------
(* The device and the prefix that describes it *)

DeviceTypes ==
    /\ rows \in [Positions -> Seq(Vocabulary)]
    /\ cached \in Seq(Vocabulary)

LEMMA ContextFacts ==
  /\ Context \in Nat /\ MaxNew \in Nat /\ MaxNew \in 1..(Context - 1)
  /\ Positions \subseteq Nat /\ \A p \in Nat : p < Context => p \in Positions
BY CacheAssumption DEF Positions

LEMMA EmptyIsText == <<>> \in Seq(Vocabulary) /\ Len(<<>>) = 0
BY EmptySeq

LEMMA NewRowType ==
  ASSUME DeviceTypes, NEW token \in Vocabulary, NEW p \in Positions
  PROVE  NewRow(token, p) \in Seq(Vocabulary)
<1>1. CASE p = 0
  BY <1>1, EmptyIsText, AppendProperties DEF NewRow
<1>2. CASE p # 0
  <2>1. p \in Nat /\ p - 1 \in Positions
    BY <1>2, ContextFacts DEF Positions
  <2>2. rows[p - 1] \in Seq(Vocabulary)
    BY <2>1 DEF DeviceTypes
  <2> QED
    BY <1>2, <2>2, EmptyIsText, AppendProperties DEF NewRow, Mixed
<1> QED
  BY <1>1, <1>2

LEMMA LeavingsType ==
  ASSUME DeviceTypes, NEW token \in Vocabulary, NEW p \in Positions
  PROVE  Leavings(token, p) \subseteq Seq(Vocabulary)
<1>1. rows[p] \in Seq(Vocabulary)
  BY DEF DeviceTypes
<1> QED
  BY <1>1, NewRowType, EmptyIsText DEF Leavings, Mixed

\* Over the rows of a run on s, the next token of s extends that run.
LEMMA NewRowExtends ==
  ASSUME DeviceTypes, NEW s \in Seq(Vocabulary), NEW p \in Positions, p < Len(s),
         \A i \in 0..(p - 1) : rows[i] = Prefix(s, i + 1)
  PROVE  NewRow(s[p + 1], p) = Prefix(s, p + 1)
<1>1. Len(s) \in Nat /\ p \in Nat /\ p \in 0..(Len(s) - 1)
  BY LenProperties, ContextFacts
<1>2. Append(Prefix(s, p), s[p + 1]) = Prefix(s, p + 1)
  BY <1>1, PrefixNext
<1>3. CASE p = 0
  <2>1. Prefix(s, p) = <<>>
    BY <1>3, SubSeqEmpty DEF Prefix
  <2>2. Append(<<>>, s[p + 1]) = <<s[p + 1]>>
    OBVIOUS
  <2> QED
    BY <1>2, <1>3, <2>1, <2>2 DEF NewRow
<1>4. CASE p # 0
  <2>1. p - 1 \in 0..(p - 1) /\ (p - 1) + 1 = p
    BY <1>1, <1>4
  <2>2. rows[p - 1] = Prefix(s, p)
    BY <2>1
  <2>3. Len(Prefix(s, p)) = p
    BY <1>1, PrefixFacts
  <2>4. ASSUME NEW i \in 0..(p - 1)
        PROVE  rows[i] = Prefix(rows[p - 1], i + 1)
    <3>1. p \in 0..Len(s) /\ i + 1 \in 0..p
      BY <1>1
    <3>2. Prefix(Prefix(s, p), i + 1) = Prefix(s, i + 1)
      BY <3>1, PrefixOfPrefix
    <3> QED
      BY <2>2, <3>2
  <2>5. Coherent(p)
    BY <2>2, <2>3, <2>4 DEF Coherent
  <2> QED
    BY <1>2, <1>4, <2>2, <2>5 DEF NewRow
<1> QED
  BY <1>3, <1>4

LEMMA KeptFacts ==
  ASSUME DeviceTypes, PrefixExact, NEW p \in Positions
  PROVE  /\ Kept(p) \in Seq(Vocabulary)
         /\ Len(Kept(p)) <= p /\ Len(Kept(p)) <= Context
         /\ \A i \in 1..Len(Kept(p)) : rows[i - 1] = Prefix(Kept(p), i)
<1>1. Len(cached) \in Nat /\ p \in Nat /\ p < Context
  BY LenProperties, ContextFacts DEF DeviceTypes, Positions
<1>2. CASE p < Len(cached)
  <2>1. p \in 0..Len(cached) /\ Kept(p) = Prefix(cached, p)
    BY <1>1, <1>2 DEF Kept
  <2>2. Kept(p) \in Seq(Vocabulary) /\ Len(Kept(p)) = p
    BY <2>1, PrefixFacts DEF DeviceTypes
  <2>3. ASSUME NEW i \in 1..p
        PROVE  rows[i - 1] = Prefix(Kept(p), i)
    <3>1. i \in 0..p /\ i \in 1..Len(cached)
      BY <1>1, <1>2
    <3>2. Prefix(Prefix(cached, p), i) = Prefix(cached, i)
      BY <2>1, <3>1, PrefixOfPrefix DEF DeviceTypes
    <3> QED
      BY <2>1, <3>1, <3>2 DEF PrefixExact
  <2> QED
    BY <1>1, <2>2, <2>3, ContextFacts
<1>3. CASE ~(p < Len(cached))
  BY <1>1, <1>3, ContextFacts DEF Kept, DeviceTypes, PrefixExact
<1> QED
  BY <1>2, <1>3

\* Overwriting a row, whatever with, when what follows is forgotten.
LEMMA CutKeepsExact ==
  ASSUME DeviceTypes, PrefixExact, NEW p \in Positions,
         NEW row \in Seq(Vocabulary),
         rows' = [rows EXCEPT ![p] = row], cached' = Kept(p)
  PROVE  DeviceTypes' /\ PrefixExact'
<1>1. /\ Kept(p) \in Seq(Vocabulary)
      /\ Len(Kept(p)) <= p /\ Len(Kept(p)) <= Context
      /\ \A i \in 1..Len(Kept(p)) : rows[i - 1] = Prefix(Kept(p), i)
  BY KeptFacts
<1>2. DeviceTypes'
  BY <1>1 DEF DeviceTypes, Vocabulary, Positions
<1>3. ASSUME NEW i \in 1..Len(Kept(p))
      PROVE  rows'[i - 1] = rows[i - 1]
  <2>1. p \in Nat /\ Len(Kept(p)) \in Nat
    BY <1>1, LenProperties, ContextFacts
  <2>2. i - 1 \in Nat /\ i - 1 < p
    BY <1>1, <2>1
  <2>3. i - 1 \in Positions /\ i - 1 # p
    BY <2>1, <2>2, ContextFacts DEF Positions
  <2> QED
    BY <2>3 DEF DeviceTypes
<1>4. PrefixExact'
  BY <1>1, <1>3 DEF PrefixExact, Prefix
<1> QED
  BY <1>2, <1>4

\* The heart of the matter: no decode step, of any token at any position,
\* makes the prefix claim a row the device does not hold.
LEMMA DecodeKeepsExact ==
  ASSUME DeviceTypes, PrefixExact, NEW token \in Vocabulary,
         NEW p \in Positions, Decode(token, p)
  PROVE  DeviceTypes' /\ PrefixExact'
<1> DEFINE k == Kept(p)
<1> DEFINE row == NewRow(token, p)
<1>1. /\ k \in Seq(Vocabulary)
      /\ Len(k) <= p /\ Len(k) <= Context /\ Len(k) \in Nat
      /\ \A i \in 1..Len(k) : rows[i - 1] = Prefix(k, i)
  BY KeptFacts, LenProperties
<1>2. row \in Seq(Vocabulary) /\ rows' = [rows EXCEPT ![p] = row]
  BY NewRowType DEF Decode
<1>3. CASE Len(k) # p
  <2>1. cached' = Kept(p)
    BY <1>3 DEF Decode, Recorded
  <2> QED
    BY <1>2, <2>1, CutKeepsExact
<1>4. CASE Len(k) = p
  <2> DEFINE c == Append(k, token)
  <2>1. cached' = c
    BY <1>4 DEF Decode, Recorded
  <2>2. /\ c \in Seq(Vocabulary) /\ Len(c) = p + 1
        /\ c[p + 1] = token
    BY <1>1, <1>4, AppendProperties
  <2>3. p \in Nat /\ p < Context
    BY ContextFacts DEF Positions
  <2>4. \A i \in 1..p : rows[i - 1] = Prefix(c, i)
    <3> TAKE i \in 1..p
    <3>1. i \in 0..Len(k) /\ i \in 1..Len(k)
      BY <1>1, <1>4
    <3>2. Prefix(c, i) = Prefix(k, i)
      BY <1>1, <3>1, PrefixOfAppend
    <3> QED
      BY <1>1, <3>1, <3>2
  <2>5. \A i \in 1..p : rows'[i - 1] = Prefix(c, i)
    <3> TAKE i \in 1..p
    <3>1. i - 1 \in Positions /\ i - 1 # p
      BY <2>3, ContextFacts DEF Positions
    <3>2. rows'[i - 1] = rows[i - 1]
      BY <1>2, <3>1 DEF DeviceTypes
    <3> QED
      BY <2>4, <3>2
  <2>6. row = Prefix(c, p + 1)
    <3> HIDE DEF c
    <3>1. \A i \in 0..(p - 1) : rows[i] = Prefix(c, i + 1)
      <4> TAKE i \in 0..(p - 1)
      <4>1. i + 1 \in 1..p /\ (i + 1) - 1 = i
        BY <2>3
      <4> QED
        BY <2>4, <4>1
    <3>2. NewRow(c[p + 1], p) = Prefix(c, p + 1)
      BY <2>2, <2>3, <3>1, NewRowExtends
    <3> QED
      BY <2>2, <3>2
  <2>7. rows'[p] = row
    BY <1>2 DEF DeviceTypes
  <2>8. \A i \in 1..(p + 1) : rows'[i - 1] = Prefix(c, i)
    BY <2>3, <2>5, <2>6, <2>7
  <2>9. DeviceTypes'
    BY <1>2, <2>1, <2>2 DEF DeviceTypes, Vocabulary, Positions
  <2> HIDE DEF c
  <2>10. PrefixExact'
    <3>1. Len(cached') = p + 1 /\ p + 1 <= Context
      BY <2>1, <2>2, <2>3, ContextFacts
    <3>2. \A i \in 1..Len(cached') : rows'[i - 1] = SubSeq(cached', 1, i)
      BY <2>1, <2>8, <3>1 DEF Prefix
    <3> QED
      BY <3>1, <3>2 DEF PrefixExact, Prefix
  <2> QED
    BY <2>9, <2>10
<1> QED
  BY <1>3, <1>4

-----------------------------------------------------------------------------
(* The generators *)

GenTypes ==
    /\ enabled \in BOOLEAN
    /\ running \in Gens \cup {Nobody}
    /\ phase \in [Gens -> Phases]
    /\ text \in [Gens -> Seq(Vocabulary)]
    /\ made \in [Gens -> Nat]
    /\ pos \in [Gens -> Nat]
    /\ next \in [Gens -> Vocabulary]
    /\ basis \in [Gens -> Seq(Vocabulary)]

\* Where a generator is in its text, and how much room it has left.
Fits(g) ==
    /\ phase[g] = "idle" => made[g] = 0 /\ pos[g] = 0
    /\ phase[g] = "prefill" =>
          made[g] = 0 /\ pos[g] < Len(text[g]) /\ Len(text[g]) <= Context - MaxNew
    /\ phase[g] = "choose" =>
          /\ made[g] < MaxNew /\ pos[g] = Len(text[g])
          /\ Len(text[g]) <= Context - MaxNew + made[g]
    /\ phase[g] \in {"step", "yielded"} =>
          /\ made[g] <= MaxNew /\ pos[g] + 1 = Len(text[g])
          /\ Len(text[g]) <= Context - MaxNew + made[g]
          /\ text[g][pos[g] + 1] = next[g]
    /\ phase[g] = "step" => made[g] < MaxNew

CacheInv ==
    /\ DeviceTypes /\ PrefixExact
    /\ GenTypes
    /\ \A g \in Gens : Fits(g)

LEMMA PromptFacts ==
  ASSUME NEW prompt \in Prompts
  PROVE  /\ prompt \in Seq(Vocabulary)
         /\ Len(prompt) \in Nat /\ Len(prompt) >= 1
         /\ Len(prompt) <= Context - MaxNew
<1>1. PICK n \in 1..(Context - MaxNew) : prompt \in [1..n -> Vocabulary]
  BY DEF Prompts
<1>2. n \in Nat /\ n >= 1 /\ n <= Context - MaxNew
  BY ContextFacts
<1>3. prompt \in Seq(Vocabulary)
  BY <1>1, <1>2, SeqDef
<1>4. Len(prompt) = n
  BY <1>1, <1>2, <1>3
<1> QED
  BY <1>2, <1>3, <1>4

\* What is reused is shared, and leaves the last prompt position to compute.
LEMMA ReusableFacts ==
  ASSUME DeviceTypes, NEW prompt \in Prompts
  PROVE  /\ Reusable(prompt) \in Nat /\ Reusable(prompt) < Len(prompt)
         /\ Reusable(prompt) # 0 =>
               Reusable(prompt) <= Len(cached) /\ Shares(prompt, Reusable(prompt))
<1> DEFINE L == Len(prompt)
<1>1. prompt \in Seq(Vocabulary) /\ L \in Nat /\ L >= 1
  BY PromptFacts
<1>2. Len(cached) \in Nat
  BY LenProperties DEF DeviceTypes
<1>3. CASE ~enabled
  BY <1>1, <1>3 DEF Reusable
<1>4. CASE enabled
  <2> DEFINE T == {n \in 0..(L - 1) : n <= Len(cached) /\ Shares(prompt, n)}
  <2>1. Shares(prompt, 0)
    BY SubSeqEmpty DEF Shares, Prefix
  <2>2. 0 \in T
    BY <1>1, <1>2, <2>1
  <2>3. L - 1 \in Nat /\ T \subseteq 0..(L - 1)
    BY <1>1
  <2>4. Max(T) \in T
    BY <2>2, <2>3, MaxBelow
  <2>5. Reusable(prompt) = Max(T)
    BY <1>4 DEF Reusable
  <2> QED
    BY <1>1, <2>4, <2>5
<1> QED
  BY <1>3, <1>4

LEMMA InitCache == Init => CacheInv
<1> SUFFICES ASSUME Init PROVE CacheInv
    OBVIOUS
<1>1. DeviceTypes
  BY EmptyIsText DEF Init, DeviceTypes, Mixed
<1>2. PrefixExact
  BY EmptyIsText, ContextFacts DEF Init, PrefixExact
<1>3. GenTypes
  BY EmptyIsText DEF Init, GenTypes, Phases, Vocabulary
<1>4. \A g \in Gens : Fits(g)
  BY DEF Init, Fits
<1> QED
  BY <1>1, <1>2, <1>3, <1>4 DEF CacheInv

\* The positions generators decode at are positions of the cache.
LEMMA DecodesInside ==
  ASSUME CacheInv, NEW g \in Gens, phase[g] \in {"prefill", "step"}
  PROVE  /\ pos[g] \in Positions /\ pos[g] < Context /\ pos[g] \in Nat
         /\ Len(text[g]) \in Nat /\ pos[g] < Len(text[g])
         /\ text[g][pos[g] + 1] \in Vocabulary
<1>1. /\ text[g] \in Seq(Vocabulary) /\ pos[g] \in Nat /\ made[g] \in Nat
      /\ Fits(g)
  BY DEF CacheInv, GenTypes
<1>2. Len(text[g]) \in Nat
  BY <1>1, LenProperties
<1>3. pos[g] < Len(text[g]) /\ pos[g] < Context
  BY <1>1, <1>2, ContextFacts DEF Fits
<1>4. pos[g] + 1 \in 1..Len(text[g])
  BY <1>1, <1>2, <1>3
<1> QED
  BY <1>1, <1>2, <1>3, <1>4, ElementOfSeq, ContextFacts

LEMMA FinishFits ==
  ASSUME CacheInv, NEW g \in Gens, Finish(g), UNCHANGED enabled
  PROVE  GenTypes' /\ \A h \in Gens : Fits(h)'
<1>1. GenTypes'
  BY EmptyIsText DEF CacheInv, GenTypes, Finish, Phases, Vocabulary
<1>2. Fits(g)'
  BY DEF CacheInv, GenTypes, Finish, Fits
<1>3. ASSUME NEW h \in Gens, h # g PROVE Fits(h)'
  BY <1>3 DEF CacheInv, GenTypes, Finish, Fits
<1> QED
  BY <1>1, <1>2, <1>3

LEMMA StartFits ==
  ASSUME CacheInv, NEW g \in Gens, Start(g)
  PROVE  CacheInv'
<1>1. PICK prompt \in Prompts :
        /\ text' = [text EXCEPT ![g] = prompt]
        /\ pos' = [pos EXCEPT ![g] = Reusable(prompt)]
  BY DEF Start
<1>2. /\ prompt \in Seq(Vocabulary) /\ Len(prompt) <= Context - MaxNew
      /\ Reusable(prompt) \in Nat /\ Reusable(prompt) < Len(prompt)
  BY PromptFacts, ReusableFacts DEF CacheInv
<1>3. GenTypes'
  BY <1>1, <1>2 DEF CacheInv, GenTypes, Start, devVars, Phases, Vocabulary
<1>4. Fits(g)'
  <2>1. made[g] = 0
    BY DEF Start, CacheInv, Fits
  <2> QED
    BY <1>1, <1>2, <2>1 DEF CacheInv, GenTypes, Start, Fits
<1>5. ASSUME NEW h \in Gens, h # g PROVE Fits(h)'
  BY <1>1, <1>5 DEF CacheInv, GenTypes, Start, Fits
<1>6. DeviceTypes' /\ PrefixExact'
  BY DEF CacheInv, Start, devVars, DeviceTypes, PrefixExact, Vocabulary, Positions, Prefix
<1> QED
  BY <1>3, <1>4, <1>5, <1>6 DEF CacheInv

LEMMA PrefillFits ==
  ASSUME CacheInv, NEW g \in Gens, Prefill(g)
  PROVE  CacheInv'
<1> DEFINE token == text[g][pos[g] + 1]
<1>1. /\ pos[g] \in Positions /\ pos[g] \in Nat
      /\ Len(text[g]) \in Nat /\ pos[g] < Len(text[g]) /\ token \in Vocabulary
  BY DecodesInside DEF Prefill
<1>2. DeviceTypes' /\ PrefixExact'
  BY <1>1, DecodeKeepsExact DEF CacheInv, Prefill
<1>3. Fits(g) /\ phase[g] = "prefill" /\ pos'[g] = pos[g] + 1 /\ made'[g] = made[g]
      /\ text' = text
  BY DEF CacheInv, GenTypes, Prefill
<1>4. ASSUME NEW h \in Gens, h # g PROVE Fits(h)'
  BY <1>4 DEF CacheInv, GenTypes, Prefill, Fits
<1>5. CASE pos[g] + 1 = Len(text[g])
  <2>1. NewRow(token, pos[g]) \in Seq(Vocabulary)
    BY <1>1, NewRowType DEF CacheInv
  <2>2. GenTypes'
    BY <1>1, <1>5, <2>1, ZenonT(40) DEF CacheInv, GenTypes, Prefill, Phases, Vocabulary
  <2>3. phase'[g] = "choose"
    BY <1>5 DEF CacheInv, GenTypes, Prefill
  <2>4. Fits(g)'
    BY <1>1, <1>3, <1>5, <2>3, ContextFacts DEF Fits
  <2> QED
    BY <1>2, <1>4, <2>2, <2>4 DEF CacheInv
<1>6. CASE pos[g] + 1 # Len(text[g])
  <2>1. GenTypes'
    BY <1>1, <1>6 DEF CacheInv, GenTypes, Prefill, Phases, Vocabulary
  <2>2. Fits(g)'
    BY <1>1, <1>3, <1>6 DEF Prefill, Fits
  <2> QED
    BY <1>2, <1>4, <2>1, <2>2 DEF CacheInv
<1> QED
  BY <1>5, <1>6

LEMMA StepFits ==
  ASSUME CacheInv, NEW g \in Gens, Step(g)
  PROVE  CacheInv'
<1>1. /\ pos[g] \in Positions /\ pos[g] \in Nat /\ next[g] \in Vocabulary
  BY DecodesInside DEF Step, CacheInv, GenTypes
<1>2. DeviceTypes' /\ PrefixExact'
  BY <1>1, DecodeKeepsExact DEF CacheInv, Step
<1>3. NewRow(next[g], pos[g]) \in Seq(Vocabulary)
  BY <1>1, NewRowType DEF CacheInv
<1>4. GenTypes'
  BY <1>1, <1>3 DEF CacheInv, GenTypes, Step, Phases, Vocabulary
<1>5. Fits(g)'
  BY DEF CacheInv, GenTypes, Step, Fits
<1>6. ASSUME NEW h \in Gens, h # g PROVE Fits(h)'
  BY <1>6 DEF CacheInv, GenTypes, Step, Fits
<1> QED
  BY <1>2, <1>4, <1>5, <1>6 DEF CacheInv

LEMMA ChooseTokenFits ==
  ASSUME CacheInv, NEW g \in Gens, ChooseToken(g)
  PROVE  CacheInv'
<1>1. /\ text[g] \in Seq(Vocabulary) /\ next[g] \in Vocabulary /\ made[g] \in Nat
      /\ pos[g] = Len(text[g]) /\ Len(text[g]) \in Nat /\ made[g] < MaxNew
      /\ Len(text[g]) <= Context - MaxNew + made[g]
  BY LenProperties DEF CacheInv, GenTypes, ChooseToken, Fits
<1> DEFINE longer == Append(text[g], next[g])
<1>2. /\ longer \in Seq(Vocabulary) /\ Len(longer) = pos[g] + 1
      /\ longer[pos[g] + 1] = next[g]
  BY <1>1, AppendProperties
<1>3. text' = [text EXCEPT ![g] = longer] /\ made' = [made EXCEPT ![g] = made[g] + 1]
  BY DEF ChooseToken
<1>4. /\ phase' \in [Gens -> Phases] /\ running' \in Gens \cup {Nobody}
      /\ phase'[g] \in {"step", "yielded"}
      /\ phase'[g] = "step" => made[g] + 1 < MaxNew
  BY DEF ChooseToken, CacheInv, GenTypes, Phases
<1> HIDE DEF longer
<1>5. GenTypes'
  BY <1>1, <1>2, <1>3, <1>4, EmptyIsText DEF CacheInv, GenTypes, ChooseToken, devVars, Vocabulary
<1>6. Fits(g)'
  <2>1. text'[g] = longer /\ made'[g] = made[g] + 1 /\ pos' = pos /\ next' = next
    BY <1>3 DEF ChooseToken, CacheInv, GenTypes
  <2> QED
    BY <1>1, <1>2, <1>4, <2>1, ContextFacts, SMTT(40) DEF Fits
<1>7. ASSUME NEW h \in Gens, h # g PROVE Fits(h)'
  BY <1>3, <1>7 DEF CacheInv, GenTypes, ChooseToken, Fits
<1>8. DeviceTypes' /\ PrefixExact'
  BY DEF CacheInv, ChooseToken, devVars, DeviceTypes, PrefixExact, Vocabulary, Positions, Prefix
<1> QED
  BY <1>5, <1>6, <1>7, <1>8 DEF CacheInv

LEMMA DeviceUntouched ==
  ASSUME CacheInv, UNCHANGED <<rows, cached>>
  PROVE  DeviceTypes' /\ PrefixExact'
BY DEF CacheInv, DeviceTypes, PrefixExact, Vocabulary, Positions, Prefix

LEMMA GensUntouched ==
  ASSUME CacheInv, UNCHANGED <<enabled, genVars>>
  PROVE  GenTypes' /\ \A h \in Gens : Fits(h)'
BY DEF CacheInv, GenTypes, Fits, genVars, Phases, Vocabulary

LEMMA NextCache == CacheInv /\ [Next]_vars => CacheInv'
<1> SUFFICES ASSUME CacheInv, [Next]_vars PROVE CacheInv'
    OBVIOUS
<1>1. ASSUME NEW g \in Gens, Start(g) \/ Prefill(g) \/ ChooseToken(g) \/ Step(g)
      PROVE  CacheInv'
  BY <1>1, StartFits, PrefillFits, ChooseTokenFits, StepFits
<1>2. ASSUME NEW g \in Gens, ChooseEos(g) \/ ChooseLast(g) \/ Abandon(g)
      PROVE  CacheInv'
  <2>1. Finish(g) /\ UNCHANGED <<rows, cached, enabled>>
    BY <1>2 DEF ChooseEos, ChooseLast, Abandon, devVars
  <2> QED
    BY <2>1, FinishFits, DeviceUntouched DEF CacheInv
<1>3. ASSUME NEW g \in Gens, Resume(g)
      PROVE  CacheInv'
  <2>1. CASE made[g] < MaxNew
    <3>1. GenTypes'
      BY <1>3, <2>1 DEF Resume, devVars, CacheInv, GenTypes, Phases, Vocabulary
    <3>2. \A h \in Gens : Fits(h)'
      BY <1>3, <2>1 DEF Resume, CacheInv, GenTypes, Fits
    <3>3. UNCHANGED <<rows, cached>>
      BY <1>3 DEF Resume, devVars
    <3> QED
      BY <3>1, <3>2, <3>3, DeviceUntouched DEF CacheInv
  <2>2. CASE ~(made[g] < MaxNew)
    <3>1. Finish(g) /\ UNCHANGED <<rows, cached, enabled>>
      BY <1>3, <2>2 DEF Resume, devVars
    <3> QED
      BY <3>1, FinishFits, DeviceUntouched DEF CacheInv
  <2> QED
    BY <2>1, <2>2
<1>4. ASSUME NEW g \in Gens, StepFails(g)
      PROVE  CacheInv'
  <2>1. PICK row \in Leavings(text[g][pos[g] + 1], pos[g]) :
          rows' = [rows EXCEPT ![pos[g]] = row]
    BY <1>4 DEF StepFails
  <2>2. pos[g] \in Positions /\ row \in Seq(Vocabulary)
    <3>1. pos[g] \in Positions /\ text[g][pos[g] + 1] \in Vocabulary
      BY <1>4, DecodesInside DEF StepFails
    <3> QED
      BY <2>1, <3>1, LeavingsType DEF CacheInv
  <2>3. DeviceTypes' /\ PrefixExact'
    BY <1>4, <2>1, <2>2, CutKeepsExact DEF StepFails, CacheInv
  <2>4. Finish(g) /\ UNCHANGED enabled
    BY <1>4 DEF StepFails
  <2> QED
    BY <2>3, <2>4, FinishFits DEF CacheInv
<1>5. ASSUME NEW token \in Vocabulary, NEW p \in Positions, DecodeToken(token, p)
      PROVE  CacheInv'
  <2>1. PICK row \in Leavings(token, p) : rows' = [rows EXCEPT ![p] = row]
    BY <1>5 DEF DecodeToken
  <2>2. row \in Seq(Vocabulary)
    BY LeavingsType DEF CacheInv
  <2>3. DeviceTypes' /\ PrefixExact'
    BY <1>5, <2>1, <2>2, CutKeepsExact DEF DecodeToken, CacheInv
  <2> QED
    BY <1>5, <2>3, GensUntouched DEF DecodeToken, CacheInv
<1>6. CASE Warmup
  <2>1. DeviceTypes'
    BY <1>6, EmptyIsText DEF Warmup, DeviceTypes, Mixed, Vocabulary, Positions
  <2>2. PrefixExact'
    BY <1>6, EmptyIsText, ContextFacts DEF Warmup, PrefixExact
  <2> QED
    BY <1>6, <2>1, <2>2, GensUntouched DEF Warmup, CacheInv
<1>7. CASE ResetPrefix
  <2>1. DeviceTypes'
    BY <1>7, EmptyIsText DEF ResetPrefix, CacheInv, DeviceTypes, Vocabulary, Positions
  <2>2. PrefixExact'
    BY <1>7, EmptyIsText, ContextFacts DEF ResetPrefix, PrefixExact
  <2> QED
    BY <1>7, <2>1, <2>2, GensUntouched DEF ResetPrefix, CacheInv
<1>8. CASE UNCHANGED vars
  BY <1>8, DeviceUntouched, GensUntouched DEF vars, devVars, CacheInv
<1> QED
  BY <1>1, <1>2, <1>3, <1>4, <1>5, <1>6, <1>7, <1>8 DEF Next, GenStep

LEMMA AlwaysCacheInv == Spec => []CacheInv
<1>1. Init => CacheInv
  BY InitCache
<1>2. CacheInv /\ [Next]_vars => CacheInv'
  BY NextCache
<1> QED
  BY <1>1, <1>2, PTL DEF Spec

\* _cached_prefix is always exact: for any interleaving of generators, failed
\* steps, abandoned generations, direct decode_token calls and warm-ups, the
\* rows it lists are those of a fresh run on the tokens it lists.
THEOREM PrefixStaysExact == Spec => []PrefixExact
<1>1. CacheInv => PrefixExact
  BY DEF CacheInv
<1> QED
  BY <1>1, AlwaysCacheInv, PTL

\* The window encode_chat_window was given is enough: decode_token's "position
\* outside the context" error cannot reach a generation.
THEOREM StepsInsideWindow == Spec => []InsideWindow
<1>1. CacheInv => InsideWindow
  <2> SUFFICES ASSUME CacheInv, NEW g \in Gens, phase[g] \in {"prefill", "step"}
               PROVE  pos[g] < Context
      BY DEF InsideWindow
  <2> QED
    BY DecodesInside
<1> QED
  BY <1>1, AlwaysCacheInv, PTL

-----------------------------------------------------------------------------
(* Generations nobody else wrote into *)

SoleType == sole \in SUBSET Gens

\* The rows below the position of such a generation are those of its text.
Owned ==
    \A g \in sole : \A i \in 0..(pos[g] - 1) : rows[i] = Prefix(text[g], i + 1)

FreshInv == CacheInv /\ SoleType /\ Owned /\ FreshLogits

LEMMA InitFresh == Init => FreshInv
BY InitCache DEF Init, FreshInv, SoleType, Owned, FreshLogits

LEMMA SoleStays ==
  ASSUME SoleType, [Next]_vars
  PROVE  SoleType'
<1>1. ASSUME NEW g \in Gens, GenStep(g)
      PROVE  sole' \subseteq sole \cup {g}
  BY <1>1 DEF GenStep, Start, Prefill, ChooseEos, ChooseLast, ChooseToken,
              Resume, Abandon, Step, StepFails
<1>2. ASSUME NEW token \in Vocabulary, NEW p \in Positions, DecodeToken(token, p)
      PROVE  sole' = {}
  BY <1>2 DEF DecodeToken
<1>3. Warmup \/ ResetPrefix \/ UNCHANGED vars => sole' \subseteq sole
  BY DEF Warmup, ResetPrefix, vars
<1> QED
  BY <1>1, <1>2, <1>3 DEF SoleType, Next

\* Decoding the token of the text at the position of such a generation.
LEMMA DecodeOwned ==
  ASSUME FreshInv, NEW g \in sole, phase[g] \in {"prefill", "step"},
         NEW token, token = text[g][pos[g] + 1],
         rows' = [rows EXCEPT ![pos[g]] = NewRow(token, pos[g])]
  PROVE  /\ NewRow(token, pos[g]) = Prefix(text[g], pos[g] + 1)
         /\ \A i \in 0..pos[g] : rows'[i] = Prefix(text[g], i + 1)
<1>0. g \in Gens
  BY DEF FreshInv, SoleType
<1>1. /\ pos[g] \in Positions /\ pos[g] \in Nat /\ Len(text[g]) \in Nat
      /\ pos[g] < Len(text[g]) /\ pos[g] < Context
  BY <1>0, DecodesInside DEF FreshInv
<1>2. text[g] \in Seq(Vocabulary)
  BY <1>0 DEF FreshInv, CacheInv, GenTypes
<1>3. \A i \in 0..(pos[g] - 1) : rows[i] = Prefix(text[g], i + 1)
  BY DEF FreshInv, Owned
<1>4. NewRow(token, pos[g]) = Prefix(text[g], pos[g] + 1)
  BY <1>1, <1>2, <1>3, NewRowExtends DEF FreshInv, CacheInv
<1>5. rows'[pos[g]] = NewRow(token, pos[g])
  BY <1>1 DEF FreshInv, CacheInv, DeviceTypes
<1>6. ASSUME NEW i \in 0..pos[g], i # pos[g]
      PROVE  rows'[i] = Prefix(text[g], i + 1)
  <2>1. i \in 0..(pos[g] - 1) /\ i \in Positions
    BY <1>1, <1>6, ContextFacts
  <2> QED
    BY <1>3, <1>6, <2>1 DEF FreshInv, CacheInv, DeviceTypes
<1> QED
  BY <1>4, <1>5, <1>6

\* What is reused of the cache are rows of a run on the new prompt.
LEMMA ReusedRows ==
  ASSUME CacheInv, NEW prompt \in Prompts, NEW i \in 0..(Reusable(prompt) - 1)
  PROVE  rows[i] = Prefix(prompt, i + 1)
<1> DEFINE n == Reusable(prompt)
<1>1. /\ n \in Nat /\ n < Len(prompt)
      /\ n # 0 => n <= Len(cached) /\ Shares(prompt, n)
  BY ReusableFacts DEF CacheInv
<1>2. i \in Nat /\ i < n /\ n # 0
  BY <1>1
<1>3. /\ cached \in Seq(Vocabulary) /\ Len(cached) \in Nat
      /\ prompt \in Seq(Vocabulary) /\ Len(prompt) \in Nat
  BY LenProperties, PromptFacts DEF CacheInv, DeviceTypes
<1>4. /\ Prefix(cached, n) = Prefix(prompt, n) /\ n \in 0..Len(cached)
      /\ n \in 0..Len(prompt)
  BY <1>1, <1>2, <1>3 DEF Shares
<1>5. i + 1 \in 0..n /\ i + 1 \in 1..Len(cached) /\ (i + 1) - 1 = i
  BY <1>1, <1>2, <1>3
<1>6. rows[i] = Prefix(cached, i + 1)
  BY <1>5 DEF CacheInv, PrefixExact
<1> HIDE DEF n
<1>7. Prefix(cached, i + 1) = Prefix(Prefix(cached, n), i + 1)
  BY <1>3, <1>4, <1>5, PrefixOfPrefix
<1>8. Prefix(prompt, i + 1) = Prefix(Prefix(prompt, n), i + 1)
  BY <1>3, <1>4, <1>5, PrefixOfPrefix
<1> QED
  BY <1>4, <1>6, <1>7, <1>8

LEMMA StartFresh ==
  ASSUME FreshInv, NEW g \in Gens, Start(g)
  PROVE  Owned' /\ FreshLogits'
<1>1. PICK prompt \in Prompts :
        /\ text' = [text EXCEPT ![g] = prompt]
        /\ pos' = [pos EXCEPT ![g] = Reusable(prompt)]
  BY DEF Start
<1>2. /\ text'[g] = prompt /\ pos'[g] = Reusable(prompt) /\ phase'[g] = "prefill"
      /\ rows' = rows /\ sole' = sole \cup {g} /\ basis' = basis
  BY <1>1 DEF Start, devVars, FreshInv, CacheInv, GenTypes
<1>3. \A h \in sole : h # g =>
        text'[h] = text[h] /\ pos'[h] = pos[h] /\ phase'[h] = phase[h]
  BY <1>1 DEF Start, FreshInv, CacheInv, GenTypes, SoleType
<1>4. \A i \in 0..(Reusable(prompt) - 1) : rows[i] = Prefix(prompt, i + 1)
  BY ReusedRows DEF FreshInv
<1>5. Owned'
  BY <1>2, <1>3, <1>4 DEF FreshInv, Owned, Prefix
<1>6. FreshLogits'
  BY <1>2, <1>3 DEF FreshInv, FreshLogits
<1> QED
  BY <1>5, <1>6

LEMMA PrefillFresh ==
  ASSUME FreshInv, NEW g \in Gens, Prefill(g)
  PROVE  Owned' /\ FreshLogits'
<1> DEFINE token == text[g][pos[g] + 1]
<1>1. sole' \subseteq {g} /\ sole' \subseteq sole
  BY DEF Prefill
<1> SUFFICES ASSUME g \in sole
             PROVE  /\ \A i \in 0..(pos'[g] - 1) : rows'[i] = Prefix(text'[g], i + 1)
                    /\ phase'[g] = "choose" => basis'[g] = text'[g]
  BY <1>1 DEF Owned, FreshLogits, Prefix
<1>2. /\ pos[g] \in Nat /\ text[g] \in Seq(Vocabulary)
      /\ phase[g] = "prefill" /\ rows' = [rows EXCEPT ![pos[g]] = NewRow(token, pos[g])]
  BY DEF Prefill, Decode, FreshInv, CacheInv, GenTypes
<1>3. /\ NewRow(token, pos[g]) = Prefix(text[g], pos[g] + 1)
      /\ \A i \in 0..pos[g] : rows'[i] = Prefix(text[g], i + 1)
  BY <1>2, DecodeOwned
<1>4. text' = text /\ pos'[g] = pos[g] + 1
  BY DEF Prefill, FreshInv, CacheInv, GenTypes
<1>5. \A i \in 0..(pos'[g] - 1) : rows'[i] = Prefix(text'[g], i + 1)
  BY <1>2, <1>3, <1>4
<1>6. CASE pos[g] + 1 = Len(text[g])
  <2>1. basis'[g] = Prefix(text[g], Len(text[g]))
    BY <1>3, <1>6 DEF Prefill, FreshInv, CacheInv, GenTypes
  <2> QED
    BY <1>2, <1>4, <1>5, <2>1, PrefixWhole
<1>7. CASE pos[g] + 1 # Len(text[g])
  BY <1>2, <1>5, <1>7 DEF Prefill
<1> QED
  BY <1>6, <1>7

LEMMA StepFresh ==
  ASSUME FreshInv, NEW g \in Gens, Step(g)
  PROVE  Owned' /\ FreshLogits'
<1>1. sole' \subseteq {g} /\ sole' \subseteq sole
  BY DEF Step
<1> SUFFICES ASSUME g \in sole
             PROVE  /\ \A i \in 0..(pos'[g] - 1) : rows'[i] = Prefix(text'[g], i + 1)
                    /\ basis'[g] = text'[g]
  BY <1>1 DEF Owned, FreshLogits, Prefix
<1>2. /\ pos[g] \in Nat /\ text[g] \in Seq(Vocabulary) /\ phase[g] = "step"
      /\ next[g] = text[g][pos[g] + 1] /\ pos[g] + 1 = Len(text[g])
      /\ rows' = [rows EXCEPT ![pos[g]] = NewRow(next[g], pos[g])]
  BY DEF Step, Decode, FreshInv, CacheInv, GenTypes, Fits
<1>3. /\ NewRow(next[g], pos[g]) = Prefix(text[g], pos[g] + 1)
      /\ \A i \in 0..pos[g] : rows'[i] = Prefix(text[g], i + 1)
  BY <1>2, DecodeOwned
<1>4. /\ text' = text /\ pos'[g] = pos[g] + 1
      /\ basis'[g] = NewRow(next[g], pos[g])
  BY DEF Step, FreshInv, CacheInv, GenTypes
<1>5. \A i \in 0..(pos'[g] - 1) : rows'[i] = Prefix(text'[g], i + 1)
  BY <1>2, <1>3, <1>4
<1> QED
  BY <1>2, <1>3, <1>4, <1>5, PrefixWhole

LEMMA ChooseTokenFresh ==
  ASSUME FreshInv, NEW g \in Gens, ChooseToken(g)
  PROVE  Owned' /\ FreshLogits'
<1>1. /\ text[g] \in Seq(Vocabulary) /\ next[g] \in Vocabulary
      /\ phase[g] = "choose" /\ pos[g] = Len(text[g]) /\ pos[g] \in Nat
  BY DEF ChooseToken, FreshInv, CacheInv, GenTypes, Fits
<1>2. /\ rows' = rows /\ pos' = pos /\ sole' = sole
      /\ text'[g] = Append(text[g], next[g]) /\ phase'[g] # "choose"
  BY DEF ChooseToken, devVars, FreshInv, CacheInv, GenTypes
<1>3. \A h \in sole : h # g =>
        text'[h] = text[h] /\ phase'[h] = phase[h] /\ basis'[h] = basis[h]
  BY DEF ChooseToken, FreshInv, CacheInv, GenTypes, SoleType
<1>4. FreshLogits'
  BY <1>2, <1>3 DEF FreshInv, FreshLogits
<1>5. ASSUME g \in sole, NEW i \in 0..(pos[g] - 1)
      PROVE  rows[i] = Prefix(Append(text[g], next[g]), i + 1)
  <2>1. i + 1 \in 0..Len(text[g])
    BY <1>1
  <2>2. Prefix(Append(text[g], next[g]), i + 1) = Prefix(text[g], i + 1)
    BY <1>1, <2>1, PrefixOfAppend
  <2> QED
    BY <1>1, <1>5, <2>2 DEF FreshInv, Owned
<1>6. ASSUME NEW h \in sole, NEW i \in 0..(pos[h] - 1)
      PROVE  rows[i] = Prefix(text'[h], i + 1)
  <2>1. CASE h = g
    BY <1>2, <1>5, <2>1
  <2>2. CASE h # g
    BY <1>3, <2>2 DEF FreshInv, Owned
  <2> QED
    BY <2>1, <2>2
<1>7. Owned'
  BY <1>2, <1>6 DEF Owned, Prefix
<1> QED
  BY <1>4, <1>7

\* A generation that ends takes nothing from the others.
LEMMA FinishFresh ==
  ASSUME FreshInv, NEW g \in Gens, Finish(g), sole' = sole \ {g}, rows' = rows
  PROVE  Owned' /\ FreshLogits'
<1>1. \A h \in sole' :
        /\ h \in sole /\ text'[h] = text[h] /\ pos'[h] = pos[h]
        /\ phase'[h] = phase[h] /\ basis'[h] = basis[h]
  BY DEF Finish, FreshInv, CacheInv, GenTypes, SoleType
<1> QED
  BY <1>1 DEF FreshInv, Owned, FreshLogits, Prefix

LEMMA RestFresh ==
  ASSUME FreshInv, UNCHANGED <<rows, phase, text, pos, basis, sole>>
  PROVE  Owned' /\ FreshLogits'
BY DEF FreshInv, Owned, FreshLogits, Prefix

LEMMA NextFresh == FreshInv /\ [Next]_vars => FreshInv'
<1> SUFFICES ASSUME FreshInv, [Next]_vars PROVE FreshInv'
    OBVIOUS
<1>1. CacheInv' /\ SoleType'
  BY NextCache, SoleStays DEF FreshInv
<1> SUFFICES Owned' /\ FreshLogits'
    BY <1>1 DEF FreshInv
<1>2. ASSUME NEW g \in Gens, Start(g) \/ Prefill(g) \/ ChooseToken(g) \/ Step(g)
      PROVE  Owned' /\ FreshLogits'
  BY <1>2, StartFresh, PrefillFresh, ChooseTokenFresh, StepFresh
<1>3. ASSUME NEW g \in Gens, ChooseEos(g) \/ ChooseLast(g) \/ Abandon(g)
      PROVE  Owned' /\ FreshLogits'
  <2>1. Finish(g) /\ sole' = sole \ {g} /\ rows' = rows
    BY <1>3 DEF ChooseEos, ChooseLast, Abandon, devVars
  <2> QED
    BY <2>1, FinishFresh
<1>4. ASSUME NEW g \in Gens, Resume(g)
      PROVE  Owned' /\ FreshLogits'
  <2>1. CASE made[g] < MaxNew
    <3>1. phase' = [phase EXCEPT ![g] = "step"]
          /\ UNCHANGED <<rows, text, pos, basis, sole>>
      BY <1>4, <2>1 DEF Resume, devVars
    <3>2. \A h \in sole : phase'[h] = "choose" => phase[h] = "choose"
      BY <3>1 DEF FreshInv, CacheInv, GenTypes, SoleType
    <3> QED
      BY <3>1, <3>2 DEF FreshInv, Owned, FreshLogits, Prefix
  <2>2. CASE ~(made[g] < MaxNew)
    <3>1. Finish(g) /\ sole' = sole \ {g} /\ rows' = rows
      BY <1>4, <2>2 DEF Resume, devVars
    <3> QED
      BY <3>1, FinishFresh
  <2> QED
    BY <2>1, <2>2
<1>5. ASSUME \/ \E g \in Gens : StepFails(g)
             \/ \E token \in Vocabulary, p \in Positions : DecodeToken(token, p)
             \/ Warmup
      PROVE  Owned' /\ FreshLogits'
  <2>1. sole' = {}
    BY <1>5 DEF StepFails, DecodeToken, Warmup
  <2> QED
    BY <2>1 DEF Owned, FreshLogits
<1>6. CASE ResetPrefix
  BY <1>6, RestFresh DEF ResetPrefix, genVars
<1>7. CASE UNCHANGED vars
  BY <1>7, RestFresh DEF vars, devVars, genVars
<1> QED
  BY <1>2, <1>3, <1>4, <1>5, <1>6, <1>7 DEF Next, GenStep

LEMMA AlwaysFresh == Spec => []FreshInv
<1>1. Init => FreshInv
  BY InitFresh
<1>2. FreshInv /\ [Next]_vars => FreshInv'
  BY NextFresh
<1> QED
  BY <1>1, <1>2, PTL DEF Spec

\* Every variable stays in its type: no generator emits more than
\* max_new_tokens or decodes outside the cache, whatever fails or is abandoned.
THEOREM TypeCorrect == Spec => []TypeOK
<1>1. FreshInv => TypeOK
  <2> SUFFICES ASSUME FreshInv PROVE TypeOK
      OBVIOUS
  <2>1. ASSUME NEW g \in Gens
        PROVE  made[g] \in 0..MaxNew /\ pos[g] \in 0..Context
    <3>1. /\ made[g] \in Nat /\ pos[g] \in Nat /\ Len(text[g]) \in Nat
          /\ phase[g] \in Phases /\ Fits(g)
      BY LenProperties DEF FreshInv, CacheInv, GenTypes
    <3>2. made[g] <= MaxNew /\ pos[g] <= Context
      BY <3>1, ContextFacts DEF Fits, Phases
    <3> QED
      BY <3>1, <3>2, ContextFacts
  <2>2. made \in [Gens -> 0..MaxNew] /\ pos \in [Gens -> 0..Context]
    BY <2>1 DEF FreshInv, CacheInv, GenTypes
  <2> QED
    BY <2>2 DEF FreshInv, CacheInv, DeviceTypes, GenTypes, SoleType, TypeOK
<1> QED
  BY <1>1, AlwaysFresh, PTL

\* Reuse cannot change a greedy answer: a generation nobody wrote into since
\* its start chooses every token from the logits of exactly the text it
\* continues, whatever the cache went through before.
THEOREM ReuseIsInvisible == Spec => []FreshLogits
<1>1. FreshInv => FreshLogits
  BY DEF FreshInv
<1> QED
  BY <1>1, AlwaysFresh, PTL
=============================================================================
