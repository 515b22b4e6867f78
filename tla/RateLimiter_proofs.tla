------------------------- MODULE RateLimiter_proofs -------------------------
(***************************************************************************)
(* Theorems about RateLimiter for any number of requests and clients, any  *)
(* limit, any window and any skew.  A client's deque is what is left of the*)
(* log of its accepted requests after some of the oldest were forgotten    *)
(* (Suffixes); what was forgotten is older than the shortened window for   *)
(* every thread that has yet to take the lock (Forgotten), since all those *)
(* threads read the clock at most Skew ticks before the one that forgot.   *)
(***************************************************************************)
EXTENDS RateLimiter, SequenceTheorems, FiniteSetTheorems, WellFoundedInduction, TLAPS

-----------------------------------------------------------------------------
(* Deques *)

\* r is what is left of s when its first d entries are gone.
Rest(r, s, d) ==
    /\ d \in 0..Len(s)
    /\ Len(r) = Len(s) - d
    /\ \A i \in 1..Len(r) : r[i] = s[d + i]

LEMMA NothingGone ==
  ASSUME NEW s \in Seq(Nat)
  PROVE  Rest(s, s, 0)
BY LenProperties DEF Rest

LEMMA AllGone ==
  ASSUME NEW s \in Seq(Nat)
  PROVE  Rest(<<>>, s, Len(s))
BY LenProperties, EmptySeq DEF Rest

LEMMA RestOfRest ==
  ASSUME NEW q \in Seq(Nat), NEW r \in Seq(Nat), NEW s \in Seq(Nat),
         NEW d, NEW e, Rest(q, r, d), Rest(r, s, e)
  PROVE  /\ Rest(q, s, e + d)
         /\ \A i \in 1..(e + d) : i \in 1..e \/ (i - e \in 1..d /\ s[i] = r[i - e])
<1> DEFINE k == Len(q)  l == Len(r)  m == Len(s)
<1>1. k \in Nat /\ l \in Nat /\ m \in Nat
  BY LenProperties
<1>2. d \in 0..l /\ k = l - d /\ \A i \in 1..k : q[i] = r[d + i]
  BY DEF Rest
<1>3. e \in 0..m /\ l = m - e /\ \A i \in 1..l : r[i] = s[e + i]
  BY DEF Rest
<1> HIDE DEF k, l, m
<1>4. e + d \in 0..m /\ k = m - (e + d)
  BY <1>1, <1>2, <1>3
<1>5. ASSUME NEW i \in 1..k
      PROVE  q[i] = s[(e + d) + i]
  <2>1. d + i \in 1..l /\ e + (d + i) = (e + d) + i
    BY <1>1, <1>2, <1>3
  <2> QED
    BY <1>2, <1>3, <2>1
<1>6. ASSUME NEW i \in 1..(e + d), i \notin 1..e
      PROVE  i - e \in 1..d /\ s[i] = r[i - e]
  <2>1. i - e \in 1..d /\ i - e \in 1..l /\ e + (i - e) = i
    BY <1>1, <1>2, <1>3, <1>6
  <2> QED
    BY <1>3, <2>1
<1> QED
  BY <1>4, <1>5, <1>6 DEF Rest, k, l, m

LEMMA RestAppend ==
  ASSUME NEW r \in Seq(Nat), NEW s \in Seq(Nat), NEW d, Rest(r, s, d), NEW x \in Nat
  PROVE  Rest(Append(r, x), Append(s, x), d)
<1> DEFINE l == Len(r)  m == Len(s)  R == Append(r, x)  S == Append(s, x)
<1>1. l \in Nat /\ m \in Nat
  BY LenProperties
<1>2. d \in 0..m /\ l = m - d /\ \A i \in 1..l : r[i] = s[d + i]
  BY DEF Rest
<1>3. Len(R) = l + 1 /\ R[l + 1] = x /\ \A i \in 1..l : R[i] = r[i]
  BY AppendProperties
<1>4. Len(S) = m + 1 /\ S[m + 1] = x /\ \A i \in 1..m : S[i] = s[i]
  BY AppendProperties
<1> HIDE DEF l, m, R, S
<1>5. ASSUME NEW i \in 1..(l + 1)
      PROVE  R[i] = S[d + i]
  <2>1. CASE i = l + 1
    <3>1. d + i = m + 1
      BY <1>1, <1>2, <2>1
    <3> QED
      BY <1>3, <1>4, <2>1, <3>1
  <2>2. CASE i # l + 1
    <3>1. i \in 1..l /\ d + i \in 1..m
      BY <1>1, <1>2, <2>2
    <3> QED
      BY <1>2, <1>3, <1>4, <3>1
  <2> QED
    BY <2>1, <2>2
<1>6. d \in 0..(m + 1) /\ l + 1 = (m + 1) - d
  BY <1>1, <1>2
<1> QED
  BY <1>3, <1>4, <1>5, <1>6 DEF Rest, R, S

LEMMA LeastLive ==
  ASSUME NEW T \in SUBSET Nat, T # {}
  PROVE  (CHOOSE i \in T : \A j \in T : i <= j) \in T
         /\ \A j \in T : (CHOOSE i \in T : \A k \in T : i <= k) <= j
<1>1. PICK x \in T : \A y \in T : ~(<<y, x>> \in OpToRel(<, Nat))
  BY WFMin, NatLessThanWellFounded, Zenon
<1>2. \A y \in T : x <= y
  <2>1. SUFFICES ASSUME NEW y \in T PROVE x <= y
    OBVIOUS
  <2>2. <<y, x>> \in Nat \X Nat /\ <<y, x>>[1] = y /\ <<y, x>>[2] = x
    OBVIOUS
  <2>3. ~(y < x)
    BY <1>1, <2>2 DEF OpToRel
  <2> QED
    BY <2>3
<1> QED
  BY <1>2

\* Popping drops a run of expired entries and stops at one that is live.
LEMMA DropExpiredRest ==
  ASSUME NEW h \in Seq(Nat), NEW now \in Nat
  PROVE  /\ DropExpired(h, now) \in Seq(Nat)
         /\ \E d \in 0..Len(h) :
               /\ Rest(DropExpired(h, now), h, d)
               /\ \A i \in 1..d : Expired(h[i], now)
               /\ d < Len(h) => ~Expired(h[d + 1], now)
<1> DEFINE n == Len(h)
           live == {i \in 1..n : ~Expired(h[i], now)}
           first == CHOOSE i \in live : \A j \in live : i <= j
<1>1. n \in Nat /\ \A i \in 1..n : h[i] \in Nat
  BY LenProperties, ElementOfSeq
<1>2. CASE live = {}
  <2>1. DropExpired(h, now) = <<>>
    BY <1>2 DEF DropExpired
  <2>2. \A i \in 1..n : Expired(h[i], now)
    BY <1>2
  <2> QED
    BY <1>1, <2>1, <2>2, AllGone, EmptySeq
<1>3. CASE live # {}
  <2>1. live \in SUBSET Nat
    BY <1>1
  <2> DEFINE f == first
  <2>2. f \in live /\ \A j \in live : f <= j
    BY <1>3, <2>1, LeastLive
  <2>3. DropExpired(h, now) = SubSeq(h, f, n)
    BY <1>3 DEF DropExpired
  <2>4. f \in 1..n /\ ~Expired(h[f], now)
    BY <2>2
  <2>5. \A i \in 1..(f - 1) : Expired(h[i], now)
    <3> SUFFICES ASSUME NEW i \in 1..(f - 1), ~Expired(h[i], now)
                 PROVE  FALSE
      OBVIOUS
    <3>1. i \in 1..n /\ ~(f <= i)
      BY <1>1, <2>4
    <3> QED
      BY <2>2, <3>1
  <2> HIDE DEF f, first, live
  <2> DEFINE s == SubSeq(h, f, n)
  <2>6. s \in Seq(Nat) /\ Len(s) = n - (f - 1)
    <3>1. f \in Int /\ n \in Int /\ \A i \in f..n : h[i] \in Nat
      BY <1>1, <2>4
    <3>2. s \in Seq(Nat) /\ Len(s) = IF f <= n THEN n - f + 1 ELSE 0
      BY <3>1, SubSeqProperties
    <3> QED
      BY <1>1, <2>4, <3>2
  <2>7. \A i \in 1..(n - (f - 1)) : s[i] = h[(f - 1) + i]
    <3>1. f \in Int /\ n \in Int /\ \A i \in f..n : h[i] \in Nat
      BY <1>1, <2>4
    <3>2. \A i \in 1..(n - f + 1) : s[i] = h[f + i - 1]
      BY <3>1, SubSeqProperties
    <3>3. \A i \in 1..(n - (f - 1)) : i \in 1..(n - f + 1) /\ f + i - 1 = (f - 1) + i
      BY <1>1, <2>4
    <3> QED
      BY <3>2, <3>3
  <2> HIDE DEF s, n
  <2>8. f - 1 \in 0..n /\ (f - 1) + 1 = f
    BY <1>1, <2>4
  <2>9. Rest(s, h, f - 1)
    BY <2>6, <2>7, <2>8 DEF Rest, n
  <2> QED
    BY <2>3, <2>4, <2>5, <2>6, <2>8, <2>9 DEF s, n
<1> QED
  BY <1>2, <1>3

-----------------------------------------------------------------------------
(* The inductive invariant *)

LimiterTypes ==
    /\ limit \in Nat
    /\ clock \in Nat
    /\ verdict \in [Requests -> {"new", "timed", "allowed", "denied"}]
    /\ client \in [Requests -> Clients]
    /\ stamp \in [Requests -> Int]
    /\ \A q \in Requests : verdict[q] = "timed" => limit > 0 /\ stamp[q] \in 0..clock
    /\ history \in [Clients -> Seq(Nat)]
    /\ keys \subseteq Clients
    /\ \A c \in Clients \ keys : history[c] = <<>>
    /\ nextCleanup \in Nat
    /\ log \in [Clients -> Seq(Nat)]
    /\ latest \in Int
    /\ ordered \in BOOLEAN

\* The times at which some thread may still decide: what those before the lock
\* have read, and what the next one will read at the earliest.
Pending == {clock} \cup {stamp[q] : q \in {p \in Requests : verdict[p] = "timed"}}

\* How many accepted requests the deque of c no longer holds
Gone(c) == Len(log[c]) - Len(history[c])

\* Every deque is the newest part of its client's log.
Suffixes == \A c \in Clients : Rest(history[c], log[c], Gone(c))

\* Entries are out of order by at most the skew, and nobody is that far behind.
NearlyOrdered ==
    \A c \in Clients : \A j \in 1..Len(log[c]) :
        /\ \A i \in 1..(j - 1) : log[c][i] <= log[c][j] + Skew
        /\ \A n \in Pending : log[c][j] <= n + Skew

\* What a deque has lost no pending decision can still count in the shortened
\* window.
Forgotten ==
    \A c \in Clients : \A i \in 1..Gone(c) : \A n \in Pending :
        n - log[c][i] >= Window - 2 * Skew

\* A client is stored with its entries, and not long beyond the next cleanup,
\* which itself is never far ahead of a pending decision.
KeysAreFresh ==
    /\ latest < nextCleanup
    /\ \A n \in Pending : nextCleanup <= n + Window + Skew
    /\ \A c \in keys :
          /\ history[c] # <<>>
          /\ \E lag \in {Window, Skew} :
                nextCleanup - history[c][Len(history[c])] <= Window + lag

\* In clock order logs are sorted, and only what has expired is forgotten.
InOrder ==
    ordered => \A c \in Clients :
        /\ \A j \in 1..Len(log[c]) :
              log[c][j] <= latest /\ \A i \in 1..(j - 1) : log[c][i] <= log[c][j]
        /\ \A i \in 1..Gone(c) : Expired(log[c][i], latest)

LimiterInv ==
    /\ LimiterTypes
    /\ Suffixes
    /\ NearlyOrdered
    /\ Forgotten
    /\ KeysAreFresh
    /\ InOrder

LEMMA InitLimiter == Init => LimiterInv
<1> SUFFICES ASSUME Init PROVE LimiterInv
  OBVIOUS
<1> USE DEF Init
<1>1. Len(<<>>) = 0 /\ <<>> \in Seq(Nat)
  BY EmptySeq
<1>2. \A c \in Clients : history[c] = <<>> /\ log[c] = <<>> /\ Gone(c) = 0
  BY <1>1 DEF Gone
<1>3. Pending = {0}
  BY DEF Pending
<1>4. LimiterTypes
  BY <1>1, LimiterAssumption DEF LimiterTypes, NoStamp
<1>5. Suffixes
  BY <1>1, <1>2 DEF Suffixes, Rest
<1>6. NearlyOrdered /\ Forgotten /\ InOrder
  BY <1>1, <1>2 DEF NearlyOrdered, Forgotten, InOrder
<1>7. KeysAreFresh
  BY <1>3, LimiterAssumption DEF KeysAreFresh, NoStamp
<1> QED
  BY <1>4, <1>5, <1>6, <1>7 DEF LimiterInv

-----------------------------------------------------------------------------
(* Steps before the lock *)

\* Without the lock only time passes: no deque, log or cleanup time changes,
\* and nobody will decide at an earlier time than before.
LEMMA OutsideLock ==
  ASSUME LimiterInv, LimiterTypes',
         UNCHANGED <<history, keys, nextCleanup, log, latest, ordered>>,
         \A n \in Pending' : \E m \in Pending : m <= n
  PROVE  LimiterInv'
<1>1. /\ \A n \in Pending : n \in Int
      /\ \A n \in Pending' : n \in Int
  BY DEF LimiterInv, LimiterTypes, Pending
<1>2. \A c \in Clients : /\ Gone(c)' = Gone(c)
                         /\ log[c] \in Seq(Nat) /\ history[c] \in Seq(Nat)
                         /\ Len(log[c]) \in Nat /\ Len(history[c]) \in Nat
                         /\ \A i \in 1..Len(log[c]) : log[c][i] \in Nat
  BY LenProperties, ElementOfSeq DEF LimiterInv, LimiterTypes, Gone
<1>3. Suffixes' /\ InOrder'
  BY <1>2 DEF LimiterInv, Suffixes, InOrder
<1>4. NearlyOrdered'
  <2> SUFFICES ASSUME NEW c \in Clients, NEW j \in 1..Len(log[c]), NEW n \in Pending'
               PROVE  log[c][j] <= n + Skew
    BY DEF LimiterInv, NearlyOrdered
  <2>1. PICK m \in Pending : m <= n
    OBVIOUS
  <2>2. log[c][j] <= m + Skew /\ log[c][j] \in Nat
    BY <1>2 DEF LimiterInv, NearlyOrdered
  <2> QED
    BY <1>1, <2>1, <2>2, LimiterAssumption
<1>5. Forgotten'
  <2> SUFFICES ASSUME NEW c \in Clients, NEW i \in 1..Gone(c), NEW n \in Pending'
               PROVE  n - log[c][i] >= Window - 2 * Skew
    BY <1>2 DEF Forgotten
  <2>1. PICK m \in Pending : m <= n
    OBVIOUS
  <2>2. Gone(c) \in 0..Len(log[c])
    BY DEF LimiterInv, Suffixes, Rest
  <2>3. i \in 1..Len(log[c])
    BY <1>2, <2>2
  <2>4. m - log[c][i] >= Window - 2 * Skew /\ log[c][i] \in Nat
    BY <1>2, <2>3 DEF LimiterInv, Forgotten
  <2> QED
    BY <1>1, <2>1, <2>4, LimiterAssumption
<1>6. KeysAreFresh'
  <2> SUFFICES ASSUME NEW n \in Pending'
               PROVE  nextCleanup <= n + Window + Skew
    BY DEF LimiterInv, KeysAreFresh
  <2>1. PICK m \in Pending : m <= n
    OBVIOUS
  <2>2. nextCleanup <= m + Window + Skew /\ nextCleanup \in Nat
    BY DEF LimiterInv, LimiterTypes, KeysAreFresh
  <2> QED
    BY <1>1, <2>1, <2>2, LimiterAssumption
<1> QED
  BY <1>3, <1>4, <1>5, <1>6 DEF LimiterInv

LEMMA TickStep ==
  ASSUME LimiterInv, Tick
  PROVE  LimiterInv'
<1>1. LimiterTypes'
  BY DEF LimiterInv, LimiterTypes, Tick, historyVars
<1>2. clock \in Int /\ clock <= clock' /\ clock \in Pending
  BY DEF LimiterInv, LimiterTypes, Tick, Pending
<1>3. \A n \in Pending' : n = clock' \/ n \in Pending
  BY DEF Pending, Tick
<1>4. \A n \in Pending : n <= n
  BY DEF LimiterInv, LimiterTypes, Pending
<1>5. \A n \in Pending' : \E m \in Pending : m <= n
  BY <1>2, <1>3, <1>4
<1> QED
  BY <1>1, <1>5, OutsideLock DEF Tick, historyVars

LEMMA ReadClockStep ==
  ASSUME LimiterInv, NEW r \in Requests, ReadClock(r)
  PROVE  LimiterInv'
<1>1. LimiterTypes'
  BY DEF LimiterInv, LimiterTypes, ReadClock, historyVars
<1>2. \A n \in Pending' : n \in Pending
  BY DEF Pending, ReadClock, LimiterInv, LimiterTypes
<1>3. \A n \in Pending : n \in Int
  BY DEF LimiterInv, LimiterTypes, Pending
<1>4. \A n \in Pending' : \E m \in Pending : m <= n
  BY <1>2, <1>3
<1> QED
  BY <1>1, <1>4, OutsideLock DEF ReadClock, historyVars

LEMMA UnlimitedStep ==
  ASSUME LimiterInv, NEW r \in Requests, Unlimited(r)
  PROVE  LimiterInv'
<1>1. LimiterTypes'
  BY DEF LimiterInv, LimiterTypes, Unlimited, historyVars
<1>2. \A n \in Pending' : n \in Pending
  BY DEF Pending, Unlimited, LimiterInv, LimiterTypes
<1>3. \A n \in Pending : n \in Int
  BY DEF LimiterInv, LimiterTypes, Pending
<1>4. \A n \in Pending' : \E m \in Pending : m <= n
  BY <1>2, <1>3
<1> QED
  BY <1>1, <1>4, OutsideLock DEF Unlimited, historyVars

-----------------------------------------------------------------------------
(* The decision under the lock *)

\* r is h without its first d entries, which had expired or stood before a
\* newest entry that had.
Forgets(r, h, d, now) ==
    /\ Rest(r, h, d)
    /\ \A i \in 1..d : Expired(h[i], now) \/ Expired(h[Len(h)], now)

LiveFrom(h, d, now) == d < Len(h) => ~Expired(h[d + 1], now)

LEMMA RecentRest ==
  ASSUME LimiterTypes, NEW c \in Clients, NEW now \in Nat
  PROVE  /\ Recent(c, now) \in Seq(Nat)
         /\ \E d \in 0..Len(history[c]) :
               Forgets(Recent(c, now), history[c], d, now) /\ LiveFrom(history[c], d, now)
<1> DEFINE h == history[c]
<1>1. h \in Seq(Nat) /\ Len(h) \in Nat
  BY LenProperties DEF LimiterTypes
<1>2. CASE c \in Pruned(now)
  <2>1. Recent(c, now) = DropExpired(h, now)
    BY <1>2 DEF Recent
  <2> QED
    BY <1>1, <2>1, DropExpiredRest DEF Forgets, LiveFrom
<1>3. CASE c \notin Pruned(now)
  <2>1. Recent(c, now) = <<>>
    BY <1>3 DEF Recent
  <2>2. h = <<>> \/ Expired(h[Len(h)], now)
    BY <1>3 DEF Pruned, Stale, LimiterTypes
  <2>3. Rest(<<>>, h, Len(h))
    BY <1>1, AllGone
  <2>4. h = <<>> => 1..Len(h) = {}
    BY EmptySeq
  <2> QED
    BY <1>1, <2>1, <2>2, <2>3, <2>4, EmptySeq DEF Forgets, LiveFrom
<1> QED
  BY <1>2, <1>3

\* What allow() does to the deque and the log of client k.
LEMMA ApplyEffect ==
  ASSUME LimiterInv, NEW r \in Requests, Apply(r), NEW k \in Clients
  PROVE  \E rest \in Seq(Nat), d \in 0..Len(history[k]) :
            /\ Forgets(rest, history[k], d, stamp[r])
            /\ k = client[r] => rest = Recent(k, stamp[r]) /\ LiveFrom(history[k], d, stamp[r])
            /\ IF k = client[r] /\ Granted(rest)
               THEN history'[k] = Append(rest, stamp[r]) /\ log'[k] = Append(log[k], stamp[r])
               ELSE history'[k] = rest /\ log'[k] = log[k]
<1> DEFINE now == stamp[r]  c == client[r]  h == history[k]
<1>1. now \in Nat /\ c \in Clients
  BY DEF LimiterInv, LimiterTypes, Apply
<1>2. h \in Seq(Nat) /\ Len(h) \in Nat /\ log \in [Clients -> Seq(Nat)]
  BY LenProperties DEF LimiterInv, LimiterTypes
<1>3. CASE k = c
  <2>1. /\ Recent(k, now) \in Seq(Nat)
        /\ \E d \in 0..Len(h) :
              Forgets(Recent(k, now), h, d, now) /\ LiveFrom(h, d, now)
    BY <1>1, RecentRest DEF LimiterInv
  <2>2. /\ history'[k] = IF Granted(Recent(k, now)) THEN Append(Recent(k, now), now) ELSE Recent(k, now)
        /\ log'[k] = IF Granted(Recent(k, now)) THEN Append(log[k], now) ELSE log[k]
    BY <1>2, <1>3 DEF Apply
  <2> QED
    BY <1>3, <2>1, <2>2
<1>4. CASE k # c
  <2>1. log'[k] = log[k]
    BY <1>1, <1>2, <1>4 DEF Apply
  <2>2. CASE k \in Pruned(now)
    <3>1. history'[k] = h
      BY <1>4, <2>2 DEF Apply
    <3> QED
      BY <1>2, <1>4, <2>1, <3>1, NothingGone DEF Forgets
  <2>3. CASE k \notin Pruned(now)
    <3>1. history'[k] = <<>>
      BY <1>4, <2>3 DEF Apply
    <3>2. Recent(k, now) = <<>>
      BY <2>3 DEF Recent
    <3>3. \E d \in 0..Len(h) : Forgets(<<>>, h, d, now)
      BY <1>1, <3>2, RecentRest DEF LimiterInv
    <3> QED
      BY <1>4, <2>1, <3>1, <3>3, EmptySeq
  <2> QED
    BY <2>2, <2>3
<1> QED
  BY <1>3, <1>4

\* Who is still waiting for the lock decides at a time at most Skew earlier.
LEMMA NobodyFarBehind ==
  ASSUME LimiterInv, NEW r \in Requests, Timely(r), Apply(r)
  PROVE  /\ stamp[r] \in Pending
         /\ \A n \in Pending : n \in Nat /\ stamp[r] <= n + Skew
         /\ Pending' \subseteq Pending
<1>1. stamp[r] \in 0..clock /\ clock \in Nat /\ verdict[r] = "timed"
  BY DEF Apply, LimiterInv, LimiterTypes
<1>2. \A n \in Pending : n \in Nat /\ stamp[r] <= n + Skew
  <2> SUFFICES ASSUME NEW n \in Pending PROVE n \in Nat /\ stamp[r] <= n + Skew
    OBVIOUS
  <2>1. CASE n = clock
    BY <1>1, <2>1, LimiterAssumption
  <2>2. ASSUME NEW q \in Requests, verdict[q] = "timed", n = stamp[q]
        PROVE  n \in Nat /\ stamp[r] <= n + Skew
    BY <2>2 DEF Timely, LimiterInv, LimiterTypes
  <2> QED
    BY <2>1, <2>2 DEF Pending
<1>3. Pending' \subseteq Pending
  BY DEF Apply, Pending, LimiterInv, LimiterTypes
<1> QED
  BY <1>1, <1>2, <1>3 DEF Pending

\* The same for the log: what the deque of k holds after the call is the newest
\* part of k's log, and what it no longer holds was gone before or had expired,
\* itself or the newest entry after it.
LEMMA ApplyForgets ==
  ASSUME LimiterInv, NEW r \in Requests, Apply(r), NEW k \in Clients
  PROVE  /\ history'[k] \in Seq(Nat) /\ log'[k] \in Seq(Nat)
         /\ Rest(history'[k], log'[k], Gone(k)')
         /\ Gone(k)' \in 0..Len(log[k])
         /\ \A i \in 1..Len(log[k]) : log'[k][i] = log[k][i]
         /\ \A i \in 1..Gone(k)' :
               \/ i \in 1..Gone(k)
               \/ Expired(log[k][i], stamp[r])
               \/ i <= Len(log[k]) /\ Expired(log[k][Len(log[k])], stamp[r])
         /\ \/ Len(log'[k]) = Len(log[k])
            \/ /\ Len(log'[k]) = Len(log[k]) + 1
               /\ log'[k][Len(log[k]) + 1] = stamp[r]
<1> DEFINE now == stamp[r]  h == history[k]  l == log[k]
<1>1. now \in Nat /\ h \in Seq(Nat) /\ l \in Seq(Nat)
  BY DEF LimiterInv, LimiterTypes, Apply
<1>2. PICK rest \in Seq(Nat), d \in 0..Len(h) :
         /\ Forgets(rest, h, d, now)
         /\ \/ history'[k] = rest /\ log'[k] = l
            \/ history'[k] = Append(rest, now) /\ log'[k] = Append(l, now)
  BY ApplyEffect
<1> DEFINE g == Gone(k)  e == g + d  m == Len(l)
<1>3. Rest(h, l, g)
  BY DEF LimiterInv, Suffixes
<1>4. /\ Rest(rest, l, e)
      /\ \A i \in 1..e : i \in 1..g \/ (i - g \in 1..d /\ l[i] = h[i - g])
  BY <1>1, <1>2, <1>3, RestOfRest, SMTT(40) DEF Forgets
<1>5. m \in Nat /\ Len(h) \in Nat /\ g \in 0..m /\ Len(h) = m - g
  BY <1>1, <1>3, LenProperties DEF Rest
<1>6. e \in 0..m /\ Len(rest) = m - e
  BY <1>4 DEF Rest
<1>7. /\ Rest(history'[k], log'[k], e) /\ history'[k] \in Seq(Nat) /\ log'[k] \in Seq(Nat)
      /\ \A i \in 1..m : log'[k][i] = l[i]
      /\ Len(log'[k]) = m \/ (Len(log'[k]) = m + 1 /\ log'[k][m + 1] = now)
  <2>1. CASE history'[k] = rest /\ log'[k] = l
    BY <1>1, <1>4, <2>1
  <2>2. CASE history'[k] = Append(rest, now) /\ log'[k] = Append(l, now)
    <3>1. Rest(Append(rest, now), Append(l, now), e)
      BY <1>1, <1>4, RestAppend
    <3>2. /\ Append(l, now) \in Seq(Nat) /\ Len(Append(l, now)) = m + 1
          /\ \A i \in 1..m : Append(l, now)[i] = l[i]
          /\ Append(l, now)[m + 1] = now
      BY <1>1, AppendProperties
    <3>3. Append(rest, now) \in Seq(Nat)
      BY <1>1, AppendProperties
    <3> HIDE DEF h, l, m, e
    <3> QED
      BY <2>2, <3>1, <3>2, <3>3
  <2> QED
    BY <1>2, <2>1, <2>2
<1>8. Gone(k)' = e
  <2> DEFINE a == Len(log'[k])  b == Len(history'[k])
  <2>1. a \in Nat /\ b = a - e
    BY <1>7, LenProperties DEF Rest
  <2>2. Gone(k)' = a - b
    BY DEF Gone
  <2> HIDE DEF a, b, e
  <2>3. e \in Nat
    BY <1>5, <1>6
  <2> QED
    BY <2>1, <2>2, <2>3
<1>9. ASSUME NEW i \in 1..e, i \notin 1..g
      PROVE  i <= m /\ (Expired(l[i], now) \/ Expired(l[m], now))
  <2>1. i - g \in 1..d /\ l[i] = h[i - g]
    BY <1>4, <1>9
  <2>2. Expired(h[i - g], now) \/ Expired(h[Len(h)], now)
    BY <1>2, <2>1 DEF Forgets
  <2> HIDE DEF g, m, e
  <2>3. d \in 0..(m - g) /\ m - g \in 1..(m - g) /\ g + (m - g) = m
    BY <1>5, <2>1
  <2>4. h[Len(h)] = l[m]
    BY <1>3, <1>5, <2>3 DEF Rest
  <2>5. i <= m
    BY <1>5, <1>6
  <2> QED
    BY <2>1, <2>2, <2>4, <2>5
<1> HIDE DEF e
<1> QED
  BY <1>6, <1>7, <1>8, <1>9

LEMMA ApplyTypes ==
  ASSUME LimiterInv, NEW r \in Requests, Apply(r)
  PROVE  LimiterTypes'
<1>1. /\ stamp[r] \in Nat /\ client[r] \in Clients
      /\ limit' = limit /\ clock' = clock /\ client' = client /\ stamp' = stamp
  BY DEF LimiterInv, LimiterTypes, Apply
<1>2. /\ verdict' \in [Requests -> {"new", "timed", "allowed", "denied"}]
      /\ \A q \in Requests : verdict'[q] = "timed" => verdict[q] = "timed"
  BY DEF LimiterInv, LimiterTypes, Apply
<1>3. history' \in [Clients -> Seq(Nat)] /\ log' \in [Clients -> Seq(Nat)]
  <2>1. \A k \in Clients : history'[k] \in Seq(Nat) /\ log'[k] \in Seq(Nat)
    BY ApplyForgets
  <2>2. history' = [k \in Clients |-> history'[k]]
    BY DEF Apply
  <2>3. log' = [k \in Clients |-> log'[k]]
    BY DEF LimiterInv, LimiterTypes, Apply
  <2> QED
    BY <2>1, <2>2, <2>3
<1>4. keys' \subseteq Clients /\ \A k \in Clients \ keys' : history'[k] = <<>>
  BY <1>1 DEF Apply, Pruned, LimiterInv, LimiterTypes
<1>5. nextCleanup' \in Nat
  BY <1>1, LimiterAssumption DEF Apply, NextCleanup, LimiterInv, LimiterTypes
<1>6. latest' \in Int /\ ordered' \in BOOLEAN
  BY <1>1 DEF Apply, LimiterInv, LimiterTypes
<1> QED
  BY <1>1, <1>2, <1>3, <1>4, <1>5, <1>6 DEF LimiterInv, LimiterTypes

LEMMA ApplySuffixes ==
  ASSUME LimiterInv, NEW r \in Requests, Apply(r)
  PROVE  Suffixes'
BY ApplyForgets DEF Suffixes

LEMMA LogEntries ==
  ASSUME LimiterTypes, NEW c \in Clients
  PROVE  Len(log[c]) \in Nat /\ \A i \in 1..Len(log[c]) : log[c][i] \in Nat
BY LenProperties, ElementOfSeq DEF LimiterTypes

LEMMA ApplyNearlyOrdered ==
  ASSUME LimiterInv, NEW r \in Requests, Timely(r), Apply(r)
  PROVE  NearlyOrdered'
<1> SUFFICES ASSUME NEW c \in Clients, NEW j \in 1..Len(log'[c])
             PROVE  /\ \A i \in 1..(j - 1) : log'[c][i] <= log'[c][j] + Skew
                    /\ \A n \in Pending' : log'[c][j] <= n + Skew
  BY DEF NearlyOrdered
<1> DEFINE m == Len(log[c])  now == stamp[r]
<1>1. /\ now \in Pending /\ Pending' \subseteq Pending
      /\ \A n \in Pending : n \in Nat /\ now <= n + Skew
  BY NobodyFarBehind
<1>2. m \in Nat /\ \A i \in 1..m : log[c][i] \in Nat
  BY LogEntries DEF LimiterInv
<1>3. /\ \A i \in 1..m : log'[c][i] = log[c][i]
      /\ \/ Len(log'[c]) = m
         \/ Len(log'[c]) = m + 1 /\ log'[c][m + 1] = now
  BY ApplyForgets
<1>4. \A k \in 1..m : /\ \A i \in 1..(k - 1) : log[c][i] <= log[c][k] + Skew
                      /\ \A n \in Pending : log[c][k] <= n + Skew
  BY DEF LimiterInv, NearlyOrdered
<1> HIDE DEF m, now
<1>5. CASE j \in 1..m
  <2>1. \A i \in 1..(j - 1) : i \in 1..m
    BY <1>2, <1>5
  <2> QED
    BY <1>1, <1>3, <1>4, <1>5, <2>1
<1>6. CASE j \notin 1..m
  <2>1. j = m + 1 /\ log'[c][j] = now /\ 1..(j - 1) = 1..m
    BY <1>2, <1>3, <1>6
  <2> QED
    BY <1>1, <1>3, <1>4, <2>1
<1> QED
  BY <1>5, <1>6

\* What is gone after the call is too old for everyone who was waiting before
\* it, the caller included.
LEMMA GoneIsOld ==
  ASSUME LimiterInv, NEW r \in Requests, Timely(r), Apply(r),
         NEW c \in Clients, NEW i \in 1..Gone(c)', NEW n \in Pending
  PROVE  n - log'[c][i] >= Window - 2 * Skew
<1> DEFINE l == log[c]  m == Len(l)  now == stamp[r]
<1>1. now \in Nat /\ n \in Nat /\ now <= n + Skew
  BY NobodyFarBehind
<1>2. m \in Nat /\ \A j \in 1..m : l[j] \in Nat
  BY LogEntries DEF LimiterInv
<1>3. /\ Gone(c)' \in 0..m
      /\ \A j \in 1..m : log'[c][j] = l[j]
      /\ i \in 1..Gone(c) \/ Expired(l[i], now) \/ (i <= m /\ Expired(l[m], now))
  BY ApplyForgets
<1>4. i \in 1..m /\ log'[c][i] = l[i] /\ l[i] \in Nat
  BY <1>2, <1>3
<1>5. m \in 1..m
  BY <1>2, <1>4
<1>6. l[i] <= l[m] + Skew /\ l[m] \in Nat
  <2>1. i = m \/ i \in 1..(m - 1)
    BY <1>2, <1>4
  <2>2. \A j \in 1..(m - 1) : l[j] <= l[m] + Skew
    BY <1>5 DEF LimiterInv, NearlyOrdered
  <2> QED
    BY <1>2, <1>5, <2>1, <2>2, LimiterAssumption, SMTT(40)
<1>7. i \in 1..Gone(c) => n - l[i] >= Window - 2 * Skew
  BY <1>1 DEF LimiterInv, Forgotten
<1> HIDE DEF l, m, now
<1> QED
  BY <1>1, <1>3, <1>4, <1>6, <1>7, LimiterAssumption DEF Expired

LEMMA ApplyForgotten ==
  ASSUME LimiterInv, NEW r \in Requests, Timely(r), Apply(r)
  PROVE  Forgotten'
BY GoneIsOld, NobodyFarBehind DEF Forgotten

LEMMA ApplyInOrder ==
  ASSUME LimiterInv, NEW r \in Requests, Apply(r)
  PROVE  InOrder'
<1> SUFFICES ASSUME ordered', NEW c \in Clients
             PROVE  /\ \A j \in 1..Len(log'[c]) :
                          /\ log'[c][j] <= latest'
                          /\ \A i \in 1..(j - 1) : log'[c][i] <= log'[c][j]
                    /\ \A i \in 1..Gone(c)' : Expired(log'[c][i], latest')
  BY DEF InOrder
<1> DEFINE l == log[c]  m == Len(l)  now == stamp[r]
<1>1. now \in Nat /\ latest \in Int /\ ordered /\ latest <= now /\ latest' = now
  <2>1. now \in Nat /\ latest \in Int /\ latest' = IF now > latest THEN now ELSE latest
    BY DEF Apply, LimiterInv, LimiterTypes
  <2>2. ordered' = (ordered /\ now >= latest)
    BY DEF Apply
  <2>3. ordered /\ now >= latest
    BY <2>2, Zenon
  <2> QED
    BY <2>1, <2>3
<1>2. m \in Nat /\ \A j \in 1..m : l[j] \in Nat
  BY LogEntries DEF LimiterInv
<1>3. /\ Gone(c)' \in 0..m
      /\ \A j \in 1..m : log'[c][j] = l[j]
      /\ \A i \in 1..Gone(c)' :
            i \in 1..Gone(c) \/ Expired(l[i], now) \/ (i <= m /\ Expired(l[m], now))
      /\ \/ Len(log'[c]) = m
         \/ Len(log'[c]) = m + 1 /\ log'[c][m + 1] = now
  BY ApplyForgets
<1>4. /\ \A j \in 1..m : l[j] <= latest /\ \A i \in 1..(j - 1) : l[i] <= l[j]
      /\ \A i \in 1..Gone(c) : Expired(l[i], latest)
  BY <1>1 DEF LimiterInv, InOrder
<1> HIDE DEF l, m, now
<1>5. ASSUME NEW j \in 1..Len(log'[c])
      PROVE  log'[c][j] <= now /\ \A i \in 1..(j - 1) : log'[c][i] <= log'[c][j]
  <2>1. CASE j \in 1..m
    <3>1. \A i \in 1..(j - 1) : i \in 1..m
      BY <1>2, <2>1
    <3> QED
      BY <1>1, <1>2, <1>3, <1>4, <2>1, <3>1, SMTT(40)
  <2>2. CASE j \notin 1..m
    <3>1. log'[c][j] = now /\ 1..(j - 1) = 1..m
      BY <1>2, <1>3, <2>2
    <3> QED
      BY <1>1, <1>2, <1>3, <1>4, <3>1
  <2> QED
    BY <2>1, <2>2
<1>6. ASSUME NEW i \in 1..Gone(c)'
      PROVE  Expired(log'[c][i], now)
  <2>1. i \in 1..m /\ m \in 1..m /\ log'[c][i] = l[i] /\ l[i] \in Nat /\ l[m] \in Nat
    BY <1>2, <1>3
  <2>2. l[i] <= l[m]
    <3>1. i = m \/ i \in 1..(m - 1)
      BY <1>2, <2>1
    <3> QED
      BY <1>4, <2>1, <3>1
  <2> QED
    BY <1>1, <1>3, <1>4, <2>1, <2>2, LimiterAssumption DEF Expired
<1> QED
  BY <1>1, <1>5, <1>6

\* A key that pruning left is stored with entries, as recent as before.
LEMMA KeptIsFresh ==
  ASSUME LimiterInv, NEW now \in Nat, NEW k \in Pruned(now)
  PROVE  /\ k \in keys /\ history[k] # <<>>
         /\ history[k][Len(history[k])] \in Nat
         /\ \E lag \in {Window, Skew} :
               NextCleanup(now) - history[k][Len(history[k])] <= Window + lag
<1>1. k \in keys /\ k \in Clients /\ nextCleanup \in Nat
  BY DEF Pruned, LimiterInv, LimiterTypes
<1> DEFINE h == history[k]  last == h[Len(h)]
<1>2. h # <<>> /\ \E lag \in {Window, Skew} : nextCleanup - last <= Window + lag
  BY <1>1 DEF LimiterInv, KeysAreFresh
<1>3. last \in Nat
  <2>1. h \in Seq(Nat)
    BY <1>1 DEF LimiterInv, LimiterTypes
  <2>2. Len(h) \in 1..Len(h)
    BY <1>2, <2>1, EmptySeq
  <2> QED
    BY <2>1, <2>2, ElementOfSeq
<1>4. CASE now >= nextCleanup
  <2>1. ~Expired(last, now)
    BY <1>4 DEF Pruned, Stale
  <2>2. NextCleanup(now) = now + Window
    BY <1>4 DEF NextCleanup
  <2> HIDE DEF last, h
  <2>3. NextCleanup(now) - last <= Window + Window
    BY <1>3, <2>1, <2>2, LimiterAssumption DEF Expired
  <2> QED
    BY <1>1, <1>2, <1>3, <2>3 DEF last, h
<1>5. CASE ~(now >= nextCleanup)
  BY <1>1, <1>2, <1>3, <1>5 DEF NextCleanup
<1> QED
  BY <1>4, <1>5

\* A denied client still has its newest entry.
LEMMA DeniedHasEntries ==
  ASSUME LimiterInv, NEW r \in Requests, Apply(r), ~Granted(Recent(client[r], stamp[r]))
  PROVE  LET c == client[r] IN
         /\ c \in Pruned(stamp[r])
         /\ Recent(c, stamp[r]) # <<>>
         /\ Recent(c, stamp[r])[Len(Recent(c, stamp[r]))] = history[c][Len(history[c])]
<1> DEFINE c == client[r]  now == stamp[r]  h == history[c]  rest == Recent(c, now)
<1>1. now \in Nat /\ c \in Clients /\ limit \in Nat /\ limit > 0 /\ h \in Seq(Nat)
  BY DEF LimiterInv, LimiterTypes, Apply
<1>2. PICK d \in 0..Len(h) : Rest(rest, h, d)
  BY <1>1, RecentRest DEF LimiterInv, Forgets
<1>3. rest \in Seq(Nat)
  BY <1>1, RecentRest DEF LimiterInv
<1>4. c \in Pruned(now)
  <2> SUFFICES ASSUME c \notin Pruned(now) PROVE FALSE
    OBVIOUS
  <2>1. Len(rest) = 0
    BY EmptySeq DEF Recent
  <2> QED
    BY <1>1, <2>1 DEF Granted
<1> HIDE DEF rest, h
<1> DEFINE a == Len(rest)  b == Len(h)
<1>5. a \in Nat /\ b \in Nat /\ a >= 1
  BY <1>1, <1>3, LenProperties DEF Granted, rest
<1>6. d \in 0..b /\ a = b - d /\ \A i \in 1..a : rest[i] = h[d + i]
  BY <1>2 DEF Rest
<1>7. rest # <<>>
  BY <1>5, EmptySeq
<1> HIDE DEF a, b
<1>8. a \in 1..a /\ d + a = b
  BY <1>5, <1>6
<1>9. rest[a] = h[b]
  BY <1>6, <1>8
<1> QED
  BY <1>4, <1>7, <1>9 DEF a, b, rest, h

\* What is appended to a sequence is its last element.
LEMMA LastOfAppend ==
  ASSUME NEW S, NEW s \in Seq(S), NEW e \in S
  PROVE  Append(s, e) # <<>> /\ Append(s, e)[Len(Append(s, e))] = e
  BY AppendProperties, LenProperties

LEMMA ApplyKeys ==
  ASSUME LimiterInv, NEW r \in Requests, Timely(r), Apply(r)
  PROVE  KeysAreFresh'
<1> DEFINE now == stamp[r]  c == client[r]
<1>1. /\ now \in Nat /\ now \in Pending /\ Pending' \subseteq Pending
      /\ \A n \in Pending : n \in Nat /\ now <= n + Skew
  BY NobodyFarBehind
<1>2. /\ nextCleanup \in Nat /\ latest \in Int /\ c \in Clients
      /\ latest < nextCleanup
      /\ \A n \in Pending : nextCleanup <= n + Window + Skew
  BY DEF LimiterInv, LimiterTypes, KeysAreFresh, Apply
<1>3. /\ nextCleanup' = NextCleanup(now)
      /\ latest' = IF now > latest THEN now ELSE latest
  BY DEF Apply
<1>4. latest' < nextCleanup'
  BY <1>1, <1>2, <1>3, LimiterAssumption DEF NextCleanup
<1>5. ASSUME NEW n \in Pending'
      PROVE  nextCleanup' <= n + Window + Skew
  <2>1. n \in Nat /\ now <= n + Skew /\ nextCleanup <= n + Window + Skew
    BY <1>1, <1>2
  <2> QED
    BY <1>1, <1>2, <1>3, <2>1, LimiterAssumption DEF NextCleanup
<1>6. ASSUME NEW k \in keys'
      PROVE  /\ history'[k] # <<>>
             /\ \E lag \in {Window, Skew} :
                   nextCleanup' - history'[k][Len(history'[k])] <= Window + lag
  <2>1. CASE k # c
    <3>1. k \in Pruned(now) /\ k \in Clients
      BY <2>1 DEF Apply, Pruned, LimiterInv, LimiterTypes
    <3>2. history'[k] = history[k]
      BY <2>1, <3>1 DEF Apply
    <3> QED
      BY <1>1, <1>3, <3>1, <3>2, KeptIsFresh
  <2>2. CASE k = c /\ Granted(Recent(c, now))
    <3>1. history'[k] = Append(Recent(c, now), now) /\ Recent(c, now) \in Seq(Nat)
      BY <1>1, <1>2, <2>2, RecentRest DEF Apply, LimiterInv
    <3>2. history'[k] # <<>> /\ history'[k][Len(history'[k])] = now
      <4> DEFINE h == Recent(c, now)
      <4> HIDE DEF h, now
      <4>1. Append(h, now) # <<>> /\ Append(h, now)[Len(Append(h, now))] = now
        BY <1>1, <3>1, LastOfAppend DEF h
      <4> QED
        BY <3>1, <4>1 DEF h
    <3>3. nextCleanup' - now <= Window + Skew
      BY <1>1, <1>2, <1>3, LimiterAssumption DEF NextCleanup
    <3> QED
      BY <3>2, <3>3
  <2>3. CASE k = c /\ ~Granted(Recent(c, now))
    <3>1. history'[k] = Recent(c, now)
      BY <1>2, <2>3 DEF Apply
    <3>2. /\ c \in Pruned(now) /\ Recent(c, now) # <<>>
          /\ Recent(c, now)[Len(Recent(c, now))] = history[c][Len(history[c])]
      BY <2>3, DeniedHasEntries
    <3>3. \E lag \in {Window, Skew} :
             NextCleanup(now) - history[c][Len(history[c])] <= Window + lag
      BY <1>1, <3>2, KeptIsFresh
    <3> QED
      BY <1>3, <2>3, <3>1, <3>2, <3>3
  <2> QED
    BY <2>1, <2>2, <2>3
<1> QED
  BY <1>4, <1>5, <1>6 DEF KeysAreFresh

LEMMA NextLimiter == LimiterInv /\ [Next]_vars => LimiterInv'
<1> SUFFICES ASSUME LimiterInv, [Next]_vars PROVE LimiterInv'
  OBVIOUS
<1>1. CASE Tick
  BY <1>1, TickStep
<1>2. ASSUME NEW r \in Requests, ReadClock(r)
      PROVE  LimiterInv'
  BY <1>2, ReadClockStep
<1>3. ASSUME NEW r \in Requests, Unlimited(r)
      PROVE  LimiterInv'
  BY <1>3, UnlimitedStep
<1>4. ASSUME NEW r \in Requests, Timely(r), Apply(r)
      PROVE  LimiterInv'
  BY <1>4, ApplyTypes, ApplySuffixes, ApplyNearlyOrdered, ApplyForgotten, ApplyKeys, ApplyInOrder
  DEF LimiterInv
<1>5. CASE UNCHANGED vars
  BY <1>5
  DEF vars, historyVars, LimiterInv, LimiterTypes, Suffixes, NearlyOrdered,
      Forgotten, KeysAreFresh, InOrder, Pending, Gone
<1> QED
  BY <1>1, <1>2, <1>3, <1>4, <1>5 DEF Next, Idle

LEMMA AlwaysLimiter == Spec => []LimiterInv
BY InitLimiter, NextLimiter, PTL DEF Spec

-----------------------------------------------------------------------------
(* What the limiter promises *)

\* Idle clients are forgotten: pruning runs often enough that after any request
\* every client still stored was accepted less than two minutes before it.
THEOREM IdleAreForgotten == Spec => []IdleClientsForgotten
<1>1. LimiterInv => IdleClientsForgotten
  <2> SUFFICES ASSUME LimiterInv, NEW c \in keys
               PROVE  /\ history[c] # <<>>
                      /\ \E lag \in {Window, Skew} :
                            latest - history[c][Len(history[c])] < Window + lag
    BY DEF IdleClientsForgotten
  <2> DEFINE h == history[c]  last == h[Len(h)]
  <2>1. /\ h \in Seq(Nat) /\ h # <<>> /\ nextCleanup \in Nat /\ latest \in Int
        /\ latest < nextCleanup
    BY DEF LimiterInv, LimiterTypes, KeysAreFresh
  <2>2. last \in Nat
    <3>1. Len(h) \in 1..Len(h)
      BY <2>1, EmptySeq
    <3> QED
      BY <2>1, <3>1, ElementOfSeq
  <2>3. PICK lag \in {Window, Skew} : nextCleanup - last <= Window + lag
    BY DEF LimiterInv, KeysAreFresh
  <2> HIDE DEF last
  <2>4. latest - last < Window + lag
    BY <2>1, <2>2, <2>3, LimiterAssumption
  <2> QED
    BY <2>1, <2>4 DEF last
<1> QED
  BY <1>1, AlwaysLimiter, PTL

\* When a request is granted whose stamp counts in a shortened window, every
\* other entry that counts is still in the deque, which is below the limit.
LEMMA GrantedFits ==
  ASSUME LimiterInv, NEW r \in Requests, Timely(r), Apply(r),
         NEW t \in Nat, NEW c \in Clients, c = client[r],
         Granted(Recent(c, stamp[r])),
         stamp[r] <= t, t - stamp[r] < Window - 2 * Skew
  PROVE  Cardinality(Accepted(c, t, Window - 2 * Skew)') <= limit
<1> DEFINE now == stamp[r]  rest == Recent(c, now)
           l == log'[c]  n == Len(l)  e == Gone(c)'  span == Window - 2 * Skew
           A == Accepted(c, t, span)'
<1>1. now \in Nat /\ limit \in Nat
  BY DEF LimiterInv, LimiterTypes, Apply
<1>2. rest \in Seq(Nat) /\ Len(rest) \in Nat /\ Len(rest) < limit
  BY <1>1, RecentRest, LenProperties DEF LimiterInv, Granted
<1>3. history'[c] = Append(rest, now)
  BY <1>1 DEF Apply
<1>4. Len(history'[c]) = Len(rest) + 1
  BY <1>1, <1>2, <1>3, AppendProperties
<1>5. Rest(history'[c], l, e) /\ l \in Seq(Nat)
  BY <1>1, ApplyForgets
<1>6. n \in Nat /\ e \in 0..n /\ n - e = Len(rest) + 1
  BY <1>4, <1>5, LenProperties DEF Rest
<1>7. \A i \in 1..n : l[i] \in Nat
  BY <1>5, ElementOfSeq
<1>8. \A i \in 1..e : now - l[i] >= span
  BY <1>1, GoneIsOld, NobodyFarBehind
<1> HIDE DEF rest, e
<1>9. A = {i \in 1..n : l[i] <= t /\ t - l[i] < span}
  BY DEF Accepted
<1> HIDE DEF A
<1>10. A \subseteq (e + 1)..n
  <2> SUFFICES ASSUME NEW i \in A PROVE i \in (e + 1)..n
    OBVIOUS
  <2>1. i \in 1..n /\ l[i] \in Nat /\ t - l[i] < span
    BY <1>7, <1>9
  <2>2. ~(now - l[i] >= span)
    <3> DEFINE x == l[i]
    <3>1. x \in Nat /\ t - x < span /\ now <= t /\ span \in Int
      BY <2>1, LimiterAssumption
    <3> HIDE DEF x, span
    <3>2. ~(now - x >= span)
      BY <1>1, <3>1
    <3> QED
      BY <3>2 DEF x
  <2>3. i \notin 1..e
    BY <1>8, <2>2
  <2> HIDE DEF n
  <2> QED
    BY <1>6, <2>1, <2>3
<1> HIDE DEF n
<1>11. IsFiniteSet((e + 1)..n) /\ Cardinality((e + 1)..n) = Len(rest) + 1
  <2>1. e + 1 \in Int /\ n \in Int /\ ~(e + 1 > n) /\ n - (e + 1) + 1 = Len(rest) + 1
    BY <1>2, <1>6
  <2> QED
    BY <2>1, FS_Interval
<1>12. Cardinality(A) <= Len(rest) + 1 /\ Cardinality(A) \in Nat
  BY <1>10, <1>11, FS_Subset, FS_CardinalityType
<1>13. Cardinality(A) <= limit
  BY <1>1, <1>2, <1>12
<1> QED
  BY <1>13 DEF A

LEMMA InitWithin == Init => SkewedLimit
<1> SUFFICES ASSUME Init, NEW c \in Clients, NEW t \in Nat
             PROVE  Cardinality(Accepted(c, t, Window - 2 * Skew)) <= limit
  BY DEF SkewedLimit
<1>1. Len(log[c]) = 0
  BY EmptySeq DEF Init
<1>2. Accepted(c, t, Window - 2 * Skew) = {}
  BY <1>1 DEF Accepted
<1>3. Cardinality(Accepted(c, t, Window - 2 * Skew)) = 0
  BY <1>2, FS_EmptySet
<1>4. limit \in Nat
  BY LimiterAssumption DEF Init
<1> QED
  BY <1>3, <1>4

LEMMA NextWithin == LimiterInv /\ SkewedLimit /\ [Next]_vars => SkewedLimit'
<1> SUFFICES ASSUME LimiterInv, SkewedLimit, [Next]_vars,
                    limit' > 0, NEW c \in Clients, NEW t \in 0..MaxTime
             PROVE  Cardinality(Accepted(c, t, Window - 2 * Skew)') <= limit'
  BY DEF SkewedLimit
<1> DEFINE span == Window - 2 * Skew
<1>1. limit' = limit
  BY DEF Next, Idle, Tick, ReadClock, Unlimited, Apply, vars
<1>2. Cardinality(Accepted(c, t, span)) <= limit
  BY <1>1 DEF SkewedLimit
<1>3. CASE log'[c] = log[c]
  BY <1>1, <1>2, <1>3 DEF Accepted
<1>4. CASE log'[c] # log[c]
  <2>1. PICK r \in Requests : Timely(r) /\ Apply(r)
    BY <1>4 DEF Next, Idle, Tick, ReadClock, Unlimited, vars, historyVars
  <2>2. /\ c = client[r] /\ Granted(Recent(c, stamp[r]))
        /\ log'[c] = Append(log[c], stamp[r])
    BY <1>4, <2>1 DEF Apply, LimiterInv, LimiterTypes
  <2> DEFINE now == stamp[r]  m == Len(log[c])
  <2>3. now \in Nat /\ t \in Nat /\ log[c] \in Seq(Nat) /\ m \in Nat
    BY <2>1, LimiterAssumption, LenProperties DEF LimiterInv, LimiterTypes, Apply
  <2>4. CASE now <= t /\ t - now < span
    BY <1>1, <2>1, <2>2, <2>3, <2>4, GrantedFits
  <2>5. CASE ~(now <= t /\ t - now < span)
    <3>1. /\ Len(log'[c]) = m + 1 /\ log'[c][m + 1] = now
          /\ \A i \in 1..m : log'[c][i] = log[c][i]
      BY <2>2, <2>3, AppendProperties
    <3> HIDE DEF now, m, span
    <3>2. 1..(m + 1) = 1..m \cup {m + 1}
      BY <2>3
    <3>3. Accepted(c, t, span)' = Accepted(c, t, span)
      BY <2>5, <3>1, <3>2 DEF Accepted, m, span
    <3> QED
      BY <1>1, <1>2, <3>3 DEF span
  <2> QED
    BY <2>4, <2>5
<1> QED
  BY <1>3, <1>4

\* In every window shorter than the minute by twice the skew no client has more
\* accepted requests than the limit, whatever order the threads of allow() get
\* the lock in.
THEOREM LimitHoldsUpToSkew == Spec => []SkewedLimit
BY AlwaysLimiter, InitWithin, NextWithin, PTL DEF Spec

\* If threads take the lock in the order they read the clock, the documented
\* rolling limit holds.
THEOREM LimitHoldsInOrder == Skew = 0 => (Spec => []RollingLimit)
<1> SUFFICES ASSUME Skew = 0 PROVE Spec => []RollingLimit
  OBVIOUS
<1>1. SkewedLimit => RollingLimit
  <2>1. Window - 2 * Skew = Window
    BY LimiterAssumption
  <2> QED
    BY <2>1 DEF SkewedLimit, RollingLimit
<1> QED
  BY <1>1, LimitHoldsUpToSkew, PTL

-----------------------------------------------------------------------------
(* Decisions in clock order *)

\* When stamps arrived in order, what is left of the deque after pruning and
\* popping is exactly what a sliding window over the whole log would hold.
LEMMA DequeIsWindow ==
  ASSUME LimiterInv, ordered, NEW c \in Clients, NEW now \in Nat, latest <= now
  PROVE  Cardinality(Accepted(c, now, Window)) = Len(Recent(c, now))
<1> DEFINE h == history[c]  l == log[c]  m == Len(l)  g == Gone(c)
           rest == Recent(c, now)  A == Accepted(c, now, Window)
<1>1. h \in Seq(Nat) /\ l \in Seq(Nat) /\ rest \in Seq(Nat) /\ latest \in Int
  BY RecentRest DEF LimiterInv, LimiterTypes
<1>2. m \in Nat /\ Len(rest) \in Nat /\ \A i \in 1..m : l[i] \in Nat
  BY <1>1, LenProperties, ElementOfSeq
<1>3. PICK d \in 0..Len(h) : Forgets(rest, h, d, now) /\ LiveFrom(h, d, now)
  BY RecentRest DEF LimiterInv
<1>4. Rest(h, l, g) /\ Rest(rest, h, d)
  BY <1>3 DEF LimiterInv, Suffixes, Forgets
<1> DEFINE e == g + d
<1>5. /\ Rest(rest, l, e)
      /\ \A i \in 1..e : i \in 1..g \/ (i - g \in 1..d /\ l[i] = h[i - g])
  <2> HIDE DEF h, l, g, rest
  <2> QED
    BY <1>1, <1>4, RestOfRest
<1>6. e \in 0..m /\ Len(rest) = m - e
  BY <1>5 DEF Rest
<1>7. g \in 0..m /\ Len(h) = m - g /\ \A i \in 1..(m - g) : h[i] = l[g + i]
  BY <1>4 DEF Rest
<1>8. /\ \A j \in 1..m : l[j] <= latest /\ \A i \in 1..(j - 1) : l[i] <= l[j]
      /\ \A i \in 1..g : Expired(l[i], latest)
  BY DEF LimiterInv, InOrder
<1>9. A = {i \in 1..m : l[i] <= now /\ now - l[i] < Window}
  BY DEF Accepted
<1> HIDE DEF l, h, m, g, rest, A
<1>10. ASSUME NEW i \in 1..e
       PROVE  Expired(l[i], now)
  <2>1. i \in 1..m /\ m \in 1..m /\ l[i] \in Nat /\ l[m] \in Nat /\ (i = m \/ i \in 1..(m - 1))
    BY <1>2, <1>6
  <2>2. l[i] <= l[m]
    BY <1>8, <2>1
  <2>3. CASE i \in 1..g
    BY <1>1, <1>8, <2>1, <2>3, LimiterAssumption, SMTT(40) DEF Expired
  <2>4. CASE i - g \in 1..d /\ l[i] = h[i - g]
    <3>1. Expired(h[i - g], now) \/ Expired(h[Len(h)], now)
      BY <1>3, <2>4 DEF Forgets
    <3>2. m - g \in 1..(m - g) /\ g + (m - g) = m
      BY <1>2, <1>3, <1>7, <2>4
    <3>3. h[Len(h)] = l[m]
      BY <1>7, <3>2
    <3> QED
      BY <2>1, <2>2, <2>4, <3>1, <3>3, LimiterAssumption DEF Expired
  <2> QED
    BY <1>5, <2>3, <2>4
<1>11. ASSUME NEW i \in (e + 1)..m
       PROVE  ~Expired(l[i], now)
  <2>1. i \in 1..m /\ e + 1 \in 1..m /\ (e + 1 = i \/ e + 1 \in 1..(i - 1))
    BY <1>2, <1>6
  <2>2. l[e + 1] <= l[i] /\ l[e + 1] \in Nat /\ l[i] \in Nat
    BY <1>2, <1>8, <2>1
  <2>3. d + 1 \in 1..(m - g) /\ g + (d + 1) = e + 1 /\ d < Len(h)
    BY <1>2, <1>3, <1>6, <1>7, <2>1
  <2>4. h[d + 1] = l[e + 1]
    BY <1>7, <2>3
  <2>5. ~Expired(l[e + 1], now)
    BY <1>3, <2>3, <2>4 DEF LiveFrom
  <2> QED
    BY <2>2, <2>5, LimiterAssumption DEF Expired
<1> HIDE DEF e
<1>12. A = (e + 1)..m
  <2>1. ASSUME NEW i \in A PROVE i \in (e + 1)..m
    <3>1. i \in 1..m /\ ~Expired(l[i], now)
      BY <1>2, <1>9, LimiterAssumption DEF Expired
    <3>2. i \notin 1..e
      BY <1>10, <3>1
    <3> QED
      BY <1>2, <1>6, <3>1, <3>2
  <2>2. ASSUME NEW i \in (e + 1)..m PROVE i \in A
    <3>1. i \in 1..m
      BY <1>2, <1>6
    <3>2. l[i] \in Nat /\ l[i] <= now
      BY <1>1, <1>2, <1>8, <3>1
    <3>3. now - l[i] < Window
      BY <1>11, <3>2, LimiterAssumption DEF Expired
    <3> QED
      BY <1>9, <3>1, <3>2, <3>3
  <2> QED
    BY <2>1, <2>2
<1>13. Cardinality(A) = Len(rest)
  <2>1. Cardinality((e + 1)..m) = IF e + 1 > m THEN 0 ELSE m - (e + 1) + 1
    BY <1>2, <1>6, FS_Interval
  <2> QED
    BY <1>2, <1>6, <1>12, <2>1
<1> QED
  BY <1>13 DEF A, rest

\* As long as stamps are applied in clock order, allow() grants a request
\* exactly when a sliding window over all accepted requests has room for it.
THEOREM DecidesAsAWindow == Spec => ExactDecisions
<1> DEFINE Decides(r) ==
      verdict[r] = "timed" /\ verdict'[r] # "timed" /\ ordered' =>
         (verdict'[r] = "allowed"
            <=> Cardinality(Accepted(client[r], stamp[r], Window)) < limit)
<1>1. ASSUME LimiterInv, [Next]_vars, NEW r \in Requests
      PROVE  Decides(r)
  <2> SUFFICES ASSUME verdict[r] = "timed", verdict'[r] # "timed", ordered'
               PROVE  verdict'[r] = "allowed"
                        <=> Cardinality(Accepted(client[r], stamp[r], Window)) < limit
    OBVIOUS
  <2>1. Apply(r)
    <3>1. PICK q \in Requests : ReadClock(q) \/ Unlimited(q) \/ Apply(q)
      BY <1>1 DEF Next, Idle, Tick, vars
    <3>2. q = r
      BY <1>1, <3>1 DEF ReadClock, Unlimited, Apply, LimiterInv, LimiterTypes
    <3> QED
      BY <3>1, <3>2 DEF ReadClock, Unlimited
  <2>2. ordered /\ stamp[r] >= latest
    <3>1. ordered' = (ordered /\ stamp[r] >= latest)
      BY <2>1 DEF Apply
    <3> QED
      BY <3>1, Zenon
  <2>3. stamp[r] \in Nat /\ latest \in Int /\ client[r] \in Clients /\ latest <= stamp[r]
    BY <1>1, <2>1, <2>2 DEF LimiterInv, LimiterTypes, Apply
  <2>4. Cardinality(Accepted(client[r], stamp[r], Window)) = Len(Recent(client[r], stamp[r]))
    BY <1>1, <2>2, <2>3, DequeIsWindow
  <2>5. verdict'[r] = IF Granted(Recent(client[r], stamp[r])) THEN "allowed" ELSE "denied"
    BY <1>1, <2>1 DEF Apply, LimiterInv, LimiterTypes
  <2> QED
    BY <2>4, <2>5 DEF Granted
<1>2. LimiterInv /\ [Next]_vars => [\A r \in Requests : Decides(r)]_vars
  BY <1>1
<1> HIDE DEF Decides
<1>3. Spec => [][\A r \in Requests : Decides(r)]_vars
  BY <1>2, AlwaysLimiter, PTL DEF Spec
<1> QED
  BY <1>3 DEF ExactDecisions, Decides
=============================================================================
