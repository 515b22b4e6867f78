---------------------------- MODULE RateLimiter -----------------------------
(***************************************************************************)
(* RateLimiter of npu_llm/api_server.py: one deque of accepted stamps per  *)
(* client.  allow() reads the clock before it takes the lock, so threads   *)
(* may apply their stamps in another order than they read them; Skew bounds*)
(* by how many ticks a thread can be overtaken between the two.            *)
(***************************************************************************)
EXTENDS Integers, Sequences, FiniteSets

CONSTANTS
    Requests,   \* calls of allow(), one thread each
    Clients,
    Limits,     \* the values of requests_per_minute; 0 turns the limiter off
    Window,     \* the minute, in ticks
    MaxTime,    \* bound: the clock stops there
    Skew        \* bound: by how many ticks threads overtake one another

ASSUME LimiterAssumption ==
    /\ Limits \subseteq Nat
    /\ Window \in Nat \ {0}
    /\ MaxTime \in Nat
    /\ Skew \in Nat

NoStamp == -1

VARIABLES
    limit,        \* requests_per_minute, set once by __init__
    clock,        \* what time.monotonic() returns
    verdict,      \* [Requests -> "new", "timed", "allowed" or "denied"]
    client,       \* [Requests -> client]
    stamp,        \* [Requests -> the `now` it read, or NoStamp]
    history,      \* _requests: [Clients -> Seq(stamp)], <<>> for an absent key
    keys,         \* the keys present in _requests
    nextCleanup,  \* _next_cleanup
    log,          \* history variable: all accepted stamps of each client
    latest,       \* history variable: the largest stamp applied
    ordered       \* history variable: so far stamps were applied in clock order

historyVars == <<log, latest, ordered>>
vars == <<limit, clock, verdict, client, stamp, history, keys, nextCleanup, historyVars>>

Init ==
    /\ limit \in Limits
    /\ clock = 0
    /\ verdict = [r \in Requests |-> "new"]
    /\ client \in [Requests -> Clients]
    /\ stamp = [r \in Requests |-> NoStamp]
    /\ history = [c \in Clients |-> <<>>]
    /\ keys = {}
    /\ nextCleanup = 0
    /\ log = [c \in Clients |-> <<>>]
    /\ latest = NoStamp
    /\ ordered = TRUE

-----------------------------------------------------------------------------
Expired(s, now) == now - s >= Window

\* Slip: expired entries are dropped only when the newest has expired too.
DropExpiredTogether(h, now) ==
    IF h # <<>> /\ Expired(h[Len(h)], now) THEN <<>> ELSE h

\* while history and now - history[0] >= 60: history.popleft()
DropExpired(h, now) ==
    LET live == {i \in 1..Len(h) : ~Expired(h[i], now)}
    IN IF live = {} THEN <<>>
       ELSE SubSeq(h, CHOOSE i \in live : \A j \in live : i <= j, Len(h))

\* Slip: staleness is judged by the oldest entry.
StaleByOldest(h, now) == h = <<>> \/ Expired(h[1], now)

\* not entries or now - entries[-1] >= 60
Stale(h, now) == h = <<>> \/ Expired(h[Len(h)], now)

Tick ==
    /\ clock < MaxTime
    /\ clock' = clock + 1
    /\ UNCHANGED <<limit, verdict, client, stamp, history, keys, nextCleanup, historyVars>>

\* now = self._clock(), outside the lock
ReadClock(r) ==
    /\ verdict[r] = "new"
    /\ limit > 0
    /\ stamp' = [stamp EXCEPT ![r] = clock]
    /\ verdict' = [verdict EXCEPT ![r] = "timed"]
    /\ UNCHANGED <<limit, clock, client, history, keys, nextCleanup, historyVars>>

\* A limit of zero turns the limiter off.
Unlimited(r) ==
    /\ verdict[r] = "new"
    /\ limit = 0
    /\ verdict' = [verdict EXCEPT ![r] = "allowed"]
    /\ UNCHANGED <<limit, clock, client, stamp, history, keys, nextCleanup, historyVars>>

\* Slip: nothing is ever forgotten.
PrunedNever(now) == keys

\* if now >= self._next_cleanup: forget every client that has gone idle
Pruned(now) ==
    IF now >= nextCleanup
    THEN {k \in keys : ~Stale(history[k], now)}
    ELSE keys

\* The client's deque after pruning and after dropping what has expired.
Recent(c, now) ==
    IF c \in Pruned(now) THEN DropExpired(history[c], now) ELSE <<>>

NextCleanup(now) == IF now >= nextCleanup THEN now + Window ELSE nextCleanup

\* len(history) >= self.limit: return False
Granted(recent) == Len(recent) < limit

\* The part of allow() under the lock.
Apply(r) ==
    LET now == stamp[r]
        c == client[r]
        kept == Pruned(now)
        recent == Recent(c, now)
        granted == Granted(recent)
    IN /\ verdict[r] = "timed"
       /\ nextCleanup' = NextCleanup(now)
       /\ keys' = kept \cup {c}
       /\ history' = [k \in Clients |->
                        CASE k = c -> IF granted THEN Append(recent, now) ELSE recent
                          [] k # c /\ k \in kept -> history[k]
                          [] OTHER -> <<>>]
       /\ verdict' = [verdict EXCEPT ![r] = IF granted THEN "allowed" ELSE "denied"]
       /\ log' = IF granted THEN [log EXCEPT ![c] = Append(@, now)] ELSE log
       /\ latest' = IF now > latest THEN now ELSE latest
       /\ ordered' = (ordered /\ now >= latest)
       /\ UNCHANGED <<limit, clock, client, stamp>>

\* No thread still waiting for the lock is overtaken by more than Skew.
Timely(r) ==
    \A q \in Requests : verdict[q] = "timed" => stamp[r] <= stamp[q] + Skew

\* Every request was answered.
Idle ==
    /\ \A r \in Requests : verdict[r] \in {"allowed", "denied"}
    /\ UNCHANGED vars

Next ==
    \/ Tick
    \/ \E r \in Requests :
          ReadClock(r) \/ Unlimited(r) \/ (Timely(r) /\ Apply(r))
    \/ Idle

Spec == Init /\ [][Next]_vars

-----------------------------------------------------------------------------
\* Accepted requests of c stamped in the `span` ticks that end at t
Accepted(c, t, span) ==
    {i \in 1..Len(log[c]) : log[c][i] <= t /\ t - log[c][i] < span}

\* The docstring of allow(), "a rolling one-minute client limit": no minute,
\* wherever it starts, holds more than `limit` accepted requests of one client.
RollingLimit ==
    limit > 0 => \A c \in Clients : \A t \in 0..MaxTime :
        Cardinality(Accepted(c, t, Window)) <= limit

\* What is left of it when threads overtake one another: an entry can be
\* dropped or pruned up to twice the skew too early (the newest-entry test of
\* the pruning and the popping each trust the order), never more.
SkewedLimit ==
    limit > 0 => \A c \in Clients : \A t \in 0..MaxTime :
        Cardinality(Accepted(c, t, Window - 2 * Skew)) <= limit

\* As long as stamps are applied in clock order allow() decides exactly as a
\* sliding window over the whole log of accepted requests would: pruning and
\* popping forget nothing that still counts, and deny nobody who is within the
\* limit.
ExactDecisions ==
    [][\A r \in Requests :
          verdict[r] = "timed" /\ verdict'[r] # "timed" /\ ordered' =>
             (verdict'[r] = "allowed"
                <=> Cardinality(Accepted(client[r], stamp[r], Window)) < limit)]_vars

\* Idle clients are forgotten: after any request, every client still stored
\* was accepted less than two minutes before it (or a minute and the skew,
\* should threads overtake one another by more than a minute).
IdleClientsForgotten ==
    \A c \in keys : latest # NoStamp =>
        /\ history[c] # <<>>
        /\ \E lag \in {Window, Skew} :
              latest - history[c][Len(history[c])] < Window + lag
=============================================================================
