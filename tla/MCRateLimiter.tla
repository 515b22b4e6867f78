--------------------------- MODULE MCRateLimiter ----------------------------
(* Small instances of RateLimiter for TLC. *)
EXTENDS RateLimiter, TLC

CONSTANTS r1, r2, r3, r4, r5, a, b

FourRequests == {r1, r2, r3, r4}
FiveRequests == {r1, r2, r3, r4, r5}
OneClient == {a}
TwoClients == {a, b}
TwoOrOff == {0, 2}
Symmetry == Permutations(Requests) \cup Permutations(Clients)
=============================================================================
