----------------------------- MODULE WeightCache ----------------------------
(***************************************************************************)
(* The persistent weight caches of the Ollama backend                      *)
(* (ollama-xdna/backend/ggml-xdna.cpp): packed experts, dense tiles and    *)
(* their native counterparts, four maps with an LRU list each under one    *)
(* byte budget.  One get_...() runs at a time (under the context's mutex), *)
(* step by step: look-up, packing, evictions, insertion.  All entries of a *)
(* kind have the same size.                                                *)
(***************************************************************************)
EXTENDS Naturals, FiniteSetsExt, SequencesExt

CONSTANTS
    Keys,     \* [Kinds -> set of keys]
    Size,     \* [Kinds -> bytes of an entry]
    Limits    \* the values of GGML_XDNA_WEIGHT_CACHE_MB; 0 turns caching off

\* The order evict_for() tries the kinds in.
Order == <<"expert", "dense", "native_expert", "native_dense">>
Kinds == Range(Order)
Dense == {"dense", "native_dense"}
Native == {"native_expert", "native_dense"}

ASSUME CacheAssumption ==
    /\ Size \in [Kinds -> Nat \ {0}]
    /\ Limits \subseteq Nat
    /\ \A k \in Kinds : IsFiniteSet(Keys[k])

VARIABLES
    limit,     \* weight_cache_limit
    held,      \* [Kinds -> SUBSET Keys]: the keys of the map
    lru,       \* [Kinds -> Seq(key)], least recently used first
    bytes,     \* [Kinds -> Nat]: ..._cache_bytes
    cursor,    \* cache_eviction_cursor
    wanted,    \* <<kind, key>> of the get_...() under way, or <<>>
    stage      \* "idle", "pack", "evict", or the answer: "cached" (the object
               \* in the cache), "uncached" (one of its own), "none"

cacheVars == <<limit, held, lru, bytes, cursor, wanted, stage>>

CacheInit ==
    /\ limit \in Limits
    /\ held = [k \in Kinds |-> {}]
    /\ lru = [k \in Kinds |-> <<>>]
    /\ bytes = [k \in Kinds |-> 0]
    /\ cursor = 0
    /\ wanted = <<>>
    /\ stage = "idle"

-----------------------------------------------------------------------------
\* cache_bytes_total()
Total == bytes["expert"] + bytes["dense"] + bytes["native_expert"] + bytes["native_dense"]

Kind == wanted[1]
Key == wanted[2]
Cacheable(kind) == limit # 0 /\ Size[kind] <= limit

\* Slip: the key's old place in the list stays.
TouchedTwice(kind, key) == Append(lru[kind], key)

\* touch_...(): to the end of the list
Touched(kind, key) == Append(RemoveFirst(lru[kind], key), key)

Hit(kind, key) ==
    /\ stage = "idle"
    /\ key \in held[kind]
    /\ lru' = [lru EXCEPT ![kind] = Touched(kind, key)]
    /\ wanted' = <<kind, key>>
    /\ stage' = "cached"
    /\ UNCHANGED <<limit, held, bytes, cursor>>

\* Experts are packed first; dense tiles ask for room first, if there can be.
Miss(kind, key) ==
    /\ stage = "idle"
    /\ key \notin held[kind]
    /\ wanted' = <<kind, key>>
    /\ stage' = CASE kind \notin Dense -> "pack"
                  [] kind \in Dense /\ Cacheable(kind) -> "evict"
                  [] OTHER -> "none"
    /\ UNCHANGED <<limit, held, lru, bytes, cursor>>

Ask(kind, key) == Hit(kind, key) \/ Miss(kind, key)

\* Slip: room is made for what is there, not for what comes.
TooFullBefore == Total > limit

\* The loop condition of evict_for()
TooFull == Total + Size[Kind] > limit

\* Only the native caches look again after the evictions.
Insert ==
    IF Kind \in Native /\ TooFull
    THEN stage' = "uncached" /\ UNCHANGED <<held, bytes, lru>>
    ELSE /\ held' = [held EXCEPT ![Kind] = @ \cup {Key}]
         /\ bytes' = [bytes EXCEPT ![Kind] = @ + Size[Kind]]
         /\ lru' = [lru EXCEPT ![Kind] = Append(@, Key)]
         /\ stage' = "cached"

PackExpert ==
    /\ stage = "pack"
    /\ Kind \notin Dense
    /\ stage' = IF Cacheable(Kind) THEN "evict" ELSE "uncached"
    /\ UNCHANGED <<limit, held, lru, bytes, cursor, wanted>>

PackTile ==
    /\ stage = "pack"
    /\ Kind \in Dense
    /\ Insert
    /\ UNCHANGED <<limit, cursor, wanted>>

\* Out of memory, no buffer object, or a layout the native program cannot take
PackFails ==
    /\ stage = "pack"
    /\ stage' = "none"
    /\ UNCHANGED <<limit, held, lru, bytes, cursor, wanted>>

\* How many kinds are tried before k
Rank(k) == ((CHOOSE i \in 1..4 : Order[i] = k) + 3 - cursor) % 4

Occupied == {k \in Kinds : held[k] # {}}
Victim == CHOOSE k \in Occupied : \A j \in Occupied : Rank(k) <= Rank(j)

\* One turn of evict_for(): the least recently used entry of the next kind
\* that has one.
Evict ==
    /\ stage = "evict" /\ TooFull /\ Occupied # {}
    /\ held' = [held EXCEPT ![Victim] = @ \ {Head(lru[Victim])}]
    /\ lru' = [lru EXCEPT ![Victim] = Tail(@)]
    /\ bytes' = [bytes EXCEPT ![Victim] = @ - Size[Victim]]
    /\ cursor' = (cursor + Rank(Victim) + 1) % 4
    /\ UNCHANGED <<limit, wanted, stage>>

Evicted == stage = "evict" /\ ~(TooFull /\ Occupied # {})

InsertExpert ==
    /\ Evicted
    /\ Kind \notin Dense
    /\ Insert
    /\ UNCHANGED <<limit, cursor, wanted>>

MakeTile ==
    /\ Evicted
    /\ Kind \in Dense
    /\ stage' = "pack"
    /\ UNCHANGED <<limit, held, lru, bytes, cursor, wanted>>

\* The caller goes on with the answer.
Take ==
    /\ stage \in {"cached", "uncached", "none"}
    /\ stage' = "idle"
    /\ wanted' = <<>>
    /\ UNCHANGED <<limit, held, lru, bytes, cursor>>

-----------------------------------------------------------------------------
\* Each list names each entry of its map exactly once, and the byte counts are
\* those of the entries: otherwise entries that are never evicted, or an
\* eviction that frees nothing, would break the budget in the long run.
BooksBalanced ==
    \A k \in Kinds :
        /\ ToSet(lru[k]) = held[k]
        /\ Len(lru[k]) = Cardinality(held[k])
        /\ bytes[k] = Size[k] * Cardinality(held[k])

\* One budget for the four caches (README.md: "one global persistent-weight
\* cache budget"), at every moment, also after a failed packing, and counted
\* in entries that really are in the maps.
WithinBudget == Total <= limit /\ BooksBalanced
=============================================================================
