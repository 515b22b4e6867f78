--------------------------- MODULE CacheParameters ---------------------------
(* The constants of PrefixCache, which DecoderSession shares. *)
EXTENDS Naturals

CONSTANTS
    Tokens,      \* the vocabulary without the end-of-turn token
    Eos,         \* tokenizer.eos_id
    Gens,        \* generator frames over one decoder
    Nobody,
    Context,     \* context_length: positions of the cache
    MaxNew       \* max_new_tokens

ASSUME CacheAssumption ==
    /\ Eos \notin Tokens
    /\ Nobody \notin Gens
    /\ Context \in Nat /\ MaxNew \in 1..(Context - 1)
=============================================================================
