------------------------------ MODULE Sampling -------------------------------
(***************************************************************************)
(* npu_llm/runtime/sampling.py: how the next token is drawn from a logit   *)
(* vector.                                                                 *)
(*                                                                         *)
(* Scores are integers and the softmax is taken to base two, so that every *)
(* comparison of the code is exact here; a temperature other than zero is  *)
(* one, as dividing every score by it changes no order.  A masked token    *)
(* (-inf) is one that is no candidate.  The draw is a choice among the     *)
(* tokens whose probability is not zero.                                   *)
(***************************************************************************)
EXTENDS Integers, SequencesExt

CONSTANTS
    Vocabulary   \* the tokens in the order of their ids, which count from 1

ASSUME VocabularyAssumption ==
    /\ Len(Vocabulary) \in Nat \ {0}
    /\ DOMAIN Vocabulary = 1..Len(Vocabulary)
    /\ \A i, j \in DOMAIN Vocabulary : Vocabulary[i] = Vocabulary[j] => i = j

Ids == DOMAIN Vocabulary
IdOf(token) == CHOOSE i \in Ids : Vocabulary[i] = token

\* SamplingParams, validated
IsSetting(params) ==
    /\ params.temperature \in {0, 1}
    /\ params.top_p \in 1..4 /\ params.top_k \in Nat
    /\ params.repetition \in Nat \ {0}
    /\ params.presence \in Int /\ params.frequency \in Int
    /\ \A i \in DOMAIN params.bias : params.bias[i] \in Int

\* np.argmax: the first of the largest
ArgMax(scores) ==
    Min({i \in Ids : \A j \in Ids : scores[j] <= scores[i]})

NoPenalty(params) ==
    params.repetition = 1 /\ params.presence = 0 /\ params.frequency = 0

\* Slip: top_k = 1 is taken for greedy whatever moves the scores before it.
GreedyByTopK(params) ==
    \/ params.top_k = 1
    \/ /\ NoPenalty(params)
       /\ params.temperature = 0
       /\ DOMAIN params.bias \cap Ids = {}

\* greedy_for(vocab_size): the parameters cannot change the argmax.
GreedyFor(params) ==
    /\ NoPenalty(params)
    /\ params.temperature = 0 \/ params.top_k = 1
    /\ DOMAIN params.bias \cap Ids = {}

Occurrences(i, history) ==
    Cardinality({n \in DOMAIN history : history[n] = Vocabulary[i]})

\* A score is an even number wherever repetition divides it.
Repeated(score, params) ==
    IF score > 0 THEN score \div params.repetition ELSE score * params.repetition

Penalized(scores, history, params) ==
    [i \in Ids |->
        IF Occurrences(i, history) = 0 THEN scores[i]
        ELSE Repeated(scores[i], params)
             - params.frequency * Occurrences(i, history) - params.presence]

\* Token ids outside the vocabulary are ignored.
Biased(scores, bias) ==
    [i \in Ids |-> scores[i] + (IF i \in DOMAIN bias THEN bias[i] ELSE 0)]

\* filter_top_k: the scores below the k-th largest are masked, ties stay.
TopK(scores, k) ==
    IF k = 0 \/ k >= Len(Vocabulary) THEN Ids
    ELSE {i \in Ids : Cardinality({j \in Ids : scores[j] > scores[i]}) < k}

PowerOfTwo[n \in Nat] == IF n = 0 THEN 1 ELSE 2 * PowerOfTwo[n - 1]

\* The softmax, times its denominator.
Weights(scores) ==
    LET lowest == Min({scores[j] : j \in Ids})
    IN  [i \in Ids |-> PowerOfTwo[scores[i] - lowest]]

Mass(weights, tokens) ==
    LET UpTo[i \in 0..Len(Vocabulary)] ==
          IF i = 0 THEN 0
          ELSE UpTo[i - 1] + (IF i \in tokens THEN weights[i] ELSE 0)
    IN  UpTo[Len(Vocabulary)]

\* argsort: equal scores come in either order of their ids.
Precedes(scores, j, i, rising) ==
    \/ scores[j] > scores[i]
    \/ scores[j] = scores[i] /\ IF rising THEN j < i ELSE j > i

\* Slip: one more token is kept when the mass before it is exactly top_p.
TopPWide(scores, tokens, quarters, rising) ==
    LET weights == Weights(scores)
    IN  {i \in tokens :
           4 * Mass(weights, {j \in tokens : Precedes(scores, j, i, rising)})
             <= quarters * Mass(weights, tokens)}

\* filter_top_p, for a top_p of so many quarters: in descending order a token is
\* kept while the mass before it is below top_p.
TopP(scores, tokens, quarters, rising) ==
    LET weights == Weights(scores)
        nucleus == quarters * Mass(weights, tokens)
    IN  IF quarters >= 4 THEN tokens
        ELSE {i \in tokens :
                4 * Mass(weights, {j \in tokens : Precedes(scores, j, i, rising)})
                  < nucleus}

Adjusted(scores, history, params) ==
    Biased(Penalized(scores, history, params), params.bias)

\* Sampler.select without its shortcut: the ids it may return
Drawn(logits, history, params) ==
    LET scores == Adjusted(logits, history, params)
    IN  IF params.temperature = 0 THEN {ArgMax(scores)}
        ELSE UNION {TopP(scores, TopK(scores, params.top_k), params.top_p, rising) :
                        rising \in BOOLEAN}

\* Sampler.select
Select(logits, history, params) ==
    IF GreedyFor(params) THEN {ArgMax(logits)} ELSE Drawn(logits, history, params)
=============================================================================
