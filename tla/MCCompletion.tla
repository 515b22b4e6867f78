---------------------------- MODULE MCCompletion -----------------------------
(***************************************************************************)
(* Small instances of Completion for TLC: requests rich in stop sequences, *)
(* requests rich in sampling parameters, and requests rich in messages.    *)
(***************************************************************************)
EXTENDS Completion, TLC

MCCharacters == {"a", "b", Space, Lead, Trail, Wide, Bad}
MCVocabulary ==
    << <<"a">>, <<"b">>, <<"a", "b">>, <<Lead>>, <<"b", Trail>>, <<Trail>>, EndOfTurn >>
MCMerges == {<<"a", "b">>, <<"b", "b", "a">>}
MCSystem == <<"a", "b">>

\* One logit vector that prefers each token, ties, and a slope.
MCLogits ==
    {[i \in Ids |-> IF i = top THEN 2 ELSE 0] : top \in Ids}
    \cup {[i \in Ids |-> IF i \in {2, 3} THEN 4 ELSE -2],
          [i \in Ids |-> 2 * i - 8]}

Plain == [temperature |-> 0, top_p |-> 4, top_k |-> 0, repetition |-> 1,
          presence |-> 0, frequency |-> 0, bias |-> <<>>]

Hello == << [role |-> "user", content |-> <<"a">>] >>

Ask == [raw |-> FALSE, messages |-> Hello, context |-> 32, max |-> 4,
        stops |-> <<>>, params |-> Plain, logprobs |-> FALSE]

Stops == {<<"a", "b">>, <<"b", "a">>, <<"b">>, <<"a", "a", "b">>,
          <<Wide>>, <<"a", Bad>>}

StopLists == {t \in BoundedSeq(Stops, 2) : Len(t) < 2 \/ t[1] # t[2]}

StopRequests ==
    {[Ask EXCEPT !.stops = s, !.logprobs = TRUE] : s \in StopLists}
    \cup {[Ask EXCEPT !.stops = s] : s \in {t \in StopLists : Len(t) < 2}}

SamplingRequests ==
    {[Ask EXCEPT !.params = p, !.max = 2] :
        p \in [temperature : {0, 1}, top_p : {1, 2, 4}, top_k : {0, 1, 3},
               repetition : {1, 2}, presence : {0, 2}, frequency : {0, 2},
               bias : {<<>>, 2 :> 5, 9 :> 5}]}

Contents == {<<>>, <<"a", "b", Space, "a">>,
             <<"b", "b", "a">>, <<"a", Space, "b", "b", "a", Space>>}

Says(role, content) == << [role |-> role, content |-> content] >>

Conversations ==
    LET systems == {<<>>} \cup {Says("system", c) : c \in Contents}
        older == {<<>>, Says("user", <<"a">>),
                  Says("user", <<"a", "b", "b", "a">>) \o Says("assistant", <<"b">>)}
        newest == {<<>>} \cup {Says("user", c) : c \in Contents}
    IN  {s \o o \o n : s \in systems, o \in older, n \in newest}

WindowRequests ==
    {[Ask EXCEPT !.messages = m, !.context = c, !.max = 1] :
        m \in Conversations, c \in 2..26}
    \cup {[Ask EXCEPT !.raw = TRUE, !.messages = Says("user", content), !.context = c,
                      !.max = 1] : content \in Contents \ {<<>>}, c \in 2..6}

MCRequests == StopRequests \cup SamplingRequests \cup WindowRequests
=============================================================================
