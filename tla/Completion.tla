----------------------------- MODULE Completion ------------------------------
(***************************************************************************)
(* One completion of NPUDecoder (npu_llm/runtime/generate.py), from the    *)
(* request to its last chunk: the prompt window, the choice of each token, *)
(* StreamDetokenizer, which holds back half a character, StopMatcher       *)
(* (npu_llm/runtime/stopping.py), which holds back what may become a stop  *)
(* sequence, and the log-probability entries that wait for the text of     *)
(* their token.  PrefixCache models what the decode steps do to the cache. *)
(*                                                                         *)
(* A generated token is a sequence of bytes.  Lead and Trail are the bytes *)
(* of Wide, a character of two bytes; every other byte is a character.     *)
(***************************************************************************)
EXTENDS ChatWindow, Sampling

CONSTANTS
    Requests,  \* what a caller may ask: [raw, messages, context, max, stops, params, logprobs]
    Logits,    \* the logit vectors a decode step may leave
    NoStop     \* StopMatcher.matched is None

VARIABLES
    request,    \* the validated arguments of the call
    pc,
    window,     \* prompt_ids and truncation
    logits,     \* what the last decode step left
    next,       \* next_token
    generated,
    released,   \* StreamDetokenizer._released
    pending,    \* StopMatcher._pending
    matched,    \* StopMatcher.matched
    text,       \* text: of the last feed
    entries,    \* pending_logprobs: where a token starts, and its number
    emitted,    \* emitted_bytes
    finish,     \* finish_reason
    out,        \* the text of the chunks yielded
    reported    \* the numbers of the tokens whose entries were yielded

callVars == <<request, window>>
stepVars == <<logits, next>>
textVars == <<generated, released, pending, matched, text>>
entryVars == <<entries, emitted, reported>>
vars == <<pc, callVars, stepVars, textVars, entryVars, finish, out>>

Lead == "lead"
Trail == "trail"
Wide == "wide"
Bad == "U+FFFD"
Eos == EndOfTurn
Context == request.context

\* What generate_messages and generate_text accept
IsRequest(r) ==
    /\ r.raw \in BOOLEAN /\ r.logprobs \in BOOLEAN
    /\ r.messages \in Messages
    /\ r.raw => r.messages # <<>> /\ r.messages[1].content # <<>>
    /\ r.max \in Nat \ {0} /\ r.context \in Nat /\ r.max < r.context
    /\ r.stops \in Seq(Seq(Characters) \ {<<>>})
    /\ IsSetting(r.params)

\* Tokens are single bytes in sequence; decoding puts the others together.
ASSUME CompletionAssumption ==
    /\ {Lead, Trail, Wide, Bad} \subseteq Characters
    /\ Vocabulary \in Seq(Seq(Characters \ {Wide, Bad}) \cup {Eos})
    /\ \A l \in Logits : l \in [Ids -> Int]
    /\ \A r \in Requests : IsRequest(r)
    /\ NoStop \notin Seq(Characters)

Init ==
    /\ request \in Requests
    /\ pc = "encode"
    /\ window = [ids |-> <<>>]
    /\ logits = <<>> /\ next = Eos
    /\ generated = <<>> /\ released = 0
    /\ pending = <<>> /\ matched = NoStop /\ text = <<>>
    /\ entries = <<>> /\ emitted = 0 /\ reported = <<>>
    /\ finish = "length"
    /\ out = <<>>

-----------------------------------------------------------------------------
\* Tokenizer.decode: bytes that are no character become U+FFFD.
Decode(tokens) ==
    LET bytes == FlattenSeq(tokens)
        From[i \in 1..(Len(bytes) + 1)] ==
          IF i > Len(bytes) THEN <<>>
          ELSE IF IsAt(<<Lead, Trail>>, bytes, i) THEN <<Wide>> \o From[i + 2]
          ELSE <<IF bytes[i] \in {Lead, Trail} THEN Bad ELSE bytes[i]>>
               \o From[i + 1]
    IN  From[1]

\* len(text.encode("utf-8"))
Bytes(chars) ==
    LET Count(c) == Cardinality({i \in DOMAIN chars : chars[i] = c})
    IN  Len(chars) + Count(Wide) + 2 * Count(Bad)

After(s, n) == SubSeq(s, n + 1, Len(s))

\* StreamDetokenizer.push: how much of the text is released now
Push(tokens) ==
    LET decoded == Decode(tokens)
    IN  IF decoded # <<>> /\ Last(decoded) = Bad THEN released ELSE Len(decoded)

Finds(stop, buffer) == {i \in DOMAIN buffer : IsAt(stop, buffer, i)}

\* Where the buffer is cut: the earliest place of any stop sequence.
Hits(stops, buffer) == UNION {Finds(stops[r], buffer) : r \in DOMAIN stops}

\* Slip: the first stop sequence of the list that occurs anywhere wins.
MatchListed(stops, buffer) ==
    LET r == Min({q \in DOMAIN stops : Finds(stops[q], buffer) # {}})
    IN  [at |-> Min(Finds(stops[r], buffer)), stop |-> stops[r]]

\* At the same place the first of the list wins.
Match(stops, buffer) ==
    LET at == Min(Hits(stops, buffer))
        r == Min({q \in DOMAIN stops : at \in Finds(stops[q], buffer)})
    IN  [at |-> at, stop |-> stops[r]]

\* Slip: as much is held as the longest stop sequence could need.
HeldFixed(stops, buffer) ==
    Min({Len(buffer)} \cup
        {Max({0} \cup {Len(stops[r]) - 1 : r \in DOMAIN stops})})

\* The longest end of the buffer that begins a stop sequence.
Held(stops, buffer) ==
    Max({0} \cup {n \in 1..Len(buffer) :
          \E r \in DOMAIN stops :
             /\ n < Len(stops[r])
             /\ FirstChars(stops[r], n) = LastN(buffer, n)})

\* StopMatcher.feed
Feed(chars) ==
    LET buffer == pending \o chars
        held == Held(request.stops, buffer)
        found == Match(request.stops, buffer)
    IN  IF Hits(request.stops, buffer) # {}
        THEN [text |-> FirstChars(buffer, found.at - 1), pending |-> <<>>,
              matched |-> found.stop]
        ELSE [text |-> FirstChars(buffer, Len(buffer) - held),
              pending |-> LastN(buffer, held), matched |-> NoStop]

\* Slip: an entry waits until the text before its token is out, no longer.
ReadyEarly(waiting, bytes) ==
    Cardinality({i \in DOMAIN waiting : waiting[i].at <= bytes})

Ready(waiting, bytes) ==
    Cardinality({i \in DOMAIN waiting : waiting[i].at < bytes})

\* release(): the entries whose tokens contributed to the emitted text
Release(chars, waiting, all) ==
    LET bytes == emitted + Bytes(chars)
        ready == IF all THEN Len(waiting) ELSE Ready(waiting, bytes)
    IN  /\ emitted' = bytes
        /\ reported' = reported \o [i \in 1..ready |-> waiting[i].token]
        /\ entries' = After(waiting, ready)

Yield(chars) == out' = out \o chars

-----------------------------------------------------------------------------
\* generate_messages(), or generate_text() of one raw prompt
Encode ==
    /\ pc = "encode"
    /\ window' =
          IF request.raw
          THEN EncodePromptWindow(request.messages[1].content, Context - request.max)
          ELSE EncodeChatWindow(request.messages, Context - request.max)
    /\ pc' = "decode"
    /\ UNCHANGED <<request, stepVars, textVars, entryVars, finish, out>>

\* The last position of the prompt, or the token just emitted, is decoded and
\* its successor chosen.
DecodeStep ==
    /\ pc = "decode"
    /\ \E l \in Logits :
          /\ logits' = l
          /\ \E i \in Select(l, window.ids \o generated, request.params) :
                next' = Vocabulary[i]
    /\ pc' = "choose"
    /\ UNCHANGED <<callVars, textVars, entryVars, finish, out>>

TakeEos ==
    /\ pc = "choose"
    /\ next = Eos
    /\ finish' = "stop"
    /\ pc' = "end"
    /\ UNCHANGED <<callVars, stepVars, textVars, entryVars, out>>

\* The token is appended and its text fed to the matcher; what can be emitted
\* is yielded, unless a stop sequence ends the loop.
Take ==
    LET tokens == Append(generated, next)
        fed == Feed(SubSeq(Decode(tokens), released + 1, Push(tokens)))
        entry == [at |-> Len(FlattenSeq(generated)), token |-> Len(tokens)]
        waiting == IF request.logprobs THEN Append(entries, entry) ELSE <<>>
        stopped == fed.matched # NoStop
    IN  /\ pc = "choose"
        /\ next # Eos
        /\ generated' = tokens
        /\ released' = Push(tokens)
        /\ pending' = fed.pending /\ matched' = fed.matched /\ text' = fed.text
        /\ finish' = IF stopped THEN "stop" ELSE finish
        /\ IF stopped \/ fed.text = <<>>
           THEN entries' = waiting /\ UNCHANGED <<emitted, reported, out>>
           ELSE Release(fed.text, waiting, FALSE) /\ Yield(fed.text)
        /\ pc' = IF stopped \/ Len(tokens) >= request.max THEN "end" ELSE "decode"
        /\ logits' = <<>> /\ next' = Eos
        /\ UNCHANGED callVars

\* The stop sequence was found in the loop: what came before it is yielded.
EndMatched ==
    /\ pc = "end"
    /\ matched # NoStop
    /\ Release(text, entries, FALSE)
    /\ Yield(text)
    /\ pc' = "done"
    /\ UNCHANGED <<callVars, stepVars, textVars, finish>>

\* Nothing matched so far: the detokenizer and the matcher let go of what they
\* hold, which may still complete a stop sequence.
EndFlushed ==
    LET fed == Feed(After(Decode(generated), released))
        stopped == fed.matched # NoStop
        last == fed.text \o fed.pending
    IN  /\ pc = "end"
        /\ matched = NoStop
        /\ released' = Len(Decode(generated))
        /\ pending' = <<>> /\ matched' = fed.matched /\ text' = last
        /\ finish' = IF stopped THEN "stop" ELSE finish
        /\ Release(last, entries, ~stopped)
        /\ Yield(last)
        /\ pc' = "done"
        /\ UNCHANGED <<callVars, stepVars, generated>>

Next == Encode \/ DecodeStep \/ TakeEos \/ Take \/ EndMatched \/ EndFlushed

Spec == Init /\ [][Next]_vars

-----------------------------------------------------------------------------
History == window.ids \o generated
Decoded == Decode(generated)

\* A caller gets the generated text up to the earliest stop sequence in it, or
\* all of it, and is told which one it was: cutting the text into tokens,
\* holding back half characters and beginnings of stop sequences, and yielding
\* in pieces change nothing.
AnswerExact ==
    pc = "done" =>
        IF Hits(request.stops, Decoded) # {}
        THEN /\ out = FirstChars(Decoded, Min(Hits(request.stops, Decoded)) - 1)
             /\ matched = Match(request.stops, Decoded).stop
             /\ finish = "stop"
        ELSE out = Decoded /\ matched = NoStop

\* Streaming holds text back only while it must: what is not yielded yet ends
\* in half a character, or could still become a stop sequence.
HeldOnlyIfNeeded ==
    LET held == After(Decoded, Len(out))
    IN  pc = "decode" /\ held # <<>> =>
          \/ Last(held) = Bad
          \/ \E r \in DOMAIN request.stops : IsStrictPrefix(held, request.stops[r])

\* The characters of these tokens that later tokens cannot change.
Complete(tokens) ==
    LET chars == Decode(tokens)
    IN  IF chars # <<>> /\ Last(chars) = Bad THEN Len(chars) - 1 ELSE Len(chars)

Contributed(n) == Complete(FirstChars(generated, n - 1)) < Len(out)

\* As long as the text is valid, the entries a caller has are those of the
\* tokens with a character in the text it has, in order and once each; at the
\* end, unless a stop sequence cut it, those of every token.
EntriesFollowText ==
    /\ request.logprobs
    /\ pc \in {"decode", "done"}
    /\ Bad \notin ToSet(Decoded)
    => LET all == pc = "done" /\ matched = NoStop
       IN  /\ ToSet(reported) = {n \in DOMAIN generated : all \/ Contributed(n)}
           /\ \A i, j \in DOMAIN reported : i < j => reported[i] < reported[j]

-----------------------------------------------------------------------------
Budget == Context - request.max
Encoded == pc = "decode" /\ generated = <<>>
Chat == WithDefaultSystem(request.messages)
Newest == Last(Chat)
Suffix(n) == EncodeTurns(<< [Newest EXCEPT !.content = LastN(@, n)] >>)

\* The prompt and max_new_tokens fit the attention window, at every length of
\* every message and although more text may take fewer tokens.
WindowFits == Encoded => Len(window.ids) \in 1..Budget

\* The newest message ends the prompt, whole if it fits on its own; if not, as
\* much of its end is kept that one more character would not fit, unless there
\* is no room for any turn at all.
NewestKept ==
    Encoded /\ ~request.raw =>
        IF Len(Suffix(Len(Newest.content))) <= Budget
        THEN IsSuffix(Suffix(Len(Newest.content)), window.ids)
        ELSE Len(Suffix(0)) <= Budget =>
                \E n \in 0..(Len(Newest.content) - 1) :
                    window.ids = Suffix(n) /\ Len(Suffix(n + 1)) > Budget

Turns(ids) == Cardinality({i \in DOMAIN ids : ids[i] = EndOfTurn})

\* The oldest turns go first, one more only if the prompt does not fit without
\* it, and the system prompt is touched when no other turn is left to drop; the
\* caller is told how many messages are gone.
OldestDroppedFirst ==
    Encoded /\ ~request.raw /\ ~window.token_fallback =>
        LET gone == window.dropped_messages
        IN  /\ Turns(window.ids) = Len(Chat) - gone
            /\ \A k \in 0..(Len(Chat) - 2) :
                  Len(Without(Chat, k)) <= Budget =>
                     gone <= k /\ IsPrefix(Turn(Chat[1]), window.ids)

-----------------------------------------------------------------------------
Sampled == pc = "choose" /\ ~GreedyFor(request.params)
Scores == Adjusted(logits, History, request.params)
Better(i, tokens) == {j \in tokens : Scores[j] > Scores[i]}

\* A request that takes the argmax shortcut gets what the whole pipeline could
\* have given it, whatever was generated before: no parameter it leaves in
\* force can move another token to the top.
GreedyIsArgmax ==
    pc = "choose" /\ GreedyFor(request.params) =>
        \A i \in Drawn(logits, History, request.params) :
            logits[i] = logits[IdOf(next)]

\* A sampled token has fewer than top_k better ones, and the better ones among
\* the first top_k do not make up top_p; a best token may always be drawn.
SampledFromTheTop ==
    Sampled =>
        LET params == request.params
            top == TopK(Scores, params.top_k)
            i == IdOf(next)
            drawn == Drawn(logits, History, params)
        IN  /\ \E j \in drawn : Better(j, Ids) = {}
            /\ IF params.temperature = 0 THEN Better(i, Ids) = {}
               ELSE /\ params.top_k > 0 =>
                          Cardinality(Better(i, Ids)) < params.top_k
                    /\ 4 * Mass(Weights(Scores), Better(i, top))
                          < params.top_p * Mass(Weights(Scores), top)
=============================================================================
