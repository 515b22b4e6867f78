----------------------------- MODULE ChatWindow ------------------------------
(***************************************************************************)
(* SmolLMTokenizer (npu_llm/runtime/tokenizer.py): how a conversation that *)
(* does not fit the attention window is shortened.                         *)
(*                                                                         *)
(* A text is a sequence of characters and a token the sequence of those it *)
(* stands for, so that a prompt is read off its tokens.  Merges stands for *)
(* the byte pair encoding: the character sequences that are one token.  A  *)
(* longer text may therefore take fewer tokens than its beginning.         *)
(***************************************************************************)
EXTENDS Naturals, SequencesExt

CONSTANTS
    Characters,     \* what texts are made of; the control tokens are not text
    Merges,         \* the tokens of more than one character
    DefaultSystem   \* the content of the default system prompt

ASSUME ChatWindowAssumption ==
    /\ "im_end" \notin Characters
    /\ \A m \in Merges : m \in Seq(Characters) /\ m # <<>>
    /\ DefaultSystem \in Seq(Characters)

Roles == {"system", "user", "assistant"}
Messages == Seq([role : Roles, content : Seq(Characters)])

Space == " "
Header(role) == << <<"im_start">>, <<role, "newline">> >>
EndOfTurn == <<"im_end">>
TurnEnd == <<EndOfTurn, <<"newline">> >>
Generation == Header("assistant")
Nothing == <<>>

IsAt(part, s, i) ==
    /\ i + Len(part) - 1 <= Len(s)
    /\ SubSeq(s, i, i + Len(part) - 1) = part

\* _encode_text: the longest token at each place, from the left
Pieces(s) ==
    LET PieceAt(i) ==
          LET here == {m \in Merges : IsAt(m, s, i)}
          IN  IF here = {} THEN <<s[i]>>
              ELSE CHOOSE m \in here : \A n \in here : Len(m) >= Len(n)
        From[i \in 1..(Len(s) + 1)] ==
          IF i > Len(s) THEN <<>>
          ELSE <<PieceAt(i)>> \o From[i + Len(PieceAt(i))]
    IN  From[1]

Turn(m) == Header(m.role) \o Pieces(m.content) \o TurnEnd

EncodeTurns(ms) ==
    FlattenSeq([i \in DOMAIN ms |-> Turn(ms[i])]) \o Generation

WithDefaultSystem(ms) ==
    IF ms = <<>> \/ ms[1].role # "system"
    THEN << [role |-> "system", content |-> DefaultSystem] >> \o ms
    ELSE ms

FirstChars(s, n) == SubSeq(s, 1, n)
LastN(s, n) == SubSeq(s, Len(s) - n + 1, Len(s))

RStrip(s) == FirstChars(s, Max({0} \cup {i \in DOMAIN s : s[i] # Space}))

\* _longest_fitting: {} stands for None.  The walk back from the result of the
\* search does nothing: the search only ever rests on a length that fits.
LongestFitting(length, fits) ==
    LET Search[range \in (0..length) \X (0..length)] ==
          LET low == range[1]
              high == range[2]
              middle == (low + high + 1) \div 2
          IN  IF low >= high THEN low
              ELSE IF middle \in fits THEN Search[<<middle, high>>]
              ELSE Search[<<low, middle - 1>>]
    IN  IF 0 \in fits THEN {Search[<<0, length>>]} ELSE {}

\* The beginning of a system prompt that is kept for n characters: cut back to
\* a word boundary if it has one.
WordsOf(content, n) ==
    LET kept == FirstChars(content, n)
        spaces == {i \in DOMAIN RStrip(kept) : kept[i] = Space /\ i > 1}
    IN  RStrip(IF 0 < n /\ n < Len(content) /\ spaces # {}
               THEN FirstChars(kept, Max(spaces) - 1) ELSE kept)

\* _fit_system_prefix: the prompts it may return
SystemPrefix(system, newest, budget) ==
    LET Encode(n) ==
          EncodeTurns(<< [system EXCEPT !.content = WordsOf(@, n)], newest >>)
        length == Len(system.content)
        fits == {n \in 0..length : Len(Encode(n)) <= budget}
    IN  {Encode(n) : n \in LongestFitting(length, fits) \ {0}}

\* Slip: room is asked for one token more.
NewestSuffixShort(newest, budget) ==
    LET Encode(n) == EncodeTurns(<< [newest EXCEPT !.content = LastN(@, n)] >>)
        length == Len(newest.content)
        fits == {n \in 0..length : Len(Encode(n)) < budget}
    IN  {Encode(n) : n \in LongestFitting(length, fits)}

\* Slip: the empty turn is taken to fit.
NewestSuffixUnasked(newest, budget) ==
    LET Encode(n) == EncodeTurns(<< [newest EXCEPT !.content = LastN(@, n)] >>)
        length == Len(newest.content)
        fits == {n \in 0..length : n = 0 \/ Len(Encode(n)) <= budget}
    IN  {Encode(n) : n \in LongestFitting(length, fits)}

\* _fit_newest_suffix
NewestSuffix(newest, budget) ==
    LET Encode(n) == EncodeTurns(<< [newest EXCEPT !.content = LastN(@, n)] >>)
        length == Len(newest.content)
        fits == {n \in 0..length : Len(Encode(n)) <= budget}
    IN  {Encode(n) : n \in LongestFitting(length, fits)}

\* What encode_chat_window tells of the prompt it returns.
Cut(ids, dropped, system, content, tokens) ==
    [ids |-> ids, dropped_messages |-> dropped, system |-> system,
     truncated_content |-> content, token_fallback |-> tokens]

\* The turns but for the k oldest
Without(ms, k) == EncodeTurns(<<ms[1]>> \o SubSeq(ms, k + 2, Len(ms)))

\* Slip: the length is compared only after the next turn is dropped too.
EnoughLate(ms, budget) ==
    {k \in 2..(Len(ms) - 2) : Len(Without(ms, k)) <= budget}

\* How many of the oldest turns may go before the newest alone is left.
Enough(ms, budget) ==
    {k \in 1..(Len(ms) - 2) : Len(Without(ms, k)) <= budget}

\* encode_chat_window: the first of its attempts that fits the budget
EncodeChatWindow(messages, budget) ==
    LET ms == WithDefaultSystem(messages)
        n == Len(ms)
        full == EncodeTurns(ms)
        newest == ms[n]
        enough == Enough(ms, budget)
        words == IF n > 1 THEN SystemPrefix(ms[1], newest, budget) ELSE {}
        alone == EncodeTurns(<<newest>>)
        rest == NewestSuffix(newest, budget)
        system == IF n > 1 THEN "dropped" ELSE "whole"
    IN  CASE Len(full) <= budget -> Cut(full, 0, "whole", FALSE, FALSE)
          [] Len(full) > budget /\ enough # {} ->
                Cut(Without(ms, Min(enough)), Min(enough), "whole", FALSE, FALSE)
          [] OTHER ->
                IF words # {}
                THEN Cut(CHOOSE w \in words : TRUE, n - 2, "truncated", FALSE, FALSE)
                ELSE IF n > 1 /\ Len(alone) <= budget
                THEN Cut(alone, n - 1, system, FALSE, FALSE)
                ELSE IF rest # {}
                THEN Cut(CHOOSE r \in rest : TRUE, n - 1, system, TRUE, FALSE)
                ELSE Cut(LastN(full, budget), n - 1, system, FALSE, TRUE)

\* encode_prompt_window: no turns, the newest tokens
EncodePromptWindow(prompt, budget) ==
    LET ids == Pieces(prompt)
    IN  IF Len(ids) <= budget THEN [ids |-> ids, truncated |-> FALSE]
        ELSE [ids |-> LastN(ids, budget), truncated |-> TRUE]
=============================================================================
