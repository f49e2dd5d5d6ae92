----------------------------- MODULE ChannelParsers -----------------------------
(***************************************************************************)
(* The reasoning parsers for models that write to channels (Harmony and    *)
(* GPT-OSS, Gemma 4), in vllm_mlx/reasoning.                               *)
(***************************************************************************)
EXTENDS ThinkParsers

Channels == {Analysis, Final, Commentary}
Block(name) == <<Channel, name, MessageMark>>

(* Harmony: the parser keeps the channel and whether a message is open.     *)

FreshHarmony == [channel |-> 0, inMessage |-> FALSE]

\* What the text between a channel's marker and the next end is.
Blocks(text, name, end) ==
  {i \in Places(text, Block(name)) : \E j \in DOMAIN text : j > i + 2 /\ text[j] = end}
BlockAt(text, i, end) ==
  SubSeq(text, i + 3, Min({j \in i + 3..Len(text) : text[j] = end}) - 1)

\* extract_reasoning: every closed analysis block, the first closed final one.
HarmonyWhole(text) ==
  LET analysis == Blocks(text, Analysis, EndMark)
      final == Blocks(text, Final, ReturnMark)
      inside == {j \in DOMAIN text : \E i \in analysis :
                   j \in i + 3..i + 2 + Len(BlockAt(text, i, EndMark))}
  IN DeltaMessage(At(text, inside),
                  IF final = {} THEN <<>> ELSE BlockAt(text, Min(final), ReturnMark))

\* A channel is read from the chunk that holds its marker and its name; only the
\* first may be read from the text before it.
HarmonyStreaming(state, previous, current, delta) ==
  LET named == {name \in Channels : \E i \in DOMAIN delta : delta[i] = name}
      name == IF Analysis \in named THEN Analysis
              ELSE IF Final \in named THEN Final ELSE Commentary
      after == AfterLast(current, <<Channel>>)
      read == IF state.channel = 0 /\ Has(current, <<Channel>>) /\ after # <<>>
                 /\ after[1] \in Channels
              THEN [state EXCEPT !.channel = after[1]] ELSE state
  IN IF Has(delta, <<Channel>>) /\ named # {}
     THEN Fed([channel |-> name, inMessage |-> FALSE], Nothing)
     ELSE IF Has(delta, <<MessageMark>>) THEN Fed([read EXCEPT !.inMessage = TRUE], Nothing)
     ELSE IF Has(delta, <<EndMark>>) \/ Has(delta, <<ReturnMark>>)
     THEN Fed([read EXCEPT !.inMessage = FALSE], Nothing)
     ELSE IF Has(delta, <<Channel>>) \/ ~read.inMessage THEN Fed(read, Nothing)
     ELSE CASE read.channel = Analysis -> Fed(read, DeltaMessage(delta, <<>>))
            [] read.channel = Final -> Fed(read, DeltaMessage(<<>>, delta))
            [] OTHER -> Fed(read, Nothing)

(* GPT-OSS: without state of its own, from the text and the chunk.          *)

Structural == {Channel, EndMark, ReturnMark}
ChannelMarks(text) == Places(text, Block(Analysis)) \cup Places(text, Block(Final))

\* _extract_channel: up to the next structural token, or the end.
ExtractChannel(text, name) ==
  LET marks == Places(text, Block(name))
      rest == Drop(text, Min(marks) + 2)
      ends == {i \in DOMAIN rest : rest[i] \in Structural}
  IN IF marks = {} THEN <<>> ELSE IF ends = {} THEN rest ELSE Take(rest, Min(ends) - 1)

GptOssWhole(text) ==
  LET found == DeltaMessage(ExtractChannel(text, Analysis), ExtractChannel(text, Final))
  IN IF ~Has(text, <<Channel>>) \/ found = Nothing THEN DeltaMessage(<<>>, text) ELSE found

\* _detect_phase
DetectPhase(text) ==
  LET marks == ChannelMarks(text)
      last == Max(marks)
  IN IF marks = {} THEN "init"
     ELSE IF text[last + 1] = Final THEN "final"
     ELSE IF \E i \in last + 3..Len(text) : text[i] \in Structural THEN "transition"
     ELSE "analysis"

\* _extract_content_after_marker_in_delta
AfterMarker(text, name) == Drop(text, Max(Places(text, Block(name))) + 2)

GptOssStreaming(previous, current, delta) ==
  LET phase == DetectPhase(current)
      entered == phase # DetectPhase(previous)
      shown(name) == IF entered THEN Without(AfterMarker(current, name), {ReturnMark})
                     ELSE Without(delta, Structural)
  IN CASE phase = "analysis" -> DeltaMessage(shown(Analysis), <<>>)
       [] phase = "final" -> DeltaMessage(<<>>, shown(Final))
       [] OTHER -> Nothing

(* Gemma 4: text that may become a marker waits.                            *)

FreshGemma == [phase |-> "pre_think", pending |-> <<>>, seen |-> FALSE]
ResponseMarker == GemmaOpen \o <<Response>>
ThoughtMarker == GemmaOpen \o <<Thought>>
GemmaMarks == Range(GemmaOpen) \cup Range(GemmaClose)
Unmarked(text) == Without(text, GemmaMarks)
\* _strip_channel_name, _strip_channel_tokens
Unlabelled(text, labels) ==
  IF text # <<>> /\ text[1] \in labels THEN Tail(text) ELSE text
Cleaned(text) == Unlabelled(Unmarked(text), {Thought, Response})

\* _trailing_partial_marker_len
TrailingPartial(text) ==
  Max({0} \cup {n \in 1..Min({2, Len(text)}) :
    \E marker \in {ResponseMarker, ThoughtMarker, GemmaClose, GemmaOpen} :
      n < Len(marker) /\ IsSuffix(Take(marker, n), text) /\ ~IsSuffix(marker, text)})
Safe(text) == Take(text, Len(text) - TrailingPartial(text))

GemmaWhole(text) ==
  LET inner == After(text, GemmaOpen)
      parted(whole, mark) == DeltaMessage(Cleaned(BeforeLast(whole, mark)),
                                          Cleaned(AfterLast(whole, mark)))
  IN CASE Has(text, GemmaOpen) /\ Has(text, GemmaClose) ->
            IF Has(inner, GemmaClose) THEN parted(inner, GemmaClose)
            ELSE DeltaMessage(<<>>, Cleaned(inner))
       [] ~Has(text, GemmaClose) /\ Count(text, GemmaOpen) >= 2 /\ Has(text, ResponseMarker) ->
            IF Has(inner, ResponseMarker) THEN parted(inner, ResponseMarker)
            ELSE DeltaMessage(Cleaned(Take(inner, Len(inner) - 1)),
                              Cleaned(Drop(inner, Len(ResponseMarker) - 1)))
       [] ~Has(text, GemmaOpen) /\ Has(text, GemmaClose) -> parted(text, GemmaClose)
       [] Has(text, GemmaOpen) /\ ~Has(text, GemmaClose) /\
          ~(Count(text, GemmaOpen) >= 2 /\ Has(text, ResponseMarker)) ->
            DeltaMessage(Cleaned(inner), <<>>)
       [] OTHER -> DeltaMessage(<<>>, text)

\* Content after a transition loses the channel's name at its head.
GemmaContent(state, text) ==
  LET clean == Unlabelled(Unlabelled(text, {Thought}), {Response})
  IN Fed([state EXCEPT !.phase = "content", !.seen = clean # <<>>],
         DeltaMessage(<<>>, Unmarked(clean)))

\* The thinking phase: what the text after the first marker has that the one before
\* had not.
GemmaReasoning(previous, current, delta) ==
  LET now == IF Has(current, GemmaOpen) THEN After(current, GemmaOpen) ELSE <<>>
      past == IF Has(previous, GemmaOpen) THEN After(previous, GemmaOpen) ELSE <<>>
  IN IF IsPrefix(<<Thought>>, now)
     THEN Drop(Tail(now), Len(Unlabelled(past, {Thought})))
     ELSE delta

\* _extract_from_safe_text
GemmaSafe(state, previous, current, delta) ==
  LET entered == Count(current, GemmaOpen) > Count(previous, GemmaOpen)
      left == Count(current, GemmaClose) > Count(previous, GemmaClose)
  IN IF ~Has(current, GemmaOpen) /\ ~Has(current, GemmaClose)
     THEN Fed(state, DeltaMessage(<<>>, delta))
     ELSE IF Has(current, ResponseMarker) /\ ~Has(previous, ResponseMarker)
     THEN LET after == After(current, ResponseMarker)
          IN Fed([state EXCEPT !.phase = "content", !.seen = after # <<>>],
                 DeltaMessage(<<>>, Unmarked(after)))
     ELSE IF entered
     THEN Fed(IF state.phase = "thinking" THEN state
              ELSE [state EXCEPT !.phase = "thinking", !.seen = FALSE], Nothing)
     ELSE IF left
     THEN IF Has(delta, GemmaClose)
          THEN GemmaContent(state, AfterLast(delta, GemmaClose))
          ELSE Fed([state EXCEPT !.phase = "content", !.seen = FALSE], Nothing)
     ELSE CASE state.phase = "content" /\ ~state.seen -> GemmaContent(state, delta)
            [] state.phase = "content" /\ state.seen ->
                 Fed(state, DeltaMessage(<<>>, Unmarked(delta)))
            [] state.phase = "thinking" ->
                 Fed(state, DeltaMessage(GemmaReasoning(previous, current, delta), <<>>))
            [] OTHER -> Fed(state, DeltaMessage(delta, <<>>))

GemmaStreaming(state, previous, current) ==
  LET old == Safe(previous)  new == Safe(current)
      waiting == [state EXCEPT !.pending = Drop(current, Len(new))]
  IN IF Len(new) <= Len(old) THEN Fed(waiting, Nothing)
     ELSE GemmaSafe(waiting, old, new, Drop(new, Len(old)))

\* The configured reasoning parser: at the start, for a chunk, for a whole answer.
FreshParser(kind) ==
  CASE kind = "harmony" -> FreshHarmony [] kind = "gemma" -> FreshGemma
    [] OTHER -> FreshThinking

Streaming(kind, state, previous, delta) ==
  LET current == previous \o delta
  IN CASE kind = "qwen" -> BaseStreaming(state, previous, current, delta)
       [] kind = "deepseek" -> DeepSeekStreaming(state, previous, current, delta)
       [] kind = "glm" -> GlmStreaming(state, previous, current, delta)
       [] kind = "harmony" -> HarmonyStreaming(state, previous, current, delta)
       [] kind = "gptoss" -> Fed(state, GptOssStreaming(previous, current, delta))
       [] OTHER -> GemmaStreaming(state, previous, current)

Whole(kind, text) ==
  CASE kind = "qwen" -> QwenWhole(text) [] kind = "deepseek" -> DeepSeekWhole(text)
    [] kind = "glm" -> GlmWhole(text) [] kind = "harmony" -> HarmonyWhole(text)
    [] kind = "gptoss" -> GptOssWhole(text) [] OTHER -> GemmaWhole(text)
================================================================================
