------------------------------ MODULE ThinkParsers ------------------------------
(***************************************************************************)
(* The reasoning parsers of vllm_mlx/reasoning: each tells, chunk by chunk *)
(* of a stream, what is reasoning and what is content, and does the same   *)
(* for a whole answer.  A chunk may hold several tokens, and a tag that is *)
(* no token of its own may be cut by a chunk's end.                        *)
(***************************************************************************)
EXTENDS Texts

\* reset_state
FreshThinking == [phase |-> "pre_think", started |-> FALSE, buffer |-> <<>>]
DeltaMessage(reasoning, content) == [reasoning |-> reasoning, content |-> content]
Nothing == DeltaMessage(<<>>, <<>>)
Fed(state, message) == [state |-> state, message |-> message]
InPhase(state, phase) == [state EXCEPT !.phase = phase]

\* Before content starts: think blocks are taken out, a partial tag waits.  What they
\* held is not returned when a tag waits behind them.
RECURSIVE ContentOpening(_, _, _)
ContentOpening(state, buffer, reasoning) ==
  LET text == Stripped(buffer)
      waits == Fed([state EXCEPT !.buffer = text], Nothing)
  IN IF text = <<>> THEN Fed([state EXCEPT !.buffer = <<>>], DeltaMessage(reasoning, <<>>))
     ELSE IF IsPrefix(ThinkClose, text)
     THEN ContentOpening(state, Drop(text, Len(ThinkClose)), reasoning)
     ELSE IF IsPrefix(ThinkOpen, text)
     THEN LET inner == Drop(text, Len(ThinkOpen))
          IN IF ~Has(inner, ThinkClose) THEN waits
             ELSE ContentOpening(state, After(inner, ThinkClose),
                                 reasoning \o Before(inner, ThinkClose))
     ELSE IF IsPrefix(text, ThinkOpen) \/ IsPrefix(text, ThinkClose) THEN waits
     ELSE Fed([state EXCEPT !.started = TRUE, !.buffer = <<>>], DeltaMessage(reasoning, text))

ContentDelta(state, delta) ==
  IF state.started THEN Fed(state, DeltaMessage(<<>>, delta))
  ELSE ContentOpening(state, state.buffer \o delta, <<>>)

Behind(reasoning, fed) ==
  Fed(fed.state, DeltaMessage(reasoning \o fed.message.reasoning, fed.message.content))
TransitionToContent(state, reasoning, content) ==
  Behind(reasoning, ContentDelta(InPhase(state, "content"), content))

\* Mutant: after the end tag the rest of the chunk counts as reasoning too.
ThinkEnds_KeepsRest(state, delta) ==
  TransitionToContent(state, Without(delta, Range(ThinkClose)), <<>>)

\* The end tag has come.  One that was cut is found in the text, not in the chunk.
ThinkEnds(state, delta) ==
  IF Has(delta, ThinkClose)
  THEN TransitionToContent(state, Before(delta, ThinkClose), After(delta, ThinkClose))
  ELSE IF state.phase = "thinking" THEN TransitionToContent(state, delta, <<>>)
  ELSE TransitionToContent(state, <<>>, delta)

\* BaseThinkingReasoningParser.extract_reasoning_streaming
BaseStreaming(state, previous, current, delta) ==
  LET opened == IF Has(delta, ThinkOpen) THEN After(delta, ThinkOpen) ELSE delta
  IN CASE state.phase = "pre_think" /\ Has(current, ThinkOpen) ->
            IF Has(opened, ThinkClose)
            THEN TransitionToContent(state, Before(opened, ThinkClose), After(opened, ThinkClose))
            ELSE Fed(InPhase(state, "thinking"), DeltaMessage(opened, <<>>))
       [] state.phase = "pre_think" /\ ~Has(current, ThinkOpen) ->
            IF Has(current, ThinkClose) THEN ThinkEnds(state, delta)
            ELSE Fed(state, DeltaMessage(delta, <<>>))
       [] state.phase = "thinking" ->
            IF Has(current, ThinkClose) /\ ~Has(previous, ThinkClose)
            THEN ThinkEnds(state, delta)
            ELSE Fed(state, DeltaMessage(delta, <<>>))
       [] OTHER -> ContentDelta(state, delta)

\* _extract_complete_reasoning: the leading spans, then content.
RECURSIVE CompleteReasoning(_, _)
CompleteReasoning(text, reasoning) ==
  LET rest == Stripped(text)
      opens == Places(rest, ThinkOpen)  closes == Places(rest, ThinkClose)
      inner == Drop(rest, Len(ThinkOpen))
  IN IF IsPrefix(ThinkOpen, rest)
     THEN IF Has(inner, ThinkClose)
          THEN CompleteReasoning(After(inner, ThinkClose), reasoning \o Before(inner, ThinkClose))
          ELSE DeltaMessage(reasoning \o inner, <<>>)
     ELSE IF closes # {} /\ (opens = {} \/ Min(closes) < Min(opens))
     THEN CompleteReasoning(After(rest, ThinkClose), reasoning \o Before(rest, ThinkClose))
     ELSE DeltaMessage(reasoning, rest)

BaseWhole(text) ==
  IF Has(text, ThinkClose) THEN CompleteReasoning(text, <<>>)
  ELSE IF Has(text, ThinkOpen) THEN DeltaMessage(After(text, ThinkOpen), <<>>)
  ELSE DeltaMessage(<<>>, text)

\* Qwen: without an end tag all is content.
QwenWhole(text) ==
  IF Has(text, ThinkClose) THEN BaseWhole(text) ELSE DeltaMessage(<<>>, text)

DeepSeekWhole(text) ==
  IF Has(text, ThinkClose) /\ ~Has(text, ThinkOpen) THEN CompleteReasoning(text, <<>>)
  ELSE BaseWhole(text)

\* DeepSeek R1: an end tag without a start tag splits the chunk.
SplitAtEnd(fed, previous, delta) ==
  IF fed.message # Nothing /\ Has(delta, ThinkClose)
     /\ ~Has(previous, ThinkOpen) /\ ~Has(delta, ThinkOpen)
  THEN Fed(fed.state, DeltaMessage(Before(delta, ThinkClose), After(delta, ThinkClose)))
  ELSE fed
DeepSeekStreaming(state, previous, current, delta) ==
  SplitAtEnd(BaseStreaming(state, previous, current, delta), previous, delta)

Unboxed(text) == Without(text, {Box})
GlmWhole(text) == BaseWhole(Unboxed(text))
\* GLM: without tags all is content; its box tokens are taken out of the chunk.
GlmStreaming(state, previous, current, delta) ==
  LET clean == Unboxed(delta)
  IN IF clean = <<>> THEN Fed(state, Nothing)
     ELSE IF state.phase = "pre_think" /\ ~Has(current, ThinkOpen) /\ ~Has(current, ThinkClose)
     THEN Fed(state, DeltaMessage(<<>>, clean))
     ELSE BaseStreaming(state, previous, current, clean)
================================================================================
