------------------------------- MODULE ToolParsers -------------------------------
(***************************************************************************)
(* The tool-call parsers of vllm_mlx/tool_parsers: what each finds in a    *)
(* whole answer, and what it says of a stream chunk by chunk.  A call is   *)
(* one symbol between the markers of its format; a malformed one is not    *)
(* JSON, which some parsers pass on as it is and others drop.              *)
(***************************************************************************)
EXTENDS Texts

IsCall(x) == x < Call
IsBody(x) == IsCall(x) \/ x = Malformed

Found(calls, content) == [calls |-> calls, content |-> content]
NoCalls(text) == Found(<<>>, text)
\* What a parser answers for a chunk: nothing yet, content, or calls at indices.
Silent == [said |-> <<>>, calls |-> <<>>]
Says(text) == [said |-> text, calls |-> <<>>]
Emission(index, name, arguments) == [index |-> index, name |-> name, arguments |-> arguments]
CallsFrom(calls, start) ==
  [said |-> <<>>,
   calls |-> [i \in DOMAIN calls |-> Emission(start + i - 1, <<calls[i]>>, <<calls[i]>>)]]

\* The bodies between two markers, in order; those that are JSON; the text without
\* the blocks.
BodyPlaces(text, open, close) ==
  {i \in 2..Len(text) - 1 : text[i - 1] = open /\ text[i + 1] = close /\ IsBody(text[i])}
Bodies(text, open, close) == At(text, BodyPlaces(text, open, close))
Parsed(bodies) == SelectSeq(bodies, IsCall)
WithoutBlocks(text, open, close) ==
  At(text, {i \in DOMAIN text : ~\E p \in BodyPlaces(text, open, close) : i \in p - 1..p + 1})

\* strip_think_tags
StripThinkTags(text) ==
  LET after == IF Has(text, ThinkOpen) THEN After(text, ThinkOpen) ELSE <<>>
  IN IF Has(text, ThinkOpen) /\ Has(after, ThinkClose)
     THEN Before(text, ThinkOpen) \o After(after, ThinkClose)
     ELSE IF Has(text, ThinkClose) THEN AfterLast(text, ThinkClose) ELSE text

\* A parser that reads the whole text anew when a call closes.
Reread(whole) == IF whole.calls # <<>> THEN CallsFrom(whole.calls, 0) ELSE Silent

LlamaCalls(text) ==
  LET calls == Bodies(text, FunctionOpen, FunctionClose)
  IN IF calls = <<>> THEN NoCalls(text)
     ELSE Found(calls, WithoutBlocks(text, FunctionOpen, FunctionClose))
LlamaStreaming(current, delta) ==
  IF ~Holds(current, FunctionOpen) THEN Says(delta)
  ELSE IF Holds(delta, FunctionClose) THEN Reread(LlamaCalls(current)) ELSE Silent

\* A section of calls; the text before it is content.
DeepSeekCalls(text) ==
  LET calls == Bodies(text, CallOpen, CallClose)
  IN IF ~Holds(text, SectionOpen) \/ calls = <<>> THEN NoCalls(text)
     ELSE Found(calls, Before(text, <<SectionOpen>>))
DeepSeekToolStreaming(current, delta) ==
  IF ~Holds(current, SectionOpen) THEN Says(delta)
  ELSE IF Holds(delta, CallClose) \/ Holds(delta, SectionClose)
  THEN Reread(DeepSeekCalls(current)) ELSE Silent

HasToolSection(text) == Holds(text, SectionOpen) \/ Holds(text, CallOpen)
KimiCalls(text) ==
  LET calls == Bodies(text, CallOpen, CallClose)
  IN IF ~HasToolSection(text) \/ calls = <<>> THEN NoCalls(text)
     ELSE Found(calls, IF Holds(text, SectionOpen) THEN Before(text, <<SectionOpen>>) ELSE <<>>)
KimiStreaming(current, delta) ==
  IF ~HasToolSection(current) THEN Says(delta)
  ELSE IF Holds(delta, CallClose) THEN Reread(KimiCalls(current)) ELSE Silent

\* Granite: a marker, then a JSON array and nothing else.
GraniteCalls(text) ==
  LET array == IF IsPrefix(<<CallOpen>>, text) THEN Tail(text) ELSE text
      inner == SubSeq(array, 2, Len(array) - 1)
  IN IF /\ Len(array) >= 2 /\ array[1] = SectionOpen /\ Last(array) = SectionClose
        /\ inner # <<>> /\ \A i \in DOMAIN inner : IsCall(inner[i])
     THEN Found(inner, <<>>) ELSE NoCalls(text)
GraniteStreaming(current, delta) ==
  IF ~IsPrefix(<<CallOpen>>, current) THEN Says(delta)
  ELSE IF Holds(delta, SectionClose) THEN Reread(GraniteCalls(current)) ELSE Silent

\* A block of parameters, or raw content, makes a call either way.
NemotronCalls(text) ==
  LET calls == Bodies(text, CallOpen, CallClose)
  IN IF ~Holds(text, CallOpen) \/ calls = <<>> THEN NoCalls(text)
     ELSE Found(calls, WithoutBlocks(text, CallOpen, CallClose))
NemotronStreaming(current, delta) ==
  IF ~Holds(current, CallOpen) THEN Says(delta)
  ELSE IF Holds(delta, CallClose) THEN Reread(NemotronCalls(current)) ELSE Silent

\* _try_extract_json: the first code block that is a JSON list.
TryExtractJson(text) ==
  LET calls == Parsed(Bodies(text, CallOpen, CallClose))
  IN IF calls = <<>> THEN NoCalls(text)
     ELSE Found(<<calls[1]>>, WithoutBlocks(text, CallOpen, CallClose))
XlamCalls(text) == TryExtractJson(text)
XlamStreaming(current, delta) ==
  IF ~Holds(current, CallOpen) /\ ~Has(current, ThinkClose) THEN Says(delta)
  ELSE IF Holds(delta, CallClose) THEN Reread(XlamCalls(current)) ELSE Silent

\* Invokes without parameters are dropped.
ExtractInvokes(text) == Parsed(Bodies(text, CallOpen, CallClose))
MiniMaxCalls(text) ==
  IF Bodies(text, CallOpen, CallClose) = <<>> THEN NoCalls(text)
  ELSE Found(ExtractInvokes(text), StripThinkTags(WithoutBlocks(text, CallOpen, CallClose)))
\* _has_tool_end: only the first closing.
MiniMaxEnds(current, previous) == Holds(current, CallClose) /\ ~Holds(previous, CallClose)
MiniMaxStreaming(previous, current, delta) ==
  IF ~Holds(current, CallOpen) THEN Says(delta)
  ELSE IF MiniMaxEnds(current, previous) THEN Reread(MiniMaxCalls(current))
  ELSE Silent

\* Mistral: a marker before each call, its arguments up to the next marker.
MistralCalls(text) ==
  LET calls == At(text, {i \in 2..Len(text) : text[i - 1] = CallOpen /\ IsCall(text[i])})
  IN IF calls = <<>> THEN NoCalls(text) ELSE Found(calls, Before(text, <<CallOpen>>))
\* _parse_streaming_tool_delta: a part without a brace is taken for a name.
ToolDelta(index, part) ==
  LET head == SelectSeq(part, IsCall)
  IN IF part = <<>> THEN <<>>
     ELSE IF head # <<>> THEN <<Emission(index, head, part)>>
     ELSE IF Stripped(part) # <<>> THEN <<Emission(index, part, <<>>)>>
     ELSE <<Emission(index, <<>>, part)>>
\* Mutant: the index moves with every chunk behind the first marker.
MistralStreaming_MovesOn(index, current, delta) ==
  IF ~Holds(current, CallOpen) THEN [index |-> index, answer |-> Says(delta)]
  ELSE [index |-> index + 1,
        answer |-> [said |-> <<>>, calls |-> ToolDelta(index + 1, Without(delta, {CallOpen}))]]

\* The index moves once for a chunk, however many markers it holds.
MistralStreaming(index, current, delta) ==
  LET next == IF Holds(delta, CallOpen) THEN index + 1 ELSE index
      part == IF Holds(delta, CallOpen) THEN After(delta, <<CallOpen>>) ELSE delta
      before == IF Holds(delta, CallOpen) THEN Before(delta, <<CallOpen>>) ELSE <<>>
  IN IF ~Holds(current, CallOpen) THEN [index |-> index, answer |-> Says(delta)]
     ELSE [index |-> next,
           answer |-> [said |-> before,
                       calls |-> IF next < 0 THEN <<>> ELSE ToolDelta(next, part)]]

\* Hermes: JSON blocks; without any, the XML ones; the call of a block that never
\* closed, once.
HermesCalls(text) ==
  LET clean == StripThinkTags(text)
      tagged == Parsed(Bodies(clean, CallOpen, CallClose))
      bare == Bodies(clean, FunctionOpen, FunctionClose)
      open == {i \in 2..Len(clean) : clean[i - 1] = CallOpen /\ IsCall(clean[i])}
      left == WithoutBlocks(WithoutBlocks(clean, CallOpen, CallClose), FunctionOpen, FunctionClose)
  IN CASE tagged # <<>> -> Found(tagged, left)
       [] tagged = <<>> /\ bare # <<>> -> Found(bare, left)
       [] tagged = <<>> /\ bare = <<>> /\ open # {} -> Found(<<clean[Min(open)]>>, left)
       [] OTHER -> NoCalls(left)

\* The calls behind those of the blocks that had closed before.
CallsSince(calls, closed) == CallsFrom(Drop(calls, closed), closed)

HermesStreaming(previous, current, delta) ==
  LET since(open, close) ==
        LET closed == Count(previous, <<close>>)
            calls == HermesCalls(current).calls
        IN IF Count(current, <<open>>) > Count(current, <<close>>) THEN Silent
           ELSE IF Count(current, <<close>>) > closed /\ Len(calls) > closed
           THEN CallsSince(calls, closed)
           ELSE Says(delta)
  IN IF Holds(current, CallOpen) THEN since(CallOpen, CallClose)
     ELSE IF Holds(current, FunctionOpen) THEN since(FunctionOpen, FunctionClose)
     ELSE Says(delta)

\* Qwen: blocks of JSON, else of XML.
QwenCalls(text) ==
  LET clean == StripThinkTags(text)
      tagged == Parsed(Bodies(clean, CallOpen, CallClose))
      functions == Bodies(clean, FunctionOpen, FunctionClose)
      left == WithoutBlocks(clean, CallOpen, CallClose)
  IN IF tagged # <<>> THEN Found(tagged, left)
     ELSE IF functions # <<>>
     THEN Found(functions, WithoutBlocks(left, FunctionOpen, FunctionClose))
     ELSE NoCalls(text)

\* _get_partial_marker_len
PartialMarkerLen(text) == IF text # <<>> /\ Last(text) = PartMark THEN 1 ELSE 0
\* What waits is said with the chunk that shows it was no marker; it is passed over
\* when that chunk ends in such a beginning itself.
QwenBuffering(previous, current, delta) ==
  IF PartialMarkerLen(current) > 0 THEN Says(Take(delta, Len(delta) - 1))
  ELSE IF PartialMarkerLen(previous) > 0 THEN Says(<<PartMark>> \o delta)
  ELSE Says(delta)

QwenStreaming(previous, current, delta) ==
  LET closed == Count(previous, <<FunctionClose>>)
      calls == QwenCalls(current).calls
  IN IF ~Holds(current, CallOpen) /\ ~Holds(current, FunctionOpen)
     THEN QwenBuffering(previous, current, delta)
     ELSE IF Holds(current, FunctionOpen)
     THEN IF /\ Count(current, <<FunctionOpen>>) <= Count(current, <<FunctionClose>>)
             /\ Count(current, <<FunctionClose>>) > closed /\ Len(calls) > closed
          THEN CallsSince(calls, closed) ELSE Silent
     ELSE IF Holds(current, CallClose) THEN Reread(QwenCalls(current)) ELSE Silent

\* GLM-4.7: a call leaves no content.
GlmCalls(text) ==
  LET clean == StripThinkTags(text)
      calls == Parsed(Bodies(clean, CallOpen, CallClose))
  IN IF calls = <<>> THEN NoCalls(clean) ELSE Found(calls, <<>>)
GlmToolStreaming(current, delta) ==
  IF Has(current, ThinkOpen) /\ ~Has(current, ThinkClose) THEN Silent
  ELSE IF ~Holds(current, CallOpen) THEN Says(StripThinkTags(delta))
  ELSE IF Holds(delta, CallClose) THEN Reread(GlmCalls(current)) ELSE Silent

\* Gemma 4: the calls of the first block.
GemmaCalls(text) ==
  LET clean == StripThinkTags(text)
      rest == After(clean, <<CallOpen>>)
      block == IF Holds(rest, CallClose) THEN Before(rest, <<CallClose>>) ELSE rest
      calls == SelectSeq(block, IsCall)
  IN IF ~Holds(clean, CallOpen) \/ calls = <<>> THEN NoCalls(text)
     ELSE Found(calls, Before(clean, <<CallOpen>>))
GemmaToolStreaming(current, delta) ==
  IF ~Holds(current, CallOpen) THEN Says(delta)
  ELSE IF Holds(delta, CallClose) THEN Reread(GemmaCalls(current)) ELSE Silent

\* Harmony: commentary blocks are calls, the final one content.
HarmonyCalls(text) ==
  LET calls == Bodies(text, CallOpen, CallClose)
      final == Places(text, <<Channel, Final, MessageMark>>)
      rest == Drop(text, Min(final) + 2)
  IN Found(calls, IF final # {} /\ Holds(rest, ReturnMark) THEN Before(rest, <<ReturnMark>>)
                  ELSE IF calls # <<>> THEN <<>> ELSE Letters(text))
\* Within the final channel; the chunk is passed on when it is no control token.
HarmonyFinalShown(current, delta) ==
  LET final == Places(current, <<Channel, Final>>)
      rest == Drop(current, Max(final) + 1)
  IN /\ final # {} /\ ~Holds(current, CallClose) /\ Holds(rest, MessageMark)
     /\ Without(After(rest, <<MessageMark>>), {ReturnMark}) # <<>>
     /\ ~(Len(delta) = 1 /\ delta[1] \in {Channel, MessageMark, EndMark, ReturnMark})
HarmonyToolStreaming(current, delta) ==
  IF Holds(delta, CallClose) /\ HarmonyCalls(current).calls # <<>>
  THEN Reread(HarmonyCalls(current))
  ELSE IF HarmonyFinalShown(current, delta)
          \/ (~Holds(current, Channel) /\ ~Holds(current, CallOpen))
  THEN Says(delta) ELSE Silent

\* Functionary: the recipient, a mark (here what closes), then the arguments.
FunctionaryCalls(text) ==
  LET calls == At(text, {i \in 3..Len(text) : /\ text[i - 2] = CallOpen
                           /\ text[i - 1] = CallClose /\ IsBody(text[i])})
  IN IF calls = <<>> THEN LlamaCalls(text)
     ELSE Found(calls \o LlamaCalls(text).calls,
                LlamaCalls(Letters(text)).content)
FunctionaryStreaming(current, delta) ==
  IF ~Holds(current, CallOpen) /\ ~Holds(current, FunctionOpen) THEN Says(delta)
  ELSE IF Holds(delta, CallClose) \/ Holds(delta, FunctionClose)
  THEN Reread(FunctionaryCalls(current)) ELSE Silent

\* The generic parser: bracketed calls, then XML, then Llama's; a raw one last.
BareBrackets(text) == Bodies(text, BracketOpen, CallClose)
ParseRawJson(text) == SelectSeq(text, IsCall)
AutoCalls(text) ==
  LET tagged == BareBrackets(text) \o Parsed(Bodies(text, CallOpen, CallClose))
                \o Bodies(text, FunctionOpen, FunctionClose)
      left == WithoutBlocks(WithoutBlocks(WithoutBlocks(text, BracketOpen, CallClose),
                CallOpen, CallClose), FunctionOpen, FunctionClose)
  IN IF tagged # <<>> THEN Found(tagged, left)
     ELSE IF ParseRawJson(text) # <<>> THEN Found(ParseRawJson(text), <<>>) ELSE NoCalls(text)
\* Text that ends in [name( waits; what shows that it was no call does not bring it back.
AutoStreaming(current, delta) ==
  IF Holds(current, BracketOpen) /\ Last(current) = BracketOpen /\ BareBrackets(current) = <<>>
  THEN Silent
  ELSE IF BareBrackets(current) = <<>> /\ ~Holds(current, CallOpen) /\ ~Holds(current, FunctionOpen)
  THEN Says(delta)
  ELSE IF Holds(delta, CallClose) \/ Holds(delta, FunctionClose)
  THEN Reread(AutoCalls(current)) ELSE Silent

\* The configured tool parser: extract_tool_calls and extract_tool_calls_streaming.
CallsIn(kind, text) ==
  CASE kind = "llama" -> LlamaCalls(text) [] kind = "deepseek" -> DeepSeekCalls(text)
    [] kind = "kimi" -> KimiCalls(text) [] kind = "granite" -> GraniteCalls(text)
    [] kind = "nemotron" -> NemotronCalls(text) [] kind = "xlam" -> XlamCalls(text)
    [] kind = "minimax" -> MiniMaxCalls(text) [] kind = "mistral" -> MistralCalls(text)
    [] kind = "hermes" -> HermesCalls(text) [] kind = "qwen" -> QwenCalls(text)
    [] kind = "glm47" -> GlmCalls(text) [] kind = "gemma4" -> GemmaCalls(text)
    [] kind = "harmony" -> HarmonyCalls(text)
    [] kind = "functionary" -> FunctionaryCalls(text) [] OTHER -> AutoCalls(text)

Answered(kind, previous, delta) ==
  LET current == previous \o delta
  IN CASE kind = "llama" -> LlamaStreaming(current, delta)
       [] kind = "deepseek" -> DeepSeekToolStreaming(current, delta)
       [] kind = "kimi" -> KimiStreaming(current, delta)
       [] kind = "granite" -> GraniteStreaming(current, delta)
       [] kind = "nemotron" -> NemotronStreaming(current, delta)
       [] kind = "xlam" -> XlamStreaming(current, delta)
       [] kind = "minimax" -> MiniMaxStreaming(previous, current, delta)
       [] kind = "hermes" -> HermesStreaming(previous, current, delta)
       [] kind = "qwen" -> QwenStreaming(previous, current, delta)
       [] kind = "glm47" -> GlmToolStreaming(current, delta)
       [] kind = "gemma4" -> GemmaToolStreaming(current, delta)
       [] kind = "harmony" -> HarmonyToolStreaming(current, delta)
       [] kind = "functionary" -> FunctionaryStreaming(current, delta)
       [] OTHER -> AutoStreaming(current, delta)
================================================================================
