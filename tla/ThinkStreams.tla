------------------------------ MODULE ThinkStreams ------------------------------
(***************************************************************************)
(* A stream through a reasoning parser: the text comes in chunks, and what *)
(* has been told apart as reasoning and as content goes to the client.     *)
(***************************************************************************)
EXTENDS ChannelParsers

CONSTANTS ThinkKinds,      \* the parsers looked at
          ThinkAnswers,    \* the answers their models give, 0 standing for a letter
          ThinkChunks      \* the chunks in which they come

ASSUME ThinkAssumption ==
  /\ ThinkKinds \subseteq {"qwen", "deepseek", "glm", "harmony", "gptoss", "gemma"}

VARIABLES thinkKind, thinkAnswer, thinkText, thinkState,
          thinkOut         \* what has been streamed

thinkVars == <<thinkKind, thinkAnswer, thinkText, thinkState, thinkOut>>

ThinkInit ==
  /\ thinkKind \in ThinkKinds /\ thinkAnswer \in ThinkAnswers[thinkKind]
  /\ thinkText = <<>> /\ thinkOut = Nothing
  /\ thinkState = FreshParser(thinkKind)

ThinkFed(chunk) ==
  LET delta == Numbered(chunk, thinkText)
  IN /\ IsPrefix(chunk, Drop(thinkAnswer, Len(thinkText)))
     /\ thinkText' = thinkText \o delta
     /\ \E fed \in {Streaming(thinkKind, thinkState, thinkText, delta)} :
          /\ thinkState' = fed.state
          /\ thinkOut' = DeltaMessage(thinkOut.reasoning \o fed.message.reasoning,
                                      thinkOut.content \o fed.message.content)
     /\ UNCHANGED <<thinkKind, thinkAnswer>>

ThinkNext == \E chunk \in ThinkChunks[thinkKind] : ThinkFed(chunk)

ThinkTypeOK ==
  /\ thinkKind \in ThinkKinds /\ thinkAnswer \in ThinkAnswers[thinkKind]
  /\ Len(thinkText) <= Len(thinkAnswer)

\* Nothing is streamed twice or out of order.
SaidOnce ==
  LET reasoning == Letters(thinkOut.reasoning)  content == Letters(thinkOut.content)
  IN Increasing(reasoning) /\ Increasing(content) /\ Range(reasoning) \cap Range(content) = {}

\* An answer of the form its model writes.
WellFormed ==
  CASE thinkKind \in {"qwen", "deepseek", "glm"} ->
         /\ Count(thinkText, ThinkClose) = 1 /\ Count(thinkText, ThinkOpen) <= 1
         /\ thinkKind = "glm" \/ Has(thinkText, ThinkOpen) => IsPrefix(ThinkOpen, Unboxed(thinkText))
    [] thinkKind = "gemma" ->
         /\ IsPrefix(ThoughtMarker, thinkText) /\ Count(thinkText, GemmaOpen) = 1
         /\ Count(thinkText, GemmaClose) = 1
    [] OTHER ->
         /\ IsPrefix(Block(Analysis), thinkText)
         /\ Count(thinkText, <<Channel>>) = 2 /\ Has(thinkText, Block(Final))
         /\ Count(thinkText, <<EndMark>>) = 1
         /\ IsPrefix(Block(Final), After(thinkText, <<EndMark>>))
         /\ Last(thinkText) = ReturnMark /\ Count(thinkText, <<ReturnMark>>) = 1

\* Chunk by chunk such an answer is told apart as it is when it is whole.
StreamedAsWhole ==
  WellFormed =>
    LET whole == Whole(thinkKind, thinkText)
    IN /\ Letters(thinkOut.reasoning) = Letters(whole.reasoning)
       /\ Letters(thinkOut.content) = Letters(whole.content)

ThinkSound == SaidOnce /\ StreamedAsWhole
================================================================================
