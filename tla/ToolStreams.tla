------------------------------- MODULE ToolStreams -------------------------------
(***************************************************************************)
(* A stream through a tool-call parser: chunk by chunk the parser answers  *)
(* with content, with calls at their indices, or with nothing.             *)
(***************************************************************************)
EXTENDS ToolParsers

CONSTANTS ToolKinds,      \* the parsers looked at
          ToolAnswers,    \* the answers their models give
          ToolChunks      \* the chunks in which they come

ASSUME ToolAssumption ==
  ToolKinds \subseteq
    {"llama", "deepseek", "kimi", "granite", "nemotron", "xlam", "minimax", "mistral",
     "hermes", "qwen", "glm47", "gemma4", "harmony", "functionary", "auto"}

VARIABLES toolKind, toolAnswer, toolText,
          toolIndex,      \* current_tool_id
          toolCalls,      \* the calls sent, in the order they were
          toolSaid        \* the content sent

toolVars == <<toolKind, toolAnswer, toolText, toolIndex, toolCalls, toolSaid>>

ToolInit ==
  /\ toolKind \in ToolKinds /\ toolAnswer \in ToolAnswers[toolKind]
  /\ toolText = <<>> /\ toolIndex = -1 /\ toolCalls = <<>> /\ toolSaid = <<>>

ToolFed(chunk) ==
  LET delta == Numbered(chunk, toolText)
      mistral == MistralStreaming(toolIndex, toolText \o delta, delta)
      answer == IF toolKind = "mistral" THEN mistral.answer
                ELSE Answered(toolKind, toolText, delta)
  IN /\ IsPrefix(chunk, Drop(toolAnswer, Len(toolText)))
     /\ toolText' = toolText \o delta
     /\ toolIndex' = IF toolKind = "mistral" THEN mistral.index ELSE toolIndex
     /\ toolCalls' = toolCalls \o answer.calls
     /\ toolSaid' = toolSaid \o answer.said
     /\ UNCHANGED <<toolKind, toolAnswer>>

ToolNext == \E chunk \in ToolChunks[toolKind] : ToolFed(chunk)

ToolTypeOK ==
  /\ toolKind \in ToolKinds /\ Len(toolText) <= Len(toolAnswer)
  /\ toolIndex + 1 \in 0..Cardinality(Places(toolText, <<CallOpen>>))
  /\ \A i \in DOMAIN toolCalls : toolCalls[i].index >= 0

\* What a client has at an index is the call at that place in the whole answer, and
\* it stays so as the text goes on.
CallsAgree ==
  LET whole == CallsIn(toolKind, toolText).calls
  IN \A i \in DOMAIN toolCalls :
       /\ toolCalls[i].index < Len(whole)
       /\ toolCalls[i].name = <<whole[toolCalls[i].index + 1]>>

\* The parsers that count what they have sent send no call twice.
CallsOnce ==
  toolKind \in {"hermes", "mistral"} =>
    \A i, j \in DOMAIN toolCalls : i # j => toolCalls[i].index # toolCalls[j].index

\* When every call has closed, every call has been sent.
CallsComplete ==
  toolText # <<>> /\ Last(toolText) \in {CallClose, FunctionClose, SectionClose} =>
    LET whole == CallsIn(toolKind, toolText).calls
    IN \A k \in DOMAIN whole : \E i \in DOMAIN toolCalls : toolCalls[i].index = k - 1

\* Content is sent once and in order; without markup none is held back or lost.
SaidInOrder == Increasing(Letters(toolSaid))
TextKept ==
  (\A i \in DOMAIN toolText : toolText[i] > 0 \/ toolText[i] = PartMark) =>
    \/ toolSaid = toolText
    \/ Last(toolText) = PartMark /\ toolSaid = Take(toolText, Len(toolText) - 1)

ToolsSound == CallsAgree /\ CallsOnce /\ CallsComplete /\ SaidInOrder /\ TextKept
================================================================================
