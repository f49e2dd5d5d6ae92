------------------------------- MODULE MCStreams --------------------------------
(***************************************************************************)
(* Streamed text on small instances: the reasoning parsers, the tool-call  *)
(* parsers, the replies that use both, the filters, and the processor that *)
(* keeps a text to a JSON schema.  A behaviour is one of the parts, chosen *)
(* at the start; the others stay as they are.                              *)
(* 0 stands for a letter in the answers and in the chunks.                 *)
(***************************************************************************)
EXTENDS ThinkStreams, ToolStreams, ReplyStreams, TextFilters, Constrained, Conversations, TLC

CONSTANTS c1, c2, c3, c4,
          Parts          \* the parts that are looked at

VARIABLE part

L == <<0>>
Strings(pieces, n) == {FlattenSeq(s) : s \in TupleOf(pieces, n)}
UpTo(pieces, n) == UNION {Strings(pieces, i) : i \in 1..n}
Single(symbols) == {<<x>> : x \in symbols}
C == <<CallOpen, Call, CallClose>>
M == <<CallOpen, Malformed, CallClose>>
F == <<FunctionOpen, Call, FunctionClose>>
Section(calls) == <<SectionOpen>> \o calls \o <<SectionClose>>

(* What reasoning models write.                                             *)

MCThinkAnswers == [k \in ThinkKinds |->
  CASE k \in {"qwen", "deepseek"} -> Strings({L, ThinkOpen, ThinkClose, <<Blank>>}, 4)
    [] k = "glm" -> Strings({L, ThinkOpen, ThinkClose, <<Box>>}, 4)
    [] k = "gemma" -> {GemmaOpen \o <<Thought>> \o a \o GemmaClose \o b : a, b \in {<<>>, L, L \o L}}
                      \cup Strings({L, GemmaOpen, GemmaClose, <<Thought>>, <<Response>>}, 4)
    [] OTHER -> {Block(Analysis) \o a \o <<EndMark>> \o Block(Final) \o b \o <<ReturnMark>> :
                   a, b \in {<<>>, L, L \o L}}
                \cup {Block(Analysis) \o L \o <<EndMark>> \o Block(Commentary) \o L \o <<EndMark>>
                      \o Block(Final) \o L \o <<ReturnMark>>}]
ChannelSymbols == {0, Channel, Analysis, Final, Commentary, MessageMark, EndMark, ReturnMark}
MCThinkChunks == [k \in ThinkKinds |->
  CASE k \in {"qwen", "deepseek", "glm"} -> UpTo({L, ThinkOpen, ThinkClose, <<Blank>>, <<Box>>}, 3)
    [] k = "harmony" -> {L, <<EndMark>>, <<ReturnMark>>, <<MessageMark>>}
                        \cup {<<Channel, n>> : n \in Channels}
    [] k = "gptoss" -> Single(ChannelSymbols) \cup {<<MessageMark, 0>>, <<0, ReturnMark>>}
                       \cup {Block(n) : n \in Channels}
    [] OTHER -> Single({0, Thought, Response} \cup Range(GemmaOpen) \cup Range(GemmaClose))]

(* What models write that call tools.                                       *)

MCToolAnswers == [k \in ToolKinds |->
  CASE k = "llama" -> UpTo({L, F, <<FunctionOpen, Malformed, FunctionClose>>}, 4)
    [] k = "deepseek" -> {a \o Section(b) : a \in {<<>>, L}, b \in UpTo({C, M}, 3)}
    [] k = "kimi" -> {a \o Section(b) : a \in {<<>>, L}, b \in UpTo({C, M}, 3)} \cup UpTo({L, C}, 3)
    [] k = "granite" -> {<<CallOpen>> \o Section(b) : b \in UpTo({<<Call>>, <<Malformed>>}, 3)}
    [] k = "glm47" -> UpTo({L, C, M}, 3) \cup {ThinkOpen \o L \o ThinkClose \o x : x \in {L, C}}
    [] k = "minimax" -> {a \o b \o c : a, c \in {<<>>, L}, b \in {<<>>, C}} \cup UpTo({L, M}, 3)
    [] k = "mistral" -> {a \o b : a \in {<<>>, L}, b \in UpTo({<<CallOpen, Call>>}, 3)}
    [] k = "hermes" -> {a \o b : a \in UpTo({L, C}, 3), b \in {<<>>, M}} \cup UpTo({L, F}, 3)
    [] k = "qwen" -> UpTo({L, C, M}, 3) \cup UpTo({L, F}, 3)
                     \cup {L \o <<PartMark>> \o a : a \in UpTo({L, C}, 2)}
    [] k = "harmony" -> {a \o <<Channel, Final, MessageMark>> \o b \o <<ReturnMark>> :
                           a \in {<<>>, C, C \o C}, b \in {L, L \o L}}
    [] k = "functionary" -> UpTo({L, F}, 3) \cup UpTo({L, <<CallOpen, CallClose, Call>>}, 3)
    [] k = "auto" -> UpTo({L, C, M}, 3) \cup UpTo({L, F}, 3)
                     \cup UpTo({L, <<BracketOpen, Call, CallClose>>, <<BracketOpen, 0>>}, 3)
    [] OTHER -> UpTo({L, C, M}, 3)]
ToolSymbols ==
  {0, Call, Malformed, CallOpen, CallClose, SectionOpen, SectionClose, FunctionOpen, FunctionClose,
   PartMark, BracketOpen, Channel, Final, MessageMark, ReturnMark}
  \cup Range(ThinkOpen) \cup Range(ThinkClose)
MCToolChunks == [k \in ToolKinds |->
  Single(ToolSymbols) \cup {C, M, F, L \o L, <<Call, CallClose>>, <<CallClose, 0>>,
                            <<CallOpen, Call>>, <<PartMark, 0>>}]

(* What a server's replies are made of.                                     *)

Parsers(think, tool) == [think |-> think, tool |-> tool]
MCReplyModes ==
  {Parsers("qwen", "hermes"), Parsers("off", "hermes"), Parsers("off", "llama"),
   Parsers("qwen", "off"), Parsers("off", "auto"), Parsers("deepseek", "hermes")}
Unthought(mode) ==
  CASE mode.tool = "hermes" -> {L, C, L \o C, C \o C, C \o L, L \o <<CallOpen, Call>>}
    [] mode.tool = "llama" -> {L, L \o F, F \o F}
    [] mode.tool = "auto" -> {L, L \o C, L \o F}
    [] OTHER -> {L, L \o L}
Thoughtful(mode) ==
  {t \o x : t \in {ThinkOpen \o L \o ThinkClose, L \o ThinkClose}, x \in Unthought(mode)}
  \cup (IF mode.tool = "hermes" THEN {C} ELSE {})
MCReplyAnswers == [mode \in ReplyModes |-> [thinks \in BOOLEAN |->
  IF mode.think = "off" \/ ~thinks THEN Unthought(mode) ELSE Thoughtful(mode)]]
MCReplyChunks ==
  Single({0, CallOpen, Call, CallClose, FunctionOpen, FunctionClose, SectionOpen, SectionClose}
         \cup Range(ThinkOpen) \cup Range(ThinkClose))
  \cup {C, F, ThinkClose \o L, ThinkClose}
MCReplyApi == [c \in Replies |->
  CASE c \in {c1, c4} -> "chat" [] c = c2 -> "messages" [] OTHER -> "responses"]
\* Of the replies two are streamed, of different endpoints.
MCPairs == {{c1, c2}, {c3, c4}}

(* What the filters are given.                                              *)

A == ToolCallTags[1].open \o L \o ToolCallTags[1].close
B == ToolCallTags[2].open \o L \o ToolCallTags[2].close
MCFilterAnswers == [k \in FilterKinds |->
  CASE k = "calls" -> Strings({L, A, B, Take(A, 1)}, 4)
                      \cup {ToolCallTags[1].open \o <<0, 0, 0, 0, 0, 0>> \o ToolCallTags[1].close \o L}
    [] k = "think" -> Strings({L, ThinkOpen, ThinkClose, Take(ThinkOpen, 1)}, 4)
    [] OTHER -> {a \o b \o c \o d :
                   a \in {<<>>, Fence \o Json \o <<Blank>>, Fence \o <<Blank>>, Fence, <<Blank>>},
                   b \in UpTo({L}, 3), c \in {<<>>, <<Tick>>, <<Blank, 0>>, Fence \o L},
                   d \in {<<>>, <<Blank>> \o Fence, Fence, Fence \o <<Blank>>}}]
FilterSymbols ==
  {0, Tick, Blank} \cup Range(Json) \cup Range(ThinkOpen) \cup Range(ThinkClose)
  \cup UNION {Range(t.open) \cup Range(t.close) : t \in Range(ToolCallTags)}
MCFilterChunks == Single(FilterSymbols) \cup TupleOf(FilterSymbols, 2)

(* The texts of a schema with the properties a and ab, and the tokens.      *)

KeyA == <<1>>
KeyAB == <<1, 2>>
Digit == 5
Colon == 7
Str(s) == <<Quote>> \o s \o <<Quote>>
Pair(key, value) == Str(key) \o <<Colon>> \o value
List(e) == <<ListOpen>> \o e \o <<Comma>> \o e \o <<ListClose>>
Object(members) == <<ObjectOpen>> \o members \o <<ObjectClose>>
JsonValues == {<<Digit>>, Str(<<Escape, Quote>>), Str(<<ObjectClose>>), List(<<Digit>>), List(Str(<<6>>))}
MCJsonTexts ==
  {Object(Pair(KeyAB, v) \o c) : v \in JsonValues, c \in {<<>>, <<Comma, Blank>> \o Pair(KeyA, <<Digit>>)}}
  \cup {Object(Pair(KeyA, <<Digit>>))}
MCJsonKeys == {KeyA, KeyAB}
MCJsonVocab ==
  Single({1, 2, Digit, 6, Colon, Quote, Escape, ObjectOpen, ObjectClose, ListOpen, ListClose, Comma, Blank})
  \cup {<<Quote, 1>>, <<1, 2>>, <<Quote, Colon>>, <<2, Quote>>, <<Comma, Blank>>, <<Escape, Quote>>,
        <<Blank, Quote>>, <<Quote, ObjectClose>>}
MCStuckTexts == {<<ObjectOpen>> \o Str(KeyA)}

(* How clients talk to the chat endpoints.                                  *)

Style(api, native, mllm, chain, system) ==
  [api |-> api, native |-> native, mllm |-> mllm, chain |-> chain, system |-> system]
MCStyles ==
  {Style("chat", FALSE, FALSE, FALSE, TRUE), Style("chat", TRUE, FALSE, FALSE, FALSE),
   Style("chat", TRUE, TRUE, FALSE, TRUE),
   Style("messages", FALSE, FALSE, FALSE, TRUE), Style("messages", TRUE, FALSE, FALSE, FALSE),
   Style("responses", FALSE, FALSE, TRUE, TRUE), Style("responses", TRUE, FALSE, TRUE, TRUE),
   Style("responses", FALSE, FALSE, FALSE, TRUE)}
Asking(words, early, note, image, choice, schema) ==
  [words |-> words, early |-> early, note |-> note, image |-> image, choice |-> choice, schema |-> schema]
MCAsks ==
  {Asking(1, TRUE, TRUE, FALSE, "auto", FALSE), Asking(2, FALSE, FALSE, FALSE, "no tools", TRUE),
   Asking(0, FALSE, FALSE, FALSE, "required", TRUE), Asking(1, FALSE, FALSE, TRUE, "t1", FALSE),
   Asking(1, FALSE, FALSE, FALSE, "none", TRUE)}
Reply(thinks, speaks, calls) == [thinks |-> thinks, speaks |-> speaks, calls |-> calls]
MCTalkReplies ==
  {Reply(FALSE, TRUE, 0), Reply(FALSE, FALSE, 2), Reply(TRUE, FALSE, 0), Reply(FALSE, TRUE, 1),
   Reply(TRUE, TRUE, 1), Reply(FALSE, FALSE, 0)}

vars == <<part, thinkVars, toolVars, replyVars, filterVars, jsonVars, talkVars>>

\* A part that is not looked at has one beginning.
Some(set) == CHOOSE x \in set : TRUE
SomeThinkKind == Some(ThinkKinds)
SomeThinkAnswer == Some(ThinkAnswers[SomeThinkKind])
SomeToolKind == Some(ToolKinds)
SomeToolAnswer == Some(ToolAnswers[SomeToolKind])
SomeFilterKind == Some(FilterKinds)
SomeFilterAnswer == Some(FilterAnswers[SomeFilterKind])

Init ==
  /\ part \in Parts
  /\ part # "think" => thinkKind = SomeThinkKind /\ thinkAnswer = SomeThinkAnswer
  /\ part # "tool" => toolKind = SomeToolKind /\ toolAnswer = SomeToolAnswer
  /\ part # "filter" => filterKind = SomeFilterKind /\ filterAnswer = SomeFilterAnswer
  /\ part # "reply" => replyMode = Some(ReplyModes)
  /\ part # "json" => jsonMode = Some(JsonModes)
  /\ part # "talk" => style = Some(Styles)
  /\ ThinkInit /\ ToolInit /\ ReplyInit /\ FilterInit /\ JsonInit /\ TalkInit

Next ==
  \/ part = "think" /\ ThinkNext /\ UNCHANGED <<part, toolVars, replyVars, filterVars, jsonVars, talkVars>>
  \/ part = "tool" /\ ToolNext /\ UNCHANGED <<part, thinkVars, replyVars, filterVars, jsonVars, talkVars>>
  \/ /\ part = "reply" /\ ReplyNext /\ UNCHANGED <<part, thinkVars, toolVars, filterVars, jsonVars, talkVars>>
     /\ \E pair \in MCPairs : \A c \in Replies \ pair : reply'[c].at = "idle"
  \/ part = "filter" /\ FilterNext /\ UNCHANGED <<part, thinkVars, toolVars, replyVars, jsonVars, talkVars>>
  \/ part = "json" /\ JsonNext /\ UNCHANGED <<part, thinkVars, toolVars, replyVars, filterVars, talkVars>>
  \/ part = "talk" /\ TalkNext
     /\ UNCHANGED <<part, thinkVars, toolVars, replyVars, filterVars, jsonVars>>

Spec == Init /\ [][Next]_vars

\* The variables of the part that moves keep their types.
StreamsTypeOK ==
  CASE part = "think" -> ThinkTypeOK [] part = "tool" -> ToolTypeOK
    [] part = "reply" -> ReplyTypeOK [] part = "json" -> JsonTypeOK
    [] part = "talk" -> TalkTypeOK [] OTHER -> FilterTypeOK
\* The reasoning parsers and the tool-call parsers: a stream says what the parser makes of
\* the whole answer where its chunks hold whole tags; no letter is said twice or out of
\* order; calls are sent once, complete and at their places.
ParsersTell == (part = "think" => ThinkSound) /\ (part = "tool" => ToolsSound)
\* The three streaming endpoints, one reply after the other: what a stream has sent at its
\* end is what the same answer is worth unstreamed, calls and blocks included.
RepliesServe == part = "reply" => RepliesSound
\* The filters of a stream: tool-call blocks are dropped, thoughts and text go to their
\* blocks, and the fence around JSON goes, wherever the chunks are cut.
FiltersServe == part = "filter" => FiltersSound
\* Constrained decoding: the text stays the beginning of one the schema admits, the place
\* in the JSON is known as it is, and the constraint is given up only for a failure.
SchemaKept == part = "json" => JsonSound
\* The chat endpoints, over turns: the prompt of a turn says what the conversation said.
AllHeard == part = "talk" => TalkSound
\* server.py:5417 of the parser's state: "Reset reasoning parser state for this stream".
\* A stream that has ended has said what its answer says, whatever else was streamed.
StreamSaysTheAnswer == part = "reply" => SaidAsWhole
\* api/tool_calling.py:924: the processor "masks logits at every generation step so the
\* model *cannot* emit invalid JSON", with drafts as without.
DraftedJsonKept == part = "json" => StaysJson
================================================================================
