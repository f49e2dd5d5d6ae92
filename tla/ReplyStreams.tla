------------------------------ MODULE ReplyStreams ------------------------------
(***************************************************************************)
(* Streamed replies of the three chat endpoints (server.py): what the      *)
(* engine yields goes through the reasoning parser and the tool parser and *)
(* out as frames (Chat Completions), as content blocks (Messages) or as    *)
(* output items (Responses).  The parsers are objects of the process: the  *)
(* replies that are under way at once share their state.                   *)
(***************************************************************************)
EXTENDS ChannelParsers, ToolParsers

CONSTANTS Replies,        \* the requests
          ReplyApi,       \* the endpoint of each: "chat", "messages" or "responses"
          ReplyPlain,     \* those that ask for no thinking
          ReplyModes,     \* the server's parsers: [think, tool], "off" without
          ReplyAnswers,   \* the answers a model gives in a mode, with and without thinking
          ReplyChunks,    \* the chunks in which they come
          Overlap         \* whether two replies are streamed at once

ASSUME ReplyAssumption ==
  /\ ReplyApi \in [Replies -> {"chat", "messages", "responses"}]
  /\ ReplyPlain \subseteq Replies /\ Overlap \in BOOLEAN

VARIABLES replyMode,
          thinking,       \* _reasoning_parser's state
          reply           \* the streams' own

replyVars == <<replyMode, thinking, reply>>

FreshReply ==
  [at |-> "idle", answer |-> <<>>, text |-> <<>>, toolText |-> <<>>, markup |-> FALSE,
   called |-> FALSE, reasoning |-> <<>>, content |-> <<>>, calls |-> <<>>,
   finishes |-> <<>>, lastEmpty |-> FALSE, events |-> <<>>]

Thinks == replyMode.think # "off"
Tools == replyMode.tool # "off"

\* SPECIAL_TOKENS_PATTERN, and _TOOL_MARKUP_PATTERN for what the tool parser leaves.
Unspecial(text) == Without(text, {EndMark, ReturnMark, Channel, MessageMark})
Unleaked(text) == Without(text, {CallOpen, CallClose, FunctionClose})

\* _streaming_tool_markup_possible, by the markers it knows.
MarkupPossible(kind, text) ==
  /\ kind \notin {"deepseek", "kimi", "xlam", "harmony"}
  /\ Holds(text, CallOpen) \/ Holds(text, FunctionOpen) \/ Holds(text, BracketOpen)

(* The whole answer, as a reply that is not streamed reads it.              *)

\* parse_tool_calls: the blocks of every format, then raw JSON in what is left.
BracketCalls(text) == Parsed(Bodies(text, BracketOpen, CallClose))
TaggedCalls(text) == Parsed(Bodies(text, CallOpen, CallClose))
FunctionCalls(text) == Parsed(Bodies(text, FunctionOpen, FunctionClose))
RawCalls(text) == SelectSeq(text, IsCall)
ParseToolCalls(text) ==
  LET calls == BracketCalls(text) \o TaggedCalls(text) \o FunctionCalls(text)
      left == WithoutBlocks(WithoutBlocks(WithoutBlocks(text, BracketOpen, CallClose),
                CallOpen, CallClose), FunctionOpen, FunctionClose)
  IN IF calls # <<>> THEN Found(calls, left)
     ELSE IF RawCalls(left) # <<>> THEN Found(RawCalls(left), <<>>) ELSE Found(<<>>, left)

\* What the configured parser leaves as it was is tried with the generic one.
OrGeneric(found, text) ==
  IF found.calls # <<>> \/ found.content # text THEN found ELSE ParseToolCalls(text)
ParseWithParser(kind, text) ==
  OrGeneric(IF kind = "auto" THEN NoCalls(text) ELSE CallsIn(kind, text), text)

WithCalls(reasoning, found) ==
  [reasoning |-> reasoning, content |-> found.content, calls |-> found.calls]
ToldApart(mode, text, told) ==
  LET rest == IF told = Nothing THEN text ELSE told.content
  IN WithCalls(told.reasoning,
               IF mode.tool = "off" THEN NoCalls(rest) ELSE ParseWithParser(mode.tool, rest))
ExtractReasoningAndToolCalls(mode, text) ==
  ToldApart(mode, text,
            IF mode.think = "off" THEN DeltaMessage(<<>>, text) ELSE Whole(mode.think, text))

(* What a chunk does to a stream.                                           *)

\* The fast path lets text by until a marker appears; from then on the parser reads.
ToolRead(r, content) ==
  LET fast == ~r.markup /\ ~MarkupPossible(replyMode.tool, r.toolText \o content)
  IN [fast |-> fast,
      answer |-> IF fast THEN Says(content)
                 ELSE Answered(replyMode.tool, r.toolText, content),
      next |-> [r EXCEPT !.toolText = @ \o content, !.markup = ~fast]]

\* A frame of a Chat Completions stream.
Framed(r, reasoning, content, calls, finish) ==
  [r EXCEPT !.reasoning = @ \o reasoning, !.content = @ \o content, !.calls = @ \o calls,
            !.finishes = IF finish = "none" THEN @ ELSE Append(@, finish)]

\* Reasoning with the markup of a call in it is given to the tool parser.
Redirected(r, message) ==
  IF /\ Tools /\ message.reasoning # <<>> /\ message.content = <<>>
     /\ Holds(r.toolText \o message.reasoning, CallOpen)
  THEN DeltaMessage(<<>>, message.reasoning) ELSE message

\* stream_chat_completion, what the parsers have made of a chunk.
ChatFrame(r, read, message, reasoned, finished) ==
  LET finish == IF ~finished THEN "none" ELSE IF r.called THEN "tool_calls" ELSE "stop"
      shown(text) == IF reasoned THEN text ELSE Unspecial(text)
  IN IF ~Tools \/ message.content = <<>>
     THEN Framed(r, message.reasoning, shown(message.content), <<>>, finish)
     ELSE CASE read.fast ->
                 IF reasoned /\ Stripped(message.content) = <<>> THEN read.next
                 ELSE Framed(read.next, message.reasoning, shown(message.content), <<>>, finish)
            [] ~read.fast /\ read.answer = Silent ->
                 Framed(read.next, message.reasoning, <<>>, <<>>, "none")
            [] ~read.fast /\ read.answer.calls # <<>> ->
                 Framed([read.next EXCEPT !.called = TRUE], message.reasoning, <<>>,
                        read.answer.calls, IF finished THEN "tool_calls" ELSE "none")
            [] OTHER ->
                 Framed(read.next, message.reasoning, Unleaked(read.answer.said), <<>>, finish)

\* The calls of a text in which no call was seen to close.
ChatFallback(r, calls) ==
  IF Tools /\ r.toolText # <<>> /\ ~r.called /\ MarkupPossible(replyMode.tool, r.toolText)
     /\ calls # <<>>
  THEN Framed(r, <<>>, <<>>, CallsFrom(calls, 0).calls, "tool_calls") ELSE r

\* Content blocks and output items: what is started, added to and stopped, at an index.
Event(what, kind, index) == [what |-> what, kind |-> kind, index |-> index]
Emitted(r, events) == [r EXCEPT !.events = @ \o events]
Started(r, kind) == \E i \in DOMAIN r.events : r.events[i] = Event("start", kind, r.events[i].index)
IndexOf(r, kind) ==
  r.events[CHOOSE i \in DOMAIN r.events :
             r.events[i].what = "start" /\ r.events[i].kind = kind].index

\* _stream_anthropic_messages: the text block behind the thinking block, if there was one.
TextBlock(r) ==
  IF Started(r, "text") THEN <<>>
  ELSE IF Started(r, "thinking")
  THEN <<Event("stop", "thinking", 0), Event("start", "text", 1)>>
  ELSE <<Event("start", "text", 0)>>

ThinkingShown(r, reasoning) ==
  IF reasoning = <<>> THEN r
  ELSE Emitted([r EXCEPT !.reasoning = @ \o reasoning],
               (IF Started(r, "thinking") THEN <<>> ELSE <<Event("start", "thinking", 0)>>)
               \o <<Event("delta", "thinking", 0)>>)

TextShown(r, text) ==
  LET opened == Emitted(r, TextBlock(r))
  IN Emitted([opened EXCEPT !.content = @ \o text],
             <<Event("delta", "text", IndexOf(opened, "text"))>>)

MessageText(told, read, content) ==
  LET said == IF read.fast THEN read.answer.said ELSE Unleaked(read.answer.said)
  IN IF content = <<>> THEN told
     ELSE IF ~Tools THEN TextShown(told, content)
     ELSE IF said = <<>> THEN read.next ELSE TextShown(read.next, said)
MessageBlock(told, content) == MessageText(told, ToolRead(told, content), content)

\* The end: the blocks are closed, the calls of the whole text follow.
MessageEnds(r, calls) ==
  LET closed == IF Started(r, "thinking") /\ ~Started(r, "text")
                THEN Emitted(r, <<Event("stop", "thinking", 0), Event("start", "text", 1)>>)
                ELSE r
      last == IF Started(closed, "text") THEN IndexOf(closed, "text") ELSE -1
      used(i) == <<Event("start", "tool_use", last + i), Event("delta", "tool_use", last + i),
                   Event("stop", "tool_use", last + i)>>
  IN [Emitted(closed, (IF last < 0 THEN <<>> ELSE <<Event("stop", "text", last)>>)
                      \o FlattenSeq([i \in DOMAIN calls |-> used(i)]))
      EXCEPT !.calls = CallsFrom(calls, 0).calls]

\* _stream_responses_request: items are started when first needed, at the next index.
ItemDelta(r, kind) ==
  LET next == Cardinality({i \in DOMAIN r.events : r.events[i].what = "start"})
  IN IF Started(r, kind) THEN <<Event("delta", kind, IndexOf(r, kind))>>
     ELSE <<Event("start", kind, next), Event("delta", kind, next)>>

ReasoningItem(r, reasoning) ==
  IF reasoning = <<>> THEN r
  ELSE Emitted([r EXCEPT !.reasoning = @ \o reasoning], ItemDelta(r, "reasoning"))
TextItem(r, text) ==
  IF text = <<>> THEN r ELSE Emitted([r EXCEPT !.content = @ \o text], ItemDelta(r, "text"))

\* With a reasoning parser the tool parser is not asked.
ResponseItem(r, read, message, reasoned) ==
  IF reasoned THEN TextItem(ReasoningItem(r, message.reasoning), message.content)
  ELSE IF ~Tools THEN TextItem(r, Unspecial(message.content))
  ELSE IF read.fast THEN TextItem(read.next, Unspecial(read.answer.said))
  ELSE TextItem(read.next, read.answer.said)

ResponseWhole(r, found) ==
  IF r.content = <<>> /\ found.calls = <<>> /\ found.content # <<>>
  THEN [Emitted(r, IF Started(r, "text") THEN <<>> ELSE <<Head(ItemDelta(r, "text"))>>)
        EXCEPT !.content = Unspecial(found.content)]
  ELSE r
ResponseEnds(whole, found) ==
  LET done(kind) == IF Started(whole, kind)
                    THEN <<Event("stop", kind, IndexOf(whole, kind))>> ELSE <<>>
      next == Cardinality({i \in DOMAIN whole.events : whole.events[i].what = "start"}) - 1
      used(i) == <<Event("start", "function_call", next + i),
                   Event("delta", "function_call", next + i),
                   Event("stop", "function_call", next + i)>>
  IN [Emitted(whole, done("reasoning") \o done("text")
                     \o FlattenSeq([i \in DOMAIN found.calls |-> used(i)]))
      EXCEPT !.calls = CallsFrom(found.calls, 0).calls]

(* The streams.                                                             *)

ReplyInit ==
  /\ replyMode \in ReplyModes
  /\ thinking = FreshParser(replyMode.think)
  /\ reply = [c \in Replies |-> FreshReply]

\* Mutant: what the last stream has left of the parser's state is kept.
ResetState_Kept(plain) == IF plain THEN InPhase(thinking, "content") ELSE thinking

\* reset_state, as the three streams call it.
ResetState(plain) == IF plain THEN InPhase(FreshThinking, "content") ELSE FreshThinking

\* Two of the parsers do not take the argument with which they are called.
TakesStart == replyMode.think \notin {"gemma", "harmony"}

ReplyBegins(c) ==
  /\ reply[c].at = "idle"
  /\ ~Overlap => \A d \in Replies : reply[d].at \in {"idle", "done"}
  /\ \E answer \in ReplyAnswers[replyMode][c \notin ReplyPlain] :
       reply' = [reply EXCEPT ![c] =
         [FreshReply EXCEPT
            !.at = IF TakesStart THEN "open" ELSE "raised", !.answer = answer,
            !.events = IF ReplyApi[c] = "messages" /\ ~Thinks
                       THEN <<Event("start", "text", 0)>> ELSE <<>>]]
  /\ thinking' = IF Thinks /\ TakesStart THEN ResetState(c \in ReplyPlain) ELSE thinking
  /\ UNCHANGED replyMode

\* What a reply has sent once the parsers have made a message of what was seen.
ReplyFed(c, r, next, message, reasoned, silent, seen, finished) ==
  CASE silent \/ (ReplyApi[c] # "chat" /\ seen = <<>>) -> next
    [] ~silent /\ ReplyApi[c] = "chat" ->
         LET shown == IF reasoned THEN Redirected(r, message) ELSE message
         IN ChatFrame(next, ToolRead(next, shown.content), shown, reasoned, finished)
    [] ~silent /\ ReplyApi[c] = "messages" /\ seen # <<>> ->
         MessageBlock(ThinkingShown(next, message.reasoning), message.content)
    [] OTHER -> ResponseItem(next, ToolRead(next, message.content), message, reasoned)

\* One output of the engine.
ReplyOutput(c, chunk, finished) ==
  LET r == reply[c]
      delta == Numbered(chunk, r.text)
      seen == IF ReplyApi[c] = "messages" THEN Unspecial(delta) ELSE delta
      reasoned == Thinks /\ seen # <<>>
      fedReply == [r EXCEPT !.text = @ \o delta, !.lastEmpty = finished /\ delta = <<>>,
                            !.at = IF finished THEN "finished" ELSE "open"]
  IN /\ r.at = "open" /\ IsPrefix(chunk, Drop(r.answer, Len(r.text)))
     /\ finished => Len(r.text) + Len(chunk) = Len(r.answer)
     /\ chunk = <<>> => finished
     /\ \E fed \in {IF reasoned THEN Streaming(replyMode.think, thinking, r.text, seen)
                   ELSE Fed(thinking, DeltaMessage(<<>>, seen))} :
          /\ thinking' = fed.state
          /\ reply' = [reply EXCEPT ![c] =
               ReplyFed(c, r, fedReply, fed.message, reasoned, reasoned /\ fed.message = Nothing,
                        seen, finished)]
     /\ UNCHANGED replyMode

\* The engine's stream is over.
ReplyEnds(c) ==
  LET r == [reply[c] EXCEPT !.at = "done"]
  IN /\ reply[c].at = "finished"
     /\ \E found \in {IF Tools THEN ParseWithParser(replyMode.tool, r.text)
                     ELSE ParseToolCalls(r.text)} :
          reply' = [reply EXCEPT ![c] =
            CASE ReplyApi[c] = "chat" -> ChatFallback(r, CallsIn(replyMode.tool, r.toolText).calls)
              [] ReplyApi[c] = "messages" -> MessageEnds(r, IF Tools THEN found.calls ELSE <<>>)
              [] OTHER -> ResponseEnds(ResponseWhole(r, found), found)]
     /\ UNCHANGED <<replyMode, thinking>>

ReplyNext ==
  \E c \in Replies :
    \/ ReplyBegins(c) \/ ReplyEnds(c)
    \/ \E chunk \in ReplyChunks \cup {<<>>}, finished \in BOOLEAN : ReplyOutput(c, chunk, finished)

ReplyTypeOK ==
  /\ replyMode \in ReplyModes
  /\ \A c \in Replies :
       /\ reply[c].at \in {"idle", "open", "finished", "done", "raised"}
       /\ Len(reply[c].text) <= Len(reply[c].answer)

\* Reasoning and content are streamed once and in order.
ReplySaidOnce ==
  \A c \in Replies :
    LET reasoning == Letters(reply[c].reasoning)  content == Letters(reply[c].content)
    IN Increasing(reasoning) /\ Increasing(content) /\ Range(reasoning) \cap Range(content) = {}

\* A stream that has ended has said what the same answer says when it is not streamed,
\* whatever was streamed before it.
SaysWhole(r, whole) ==
  /\ Letters(r.reasoning) = Letters(whole.reasoning)
  /\ Letters(r.content) = Letters(whole.content)
SaidAsWhole ==
  \A c \in Replies \ ReplyPlain : reply[c].at = "done" =>
    SaysWhole(reply[c], ExtractReasoningAndToolCalls(replyMode, reply[c].text))

\* Every call of the answer has been sent, at its place, and no other; and the client
\* is told to use its tools.
Announces(c, r, calls) ==
  /\ {r.calls[i].index : i \in DOMAIN r.calls} = {k - 1 : k \in DOMAIN calls}
  /\ \A i \in DOMAIN r.calls : r.calls[i].name = <<calls[r.calls[i].index + 1]>>
  /\ r.finishes # <<>> => (r.calls # <<>> <=> Last(r.finishes) = "tool_calls")
  /\ (ReplyApi[c] = "chat" /\ (r.lastEmpty \/ (~Thinks /\ ~Tools))) => r.finishes # <<>>
CallsAnnounced ==
  \A c \in Replies \ ReplyPlain : reply[c].at = "done" =>
    Announces(c, reply[c], ExtractReasoningAndToolCalls(replyMode, reply[c].text).calls)

\* A block is started once, before what is added to it and before it is stopped; blocks
\* of a message one behind the other; at the end all are stopped, at indices without gaps.
BlocksInTurn ==
  \A c \in Replies :
    LET events == reply[c].events
        starts == {i \in DOMAIN events : events[i].what = "start"}
        open(i) == {j \in starts : /\ j <= i /\ \A k \in j..i : events[k] #
                                        Event("stop", events[j].kind, events[j].index)}
    IN /\ \A i, j \in starts : i < j => events[i].index = events[j].index - 1
                                        \/ \E k \in starts : i < k /\ k < j
       /\ starts # {} => events[Min(starts)].index = 0
       /\ \A i \in DOMAIN events :
            /\ events[i].what = "delta" =>
                 \E j \in open(i) : events[j].index = events[i].index /\ events[j].kind = events[i].kind
            /\ events[i].what = "stop" => \E j \in open(i - 1) : events[j].index = events[i].index
            /\ ReplyApi[c] = "messages" => Cardinality(open(i)) <= 1
       /\ reply[c].at = "done" => open(Len(events)) = {}

\* A request that asks for no thinking has none.
PlainIsPlain == \A c \in ReplyPlain : reply[c].reasoning = <<>>

RepliesSound ==
  ReplySaidOnce /\ SaidAsWhole /\ CallsAnnounced /\ BlocksInTurn /\ PlainIsPlain
================================================================================
