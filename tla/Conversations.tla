------------------------------ MODULE Conversations ------------------------------
(***************************************************************************)
(* A conversation as the three chat endpoints carry it.  A client talks    *)
(* through one of them, turn by turn, from any turn it has had: it sends   *)
(* the transcript it keeps (or, with responses, the id of a stored one),   *)
(* the server makes a prompt of it for the chat template, and the reply    *)
(* becomes part of the transcript in the endpoint's own form.              *)
(* What is said is a part: words, a call, the name of the call a result    *)
(* answers, what the result told, an image, a thought, or a rule that the  *)
(* server adds.  `said' keeps what was said, in order, for the properties. *)
(***************************************************************************)
EXTENDS Integers, Sequences, FiniteSets, SequencesExt

CONSTANTS
  Styles,          \* records [api, native, mllm, chain, system]: the endpoint, whether
                   \* the template knows tool messages, a multimodal engine, whether a
                   \* client of responses names the previous one, a system prompt
  Asks,            \* what a turn may add: [words, early, note, image, choice, schema]
  TalkReplies,     \* what a model may say: [thinks, speaks, calls]
  RequestTools,           \* the tools that requests with a choice declare
  MaxTurns

VARIABLES
  style, turns,
  prompt           \* what the engine was given for the turn that is answered now

talkVars == <<style, turns, prompt>>

Part(kind, n) == [kind |-> kind, n |-> n]
OfKind(parts, kinds) == SelectSeq(parts, LAMBDA p : p.kind \in kinds)
Each(Op(_), s) == [i \in DOMAIN s |-> Op(s[i])]
Written == {"words", "thought", "rule", "told", "result", "call"}

\* A client's message, or item of a responses input.
Entry(role, blocks) == [role |-> role, blocks |-> blocks]
Entries(role, blocks) == Each(LAMBDA b : Entry(role, <<b>>), blocks)

\* A message of the prompt; its content is a string unless it is a list or null.
Message(role, content) ==
  [role |-> role, content |-> content, calls |-> <<>>, answers |-> 0, text |-> TRUE]
ToolMessage(call) == [Message("tool", <<Part("told", call)>>) EXCEPT !.answers = call]

(* From the endpoint's form to chat messages                               *)

ChatMessage(e) ==
  IF e.role = "tool" THEN ToolMessage(e.blocks[1].n)
  ELSE LET content == OfKind(e.blocks, {"words", "image"})
           calls == OfKind(e.blocks, {"call"})
       IN [Message(e.role, content) EXCEPT
             !.calls = Each(LAMBDA c : c.n, calls),
             !.text = OfKind(content, {"image"}) = <<>> /\ (content # <<>> \/ calls = <<>>)]

\* _convert_message of the Anthropic adapter: images and thoughts stay behind.
ConvertMessage(e) ==
  LET words == OfKind(e.blocks, {"words"})
      results == Each(LAMBDA r : ToolMessage(r.n), OfKind(e.blocks, {"result"}))
      calls == Each(LAMBDA c : c.n, OfKind(e.blocks, {"call"}))
  IN IF e.role = "assistant" THEN <<[Message("assistant", words) EXCEPT !.calls = calls]>>
     ELSE IF words = <<>> /\ results # <<>> THEN results
     ELSE <<Message(e.role, words)>> \o results

System(notes) == IF notes = <<>> THEN <<>> ELSE <<Message("system", notes)>>
AnthropicToOpenai(transcript, notes) ==
  System(notes) \o FlattenSeq(Each(ConvertMessage, transcript))

\* _responses_input_to_chat_messages, one item.
ItemMessage(e) ==
  CASE e.role = "tool" -> ToolMessage(e.blocks[1].n)
    [] e.blocks[1].kind = "call" -> [Message("assistant", <<>>) EXCEPT !.calls = <<e.blocks[1].n>>]
    [] OTHER -> Message(IF e.role = "developer" THEN "system" ELSE e.role,
                        OfKind(e.blocks, {"words", "thought"}))

\* Mutant: the instructions of a request are kept with its messages.
PersistedMessages_WithInstructions(previous, items, notes) ==
  previous \o System(notes) \o Each(ItemMessage, items)

\* _responses_request_to_persisted_messages
PersistedMessages(previous, items, notes) == previous \o Each(ItemMessage, items)

\* _responses_request_to_chat_request: what is of the system goes first, in one message.
ResponsesChatRequest(previous, items, notes) ==
  LET all == previous \o System(notes) \o Each(ItemMessage, items)
      IsSystem(m) == m.role = "system"
  IN System(FlattenSeq(Each(LAMBDA m : m.content, SelectSeq(all, IsSystem))))
     \o SelectSeq(all, LAMBDA m : ~IsSystem(m))

(* From chat messages to the prompt                                         *)

AsCall(c) == Part("call", c)

\* extract_multimodal_content, one message: without native tool messages calls and
\* results become text.
ExtractMessage(m, native) ==
  LET text == [m EXCEPT !.content = OfKind(@, Written), !.text = TRUE]
  IN CASE m.role = "tool" /\ native -> m
       [] m.role = "tool" /\ ~native -> Message("user", <<Part("result", m.answers)>> \o m.content)
       [] m.role = "assistant" /\ m.calls # <<>> /\ ~native ->
            Message("assistant", text.content \o Each(AsCall, m.calls))
       [] OTHER -> text
Images(messages) == FlattenSeq(Each(LAMBDA m : OfKind(m.content, {"image"}), messages))

StandardRole(role) == IF role = "developer" THEN "system" ELSE role
Merges(previous, m) == /\ StandardRole(m.role) = previous.role
                       /\ previous.text /\ m.text

MergeMessage(done, m) ==
  IF done # <<>> /\ Merges(Last(done), m)
  THEN Append(Front(done), [Last(done) EXCEPT !.content = @ \o m.content])
  ELSE Append(done, [m EXCEPT !.role = StandardRole(@)])
NormalizeMessages(messages) == FoldLeft(MergeMessage, <<>>, messages)

\* _inject_json_instruction, for a schema and for a choice of tools.
InjectInstruction(messages, rule) ==
  IF \E m \in Range(messages) : m.role = "system"
  THEN LET i == SelectInSeq(messages, LAMBDA m : m.role = "system")
       IN [messages EXCEPT ![i].content = Append(@, rule)]
  ELSE <<Message("system", <<rule>>)>> \o messages
Schema == Part("rule", 1)
MustCall == Part("rule", 2)

\* _prepare_chat_messages
PrepareMessages(messages) ==
  NormalizeMessages(IF style.mllm THEN messages
                    ELSE Each(LAMBDA m : ExtractMessage(m, style.native), messages))

Declared(choice) == IF choice = "no tools" THEN {} ELSE RequestTools
\* _get_forced_tool_name
Forced(choice) == choice \in RequestTools

\* _apply_forced_tool_choice
OfferedTools(choice) ==
  CASE choice = "none" -> {} [] Forced(choice) -> {choice} [] OTHER -> Declared(choice)

\* _prepare_json_logits_processor
Constrained(ask) == ask.schema /\ (Declared(ask.choice) = {} \/ ask.choice = "none")

\* _prepare_chat_completion_invocation and _prepare_anthropic_invocation; tools that
\* are declared turn thinking off, as does a constraint.
PrepareInvocation(chat, ask) ==
  LET ready == PrepareMessages(chat)
      held == IF ask.schema THEN InjectInstruction(ready, Schema) ELSE ready
      told == IF Forced(ask.choice) \/ ask.choice = "required"
              THEN InjectInstruction(held, MustCall) ELSE held
  IN [messages |-> told, tools |-> OfferedTools(ask.choice), constrained |-> Constrained(ask),
      thinks |-> Declared(ask.choice) = {} /\ ~Constrained(ask),
      images |-> IF style.mllm THEN Images(told) ELSE Images(chat)]

\* _prepare_responses_request: neither normalised, nor is there a choice.
PrepareResponses(chat, ask) ==
  [messages |-> Each(LAMBDA m : ExtractMessage(m, style.native), chat),
   tools |-> Declared(ask.choice), constrained |-> FALSE,
   thinks |-> Declared(ask.choice) = {}, images |-> Images(chat)]

(* The turns                                                                *)

Number(k) == 10 * (Len(turns) + 1) + k
\* The system prompt of a client; a client of responses has one for each turn.
Instructions ==
  IF style.system THEN <<Part("words", IF style.api = "responses" THEN Number(0) ELSE 1)>> ELSE <<>>
Beginning ==
  [sent |-> IF style.api = "chat" /\ style.system THEN <<Entry("system", <<Part("words", 1)>>)>>
            ELSE <<>>,
   stored |-> <<>>, said |-> <<>>, open |-> <<>>]

\* What a client adds: the results of the calls that wait for them, and its words.
NewWords(ask) == [k \in 1..ask.words |-> Part("words", Number(k))]
NewEntries(ask, open) ==
  LET results == Each(LAMBDA c : Part("result", c), open)
      words == NewWords(ask)
      picture == IF ask.image THEN <<Part("image", Number(5))>> ELSE <<>>
      note == IF ask.note THEN <<Entry("developer", <<Part("words", Number(6))>>)>> ELSE <<>>
  IN IF style.api = "messages"
     THEN <<Entry("user", IF ask.early THEN words \o results ELSE results \o words)>>
     ELSE Entries("tool", results) \o note
          \o (IF picture = <<>> THEN Entries("user", words)
              ELSE <<Entry("user", picture \o words)>>)

\* Those parts as they were said; what a result told follows the name of its call.
SaidIn(entries) ==
  FlattenSeq(Each(LAMBDA e : FlattenSeq(Each(LAMBDA b :
    IF b.kind = "result"
    THEN <<[by |-> "tool", part |-> b], [by |-> "tool", part |-> Part("told", b.n)]>>
    ELSE <<[by |-> StandardRole(e.role), part |-> b]>>, e.blocks)), entries))

AskTurn(past, ask) ==
  /\ prompt = <<>> /\ Len(turns) < MaxTurns
  /\ ask.words > 0 \/ past.open # <<>>
  /\ ask.image => style.api = "chat"
  /\ ask.note => style.api # "messages"
  /\ ask.schema => style.api # "responses"
  /\ LET new == NewEntries(ask, past.open)
         sent == past.sent \o new
         input == IF style.chain THEN new ELSE sent
         chat == CASE style.api = "chat" -> Each(ChatMessage, sent)
                   [] style.api = "messages" -> AnthropicToOpenai(sent, Instructions)
                   [] OTHER -> ResponsesChatRequest(past.stored, input, Instructions)
         given == IF style.api = "responses" THEN PrepareResponses(chat, ask)
                  ELSE PrepareInvocation(chat, ask)
     IN prompt' = <<[given |-> given, ask |-> ask, instructions |-> Instructions,
                     turn |-> [sent |-> sent, open |-> <<>>,
                               said |-> past.said \o SaidIn(new),
                               stored |-> IF style.chain THEN PersistedMessages(past.stored, new, Instructions)
                                         ELSE <<>>]]>>
  /\ UNCHANGED <<style, turns>>

Optional(b, part) == IF b THEN <<part>> ELSE <<>>

\* create_anthropic_message: its blocks, one of which is a text or a call.
AnthropicBlocks(thought, words, calls) ==
  thought \o words \o calls
  \o (IF words = <<>> /\ calls = <<>> THEN <<Part("blank", 0)>> ELSE <<>>)

\* _response_output_items_to_chat_messages: thoughts are not kept.
PersistedOutput(words, calls) ==
  IF words = <<>> /\ calls = <<>> THEN <<>>
  ELSE <<[Message("assistant", words) EXCEPT !.calls = Each(LAMBDA c : c.n, calls)]>>

AnswerTurn(reply) ==
  /\ prompt # <<>>
  /\ reply.calls > 0 => prompt[1].given.tools # {}
  /\ reply.thinks => ~prompt[1].given.constrained
  /\ LET turn == prompt[1].turn
         thought == Optional(reply.thinks, Part("thought", Number(7)))
         words == Optional(reply.speaks, Part("words", Number(8)))
         calls == [k \in 1..reply.calls |-> Part("call", Number(k))]
         \* _build_responses_output_items: an item for each
         entries == CASE style.api = "chat" -> <<Entry("assistant", words \o calls)>>
                      [] style.api = "messages" ->
                           <<Entry("assistant", AnthropicBlocks(thought, words, calls))>>
                      [] OTHER -> Entries("assistant", thought \o words \o calls)
     IN turns' = Append(turns, [sent |-> turn.sent \o entries,
                                stored |-> IF style.chain
                                           THEN turn.stored \o PersistedOutput(words, calls)
                                           ELSE <<>>,
                                said |-> turn.said \o SaidIn(entries),
                                open |-> Each(LAMBDA c : c.n, calls)])
  /\ prompt' = <<>>
  /\ UNCHANGED style

TalkInit == style \in Styles /\ turns = <<>> /\ prompt = <<>>
TalkNext ==
  \/ \E ask \in Asks : AskTurn(Beginning, ask) \/ \E i \in DOMAIN turns : AskTurn(turns[i], ask)
  \/ \E reply \in TalkReplies : AnswerTurn(reply)

(* What a conversation keeps                                                *)

\* A message of the prompt, as what it says and by whom.
Speaker(m, part) ==
  CASE part.kind \in {"result", "told"} -> "tool" [] part.kind = "call" -> "assistant"
    [] OTHER -> m.role
Heard(messages) ==
  FlattenSeq(Each(LAMBDA m :
    Each(LAMBDA p : [by |-> Speaker(m, p), part |-> p],
         (IF m.answers # 0 THEN <<Part("result", m.answers)>> ELSE <<>>)
         \o OfKind(m.content, Written) \o Each(AsCall, m.calls)), messages))

NotBy(heard, by) == SelectSeq(heard, LAMBDA s : s.by # by)
Only(heard, by) == SelectSeq(heard, LAMBDA s : s.by = by)

\* What it should say.  Anthropic results follow the words of their message; what is
\* of the system goes first in responses; thoughts return only when they are resent.
Expected(now) ==
  LET system == Each(LAMBDA p : [by |-> "system", part |-> p], now.instructions)
      aloud == SelectSeq(now.turn.said, LAMBDA s :
                 /\ s.part.kind \notin {"image", "blank"}
                 /\ s.part.kind = "thought" => style.api = "responses" /\ ~style.chain)
      \* before the instructions there are the notes that the server has kept
      Kept(s) == style.chain /\ s.part.n < Number(0)
      notes == Only(aloud, "system")
  IN IF style.api # "responses" THEN system \o aloud
     ELSE SelectSeq(notes, Kept) \o system \o SelectSeq(notes, LAMBDA s : ~Kept(s))
          \o NotBy(aloud, "system")

Unruled(heard) == SelectSeq(heard, LAMBDA s : s.part.kind # "rule")
Unnamed(heard) == SelectSeq(heard, LAMBDA s : s.part.kind # "result")
SameThings(a, b) ==
  IF style.api # "messages" THEN a = b
  ELSE NotBy(a, "tool") = NotBy(b, "tool") /\ Only(a, "tool") = Only(b, "tool")

\* The names of the calls that results answer survive, unless messages of the role
\* "tool" that follow each other were merged: then the first one's is left.
NamesKept(heard, expected) ==
  LET Names(s) == OfKind(Each(LAMBDA x : x.part, s), {"result"})
  IN IF style.api # "responses" /\ (style.native \/ style.mllm)
     THEN \A i \in DOMAIN expected :
            /\ expected[i].part.kind = "result"
            /\ i > 2 => expected[i - 2].part.kind # "result"
            => expected[i].part \in Range(Names(heard))
     ELSE Names(heard) = Names(expected)

Alternate(messages) == \A i \in 1..Len(messages) - 1 : messages[i].role # messages[i + 1].role

\* The prompt of a turn says all that was said on the way to it and nothing else, in
\* order and by the same speaker, whichever way the transcript came; it has its own
\* instructions and no others; every rule that was asked for stands once, in the
\* first message of the system; images come along; templates that want roles to
\* alternate get them; a text that is held to a schema is not offered tools and does
\* not think.
TalkSound ==
  prompt # <<>> =>
    LET now == prompt[1]
        given == now.given
        heard == Unruled(Heard(given.messages))
        expected == Expected(now)
        rules == (IF now.ask.schema THEN {Schema} ELSE {})
                 \cup (IF style.api # "responses"
                          /\ (now.ask.choice = "required" \/ Forced(now.ask.choice))
                       THEN {MustCall} ELSE {})
    IN /\ SameThings(Unnamed(heard), Unnamed(expected))
       /\ NamesKept(heard, expected)
       /\ Len(Heard(given.messages)) = Len(heard) + Cardinality(rules)
       /\ rules # {} =>
            LET first == SelectInSeq(given.messages, LAMBDA m : m.role = "system")
            IN Range(OfKind(given.messages[first].content, {"rule"})) = rules
       /\ ~style.mllm /\ style.api # "responses" => Alternate(given.messages)
       /\ given.images = OfKind(Each(LAMBDA s : s.part, now.turn.said), {"image"})
       /\ given.constrained => given.tools = {} /\ ~given.thinks
       /\ Forced(now.ask.choice) /\ style.api # "responses" => given.tools = {now.ask.choice}

TalkTypeOK ==
  /\ style \in Styles /\ Len(turns) <= MaxTurns /\ Len(prompt) <= 1
  /\ \A t \in Range(turns) : Range(t.open) \subseteq {s.part.n : s \in Range(t.said)}
================================================================================
