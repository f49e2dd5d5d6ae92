------------------------------- MODULE Constrained -------------------------------
(***************************************************************************)
(* Constrained decoding (constrained/json_schema_processor.py): before each*)
(* token the processor asks the enforcer which tokens keep to the schema,  *)
(* narrows them where it takes the text to be at a key, permits the end    *)
(* only behind complete JSON, and masks the others.  It follows the text as*)
(* it grows, by what it has scanned before.                                *)
(***************************************************************************)
EXTENDS Texts, TLC

CONSTANTS JsonTexts,      \* the texts the schema admits
          JsonKeys,       \* the property names it declares
          JsonVocab,      \* the tokens, by the text of each
          JsonModes,      \* "plain", "mllm", or "mtp" with drafts
          StuckTexts,     \* where the enforcer does not get on, though the text does
          JsonFaults      \* whether the enforcer may raise

ASSUME JsonAssumption ==
  /\ JsonModes \subseteq {"plain", "mllm", "mtp"} /\ JsonFaults \in BOOLEAN

VARIABLES jsonMode,
          jsonSaid,       \* the text that was generated
          jsonTokens,     \* the tokens the processor is called with
          jsonDraft,      \* a draft that was accepted and is not yet among them
          jsonKnown,      \* the enforcer's prefix_states, the first and the last: the
                          \* text each took it to
          jsonProc,       \* the processor
          jsonDone, jsonRaised,
          jsonCut         \* a token ended within an escape

jsonVars == <<jsonMode, jsonSaid, jsonTokens, jsonDraft, jsonKnown, jsonProc, jsonDone,
              jsonRaised, jsonCut>>

Quote == -81
Escape == -82
ObjectOpen == -83
ObjectClose == -84
ListOpen == -85
ListClose == -86
Comma == -87
Eos == <<-80>>

FreshScan == [inString |-> FALSE, skip |-> FALSE, lastQuote |-> 0, braces |-> 0, brackets |-> 0]
FreshProcessor ==
  [disabled |-> FALSE, promptLen |-> -1, text |-> <<>>, textLen |-> 0, scan |-> FreshScan,
   scanned |-> 0]

\* One character; a backslash takes the next one with it, if there is a next one.
ScanCharacter(scan, text, i) ==
  IF scan.skip THEN [scan EXCEPT !.skip = FALSE]
  ELSE IF scan.inString
  THEN [scan EXCEPT !.skip = text[i] = Escape /\ i < Len(text),
                    !.inString = text[i] # Quote]
  ELSE CASE text[i] = Quote -> [scan EXCEPT !.inString = TRUE, !.lastQuote = i]
         [] text[i] = ObjectOpen -> [scan EXCEPT !.braces = @ + 1]
         [] text[i] = ObjectClose -> [scan EXCEPT !.braces = @ - 1]
         [] text[i] = ListOpen -> [scan EXCEPT !.brackets = @ + 1]
         [] text[i] = ListClose -> [scan EXCEPT !.brackets = @ - 1]
         [] OTHER -> scan
ScanFrom(scan, text, from) ==
  FoldLeft(LAMBDA acc, i : ScanCharacter(acc, text, i), scan,
           [k \in 1..Len(text) - from |-> from + k])

\* _suffix: what comes behind the prompt, as it was at the first call.
WithPrompt(proc, tokens) ==
  [proc EXCEPT !.promptLen = IF @ < 0 THEN Max({0, Len(tokens) - 1}) ELSE @]

\* The decoded text is kept by its number of tokens; when it no longer begins as it did
\* the scan starts over.
DecodeSuffix(proc, suffix) ==
  LET text == FlattenSeq(suffix)
      changed == /\ Len(suffix) > proc.textLen /\ proc.textLen > 0
                 /\ ~IsPrefix(proc.text, text)
      fresh == [proc EXCEPT !.text = text, !.textLen = Len(suffix)]
  IN IF suffix = <<>> THEN [proc EXCEPT !.text = <<>>, !.textLen = 0]
     ELSE IF Len(suffix) = proc.textLen THEN proc
     ELSE IF changed THEN [fresh EXCEPT !.scan = FreshScan, !.scanned = 0] ELSE fresh

\* Mutant: the scan starts behind what was decoded, not behind what was scanned.
JsonContext_OneBehind(proc) ==
  IF proc.text = <<>> THEN proc
  ELSE [proc EXCEPT !.scanned = Len(proc.text),
          !.scan = ScanFrom(IF proc.scanned = 0 THEN FreshScan ELSE @, proc.text,
                            Min({proc.scanned + 1, Len(proc.text)}))]

\* _get_json_context: only what is new is scanned.
JsonContext(proc) ==
  LET grown == Len(proc.text) > proc.scanned /\ proc.scanned > 0
  IN IF proc.text = <<>> THEN proc
     ELSE [proc EXCEPT !.scanned = Len(proc.text),
             !.scan = IF grown THEN ScanFrom(@, proc.text, proc.scanned)
                      ELSE ScanFrom(FreshScan, proc.text, 0)]

\* A position behind { or , is taken for that of a key, in a list as well.
ContextOf(proc) ==
  LET before == IF proc.scan.inString THEN Take(proc.text, proc.scan.lastQuote - 1) ELSE proc.text
      solid == {i \in DOMAIN before : before[i] # Blank}
  IN CASE /\ proc.text # <<>> /\ proc.scan.inString
          /\ solid = {} \/ before[Max(solid)] \in {ObjectOpen, Comma} -> "in_key"
       [] ~proc.scan.inString /\ solid # {} /\ before[Max(solid)] \in {ObjectOpen, Comma} -> "key_start"
       [] OTHER -> "other"

ValidPrefix(prefix) == \E name \in JsonKeys : IsPrefix(prefix, name)
\* What follows in a key: its rest, or a part of it, from what there is of it.
ContinuesKey(begun, text) ==
  IF Holds(text, Quote) THEN begun \o Before(text, <<Quote>>) \in JsonKeys
  ELSE ValidPrefix(begun \o text)

OrAll(kept, allowed) == IF kept = {} THEN allowed ELSE kept

StartsKey(token) ==
  LET text == Stripped(token)
  IN \/ text = <<>> \/ text[1] = ObjectClose
     \/ /\ text[1] = Quote
        /\ Len(text) = 1 \/ (text[2] # Quote /\ ContinuesKey(<<>>, Tail(text)))
KeyStarts(allowed) == OrAll({t \in allowed \ {Eos} : StartsKey(t)}, allowed)

InKey(proc, allowed) ==
  LET begun == AfterLast(proc.text, <<Quote>>)
  IN IF ~Holds(proc.text, Quote) THEN allowed
     ELSE OrAll({t \in allowed : t[1] # Blank /\ ContinuesKey(begun, t)}, allowed)

FilterAtKey(proc, allowed) ==
  IF JsonKeys = {} THEN allowed
  ELSE CASE ContextOf(proc) = "key_start" -> KeyStarts(allowed)
         [] ContextOf(proc) = "in_key" -> InKey(proc, allowed)
         [] OTHER -> allowed

\* Without the leading blank of a prompt; json.loads accepts what the schema admits.
CompleteJson(proc) ==
  /\ proc.text # <<>> /\ proc.scan.braces = 0 /\ proc.scan.brackets = 0 /\ ~proc.scan.inString
  /\ Stripped(proc.text) \in JsonTexts

(* The enforcer (lm-format-enforcer): a sequence of tokens is followed from the state of *)
(* the one before it; when that was never asked for, from the beginning of the grammar.  *)
EnforcedText(known, tokens) ==
  IF tokens \in DOMAIN known THEN known[tokens]
  ELSE IF tokens # <<>> /\ Front(tokens) \in DOMAIN known
  THEN Stripped(known[Front(tokens)] \o Last(tokens)) ELSE <<>>
Conforms(text) == {t \in JsonVocab : \E a \in JsonTexts : IsPrefix(text \o t, a)}
GetAllowedTokens(text) ==
  LET goes == Conforms(text)
  IN IF text \in StuckTexts \/ (goes = {} /\ text \notin JsonTexts) THEN {Eos}
     ELSE goes \cup (IF text \in JsonTexts THEN {Eos} ELSE {})

EosGuard(proc, allowed) == IF CompleteJson(proc) THEN allowed ELSE allowed \ {Eos}

\* __call__: the processor and the tokens it leaves to be sampled.
Processed(proc, tokens, raises) ==
  LET asked == WithPrompt(proc, tokens)
      suffix == Drop(tokens, asked.promptLen)
      passed == IF asked.promptLen > 0 THEN suffix ELSE tokens
      text == EnforcedText(jsonKnown, passed)
      seen == JsonContext(DecodeSuffix(asked, suffix))
      allowed == EosGuard(seen, FilterAtKey(seen, GetAllowedTokens(text)))
      known == (<<>> :> <<>>) @@ (passed :> text)
      off == [seen EXCEPT !.disabled = TRUE]
      every == JsonVocab \cup {Eos}
  IN CASE proc.disabled -> [proc |-> proc, mask |-> every, known |-> jsonKnown]
       [] ~proc.disabled /\ raises ->
            [proc |-> [asked EXCEPT !.disabled = TRUE], mask |-> every, known |-> jsonKnown]
       [] ~proc.disabled /\ ~raises /\ allowed = {} ->
            IF CompleteJson(seen) THEN [proc |-> seen, mask |-> {Eos}, known |-> known]
            ELSE [proc |-> off, mask |-> every, known |-> known]
       [] OTHER -> [proc |-> seen, mask |-> allowed, known |-> known]

JsonInit ==
  /\ jsonMode \in JsonModes
  /\ jsonSaid = <<>> /\ jsonDraft = <<>> /\ jsonProc = FreshProcessor
  /\ jsonTokens = IF jsonMode = "mllm" THEN <<>> ELSE <<<<Blank>>>>
  /\ jsonKnown = (<<>> :> <<>>)
  /\ jsonDone = FALSE /\ jsonRaised = FALSE /\ jsonCut = FALSE

CutsEscape(token) == token # Eos /\ Last(token) = Escape /\
  (Len(token) = 1 \/ token[Len(token) - 1] # Escape)

\* A step of the batch: a token is sampled from what the processor has left, and with MTP
\* the draft behind it may be accepted, which the processor is not asked about.  Here a
\* draft is one that the schema admits.
JsonStep ==
  \E raises \in {FALSE, JsonFaults} :
    LET call == Processed(jsonProc, jsonTokens, raises)
    IN \E token \in call.mask :
         LET said == jsonSaid \o token
             drafts == IF jsonMode = "mtp" /\ token # Eos
                       THEN {<<>>} \cup Conforms(said) ELSE {<<>>}
         IN \E draft \in drafts :
              /\ ~jsonDone /\ (jsonProc.disabled => ~raises)
              /\ call.proc.disabled => token = Eos     \* what is free is not followed
              /\ jsonProc' = call.proc /\ jsonKnown' = call.known
              /\ jsonDone' = (token = Eos)
              /\ jsonSaid' = IF token = Eos THEN jsonSaid ELSE said \o draft
              /\ jsonTokens' = jsonTokens
                               \o (IF jsonDraft = <<>> THEN <<>> ELSE <<jsonDraft>>) \o <<token>>
              /\ jsonDraft' = draft
              /\ jsonRaised' = (jsonRaised \/ raises)
              /\ jsonCut' = (jsonCut \/ CutsEscape(token))
              /\ UNCHANGED jsonMode

JsonNext == JsonStep

JsonTypeOK ==
  /\ jsonMode \in JsonModes /\ jsonDone \in BOOLEAN
  /\ jsonProc.scanned <= Len(jsonProc.text) /\ jsonProc.scan.skip = FALSE

\* What was sampled under the mask begins a text of the schema, and where it ends it is one.
StaysJson ==
  ~jsonProc.disabled =>
    /\ \E a \in JsonTexts : IsPrefix(jsonSaid, a)
    /\ jsonDone => jsonSaid \in JsonTexts

\* What was found by scanning piece by piece is what a scan of the whole text finds, unless
\* a token has ended behind a backslash.
ContextExact ==
  ~jsonCut /\ jsonProc.scanned > 0 => jsonProc.scan = ScanFrom(FreshScan, jsonProc.text, 0)

\* The constraint is given up only where the enforcer has failed.
NotGivenUp ==
  jsonProc.disabled => \/ jsonRaised \/ jsonCut \/ jsonSaid \in StuckTexts

JsonSound == StaysJson /\ ContextExact /\ NotGivenUp
================================================================================
