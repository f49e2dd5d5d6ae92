---------------------------------- MODULE Texts ----------------------------------
(***************************************************************************)
(* Generated text as the parsers see it: a sequence of symbols.  Letters   *)
(* are positive numbers, each told apart by its place; markup is made of   *)
(* negative ones, and a tag may arrive in parts.                           *)
(***************************************************************************)
EXTENDS Integers, Sequences, FiniteSets, FiniteSetsExt, SequencesExt

Blank == -90                               \* white space
ThinkOpen == <<-1, -2>>                    \* <think>, in two parts
ThinkClose == <<-3, -4>>                   \* </think>
Box == -5                                  \* GLM's box tokens
Channel == -21                             \* <|channel|>, and what follows it
Analysis == -22
Final == -23
Commentary == -24
MessageMark == -25
EndMark == -26                             \* <|end|>, <|call|>, <|start|>
ReturnMark == -27
GemmaOpen == <<-31, -32>>                  \* <|channel>, in two parts
Thought == -33
Response == -34
GemmaClose == <<-35, -36>>                 \* <channel|>
CallOpen == -41                            \* what opens a tool call, and closes it
CallClose == -42
SectionOpen == -43                         \* around a list of calls
SectionClose == -44
FunctionOpen == -45                        \* <function=name>, a call of its own or
FunctionClose == -46                       \* within <tool_call>
Malformed == -50                           \* a call that is not JSON
Rest == -51                                \* more of a call's arguments
PartMark == -52                            \* text that may be a marker's beginning
BracketOpen == -53                         \* [name(
Call == -100                               \* a call; numbered below it

Places(s, t) == {i \in 1..Len(s) - Len(t) + 1 : SubSeq(s, i, i + Len(t) - 1) = t}
Has(s, t) == Places(s, t) # {}
Count(s, t) == Cardinality(Places(s, t))
Drop(s, n) == SubSeq(s, n + 1, Len(s))
Take(s, n) == SubSeq(s, 1, n)
\* str.find and str.rfind, partitioned there.
Before(s, t) == Take(s, Min(Places(s, t)) - 1)
After(s, t) == Drop(s, Min(Places(s, t)) + Len(t) - 1)
BeforeLast(s, t) == Take(s, Max(Places(s, t)) - 1)
AfterLast(s, t) == Drop(s, Max(Places(s, t)) + Len(t) - 1)
Without(s, marks) == SelectSeq(s, LAMBDA x : x \notin marks)
\* The symbols of s at some places, in order.
At(s, places) ==
  LET order == SelectSeq([i \in DOMAIN s |-> i], LAMBDA i : i \in places)
  IN [k \in DOMAIN order |-> s[order[k]]]
Letters(s) == SelectSeq(s, LAMBDA x : x > 0)
Stripped(s) == \* lstrip
  IF \A i \in DOMAIN s : s[i] = Blank THEN <<>>
  ELSE Drop(s, Min({i \in DOMAIN s : s[i] # Blank}) - 1)
Holds(s, x) == \E i \in DOMAIN s : s[i] = x
\* The symbols of a chunk, letters and calls numbered by their place in the text.
Numbered(chunk, text) ==
  [i \in DOMAIN chunk |->
     CASE chunk[i] = 0 -> Len(text) + i [] chunk[i] = Call -> Call - Len(text) - i
       [] OTHER -> chunk[i]]
Increasing(s) == \A i, j \in DOMAIN s : i < j => s[i] < s[j]
================================================================================
