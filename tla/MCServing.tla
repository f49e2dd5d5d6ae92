------------------------------- MODULE MCServing --------------------------------
(***************************************************************************)
(* What serves a request, on small instances: the HTTP layer, the two other*)
(* engines, the patched batch generator, the tool servers and the services *)
(* around them.  They are seen apart: a behaviour is one of the parts,     *)
(* chosen at the start, and the others stay as they are.                   *)
(***************************************************************************)
EXTENDS MllmServing, DraftDecode, SimpleServing, HttpServing, McpTools, Operations, TLC

CONSTANTS r1, r2, r3, q1, q2, q3, q4, q5, h1, h2, h3, h4, s1, s2, s3, k1, k2, k3,
          Parts         \* the parts that are looked at

VARIABLE part

MCLen == [s \in DdSeqs |-> CASE s = s1 -> 4 [] s = s2 -> 2 [] OTHER -> 5]
MCHits == [s \in DdSeqs |-> CASE s = s1 -> {0, 1} [] s = s2 -> {0} [] OTHER -> {1}]
MCBoundary == [s \in DdSeqs |-> IF s = s1 THEN 3 ELSE 0]
Mode(mtp, mllm, optimistic, cap, pre) ==
  [mtp |-> mtp, mllm |-> mllm, optimistic |-> optimistic, cap |-> cap, pre |-> pre]
\* The configurations in which the text is decoded as without drafts.
MCSoundModes ==
  {Mode(FALSE, FALSE, FALSE, 2, 1), Mode(TRUE, FALSE, FALSE, 1, 1),
   Mode(TRUE, TRUE, FALSE, 1, 1), Mode(TRUE, FALSE, TRUE, 1, 1), Mode(FALSE, TRUE, FALSE, 2, 2)}

MCRoute == [q \in SimpleReqs |->
  CASE q \in {q1, q2, q5} -> "text" [] q = q3 -> "direct" [] OTHER -> "blocking"]
MCSystem == [q \in SimpleReqs |-> CASE q \in {q1, q2} -> 1 [] q = q5 -> 2 [] OTHER -> 0]
MCKind == [h \in HttpReqs |->
  CASE h = h1 -> "plain" [] h = h2 -> "stream" [] OTHER -> "responses"]
MCPrev == [h \in HttpReqs |-> IF h = h4 THEN h3 ELSE None]
MCServerOf == [c \in McpCalls |-> CHOOSE v \in McpServers : TRUE]
MCModelOf == [e \in Engines |-> "model"]
Said(role, text) == [role |-> role, content |-> text]
MCWarmPrompts ==
  {<<Said("system", <<"s">>)>>,
   <<Said("system", <<"s">>), Said("user", <<"q">>)>>,
   <<Said("system", <<"s">>), Said("user", <<"A">>), Said("assistant", <<"t">>)>>}
MCUserTexts == {<<"A", "l">>, <<"q">>, <<"X">>, <<"s", "/">>}

vars == <<part, mllmVars, ddVars, simpleVars, httpVars, mcpVars, opVars>>

Init ==
  /\ part \in Parts
  /\ MllmInit /\ DdInit /\ SimpleInit /\ HttpInit /\ McpInit /\ OpInit
  /\ part # "draft" => ddMode = CHOOSE m \in DdModes : TRUE
  /\ part # "http" => ~resident

\* Of the services one moves.
Services ==
  \/ part = "rate" /\ RateNext
  \/ part = "owners" /\ OwnersNext
  \/ part = "weights" /\ WeightsNext
  \/ part = "warm" /\ WarmNext

\* Of SimpleEngine's requests that share no system prompt, q3 and q4, one comes.
Next ==
  \/ part = "mllm" /\ MllmNext
       /\ UNCHANGED <<part, ddVars, simpleVars, httpVars, mcpVars, opVars>>
  \/ part = "draft" /\ DdNext
       /\ UNCHANGED <<part, mllmVars, simpleVars, httpVars, mcpVars, opVars>>
  \/ part = "simple" /\ SimpleNext /\ "new" \in {pc'[q3], pc'[q4]}
       /\ UNCHANGED <<part, mllmVars, ddVars, httpVars, mcpVars, opVars>>
  \/ part = "http" /\ HttpNext
       /\ UNCHANGED <<part, mllmVars, ddVars, simpleVars, mcpVars, opVars>>
  \/ part = "mcp" /\ McpNext
       /\ UNCHANGED <<part, mllmVars, ddVars, simpleVars, httpVars, opVars>>
  \/ part \in {"rate", "owners", "weights", "warm"} /\ Services
       /\ UNCHANGED <<part, mllmVars, ddVars, simpleVars, httpVars, mcpVars>>

Spec == Init /\ [][Next]_vars

\* What is said to go on by itself has a step.
SimpleGoesOn == \A q \in SimpleReqs : GoesOn(q) => ENABLED SimpleStep(q)
HttpProceeds == \A h \in HttpReqs : Proceeds(h) => ENABLED HttpStep(h)

\* The variables of the part that moves keep their types, and the requests that are said to
\* go on by themselves, of the engine without batches and of the HTTP layer, can do so.
ServingTypeOK ==
  CASE part = "mllm" -> MllmTypeOK [] part = "draft" -> DdTypeOK
    [] part = "simple" -> SimpleTypeOK /\ SimpleGoesOn
    [] part = "http" -> HttpTypeOK /\ HttpProceeds
    [] part = "mcp" -> McpTypeOK [] OTHER -> OpTypeOK
================================================================================
