------------------------------- MODULE Operations -------------------------------
(***************************************************************************)
(* What surrounds the engines: the rate limit of vllm_mlx/server.py, the   *)
(* registry of which engine owns a model (model_registry.py) as EngineCore *)
(* uses it, the weights a trainer sends (engine_core.py,                   *)
(* weight_transfer/mlx_backend.py), and the prefixes that are warmed up at *)
(* the start and after a clear (prompt_warmup.py, engine/batched.py).      *)
(* Text is a sequence of small numbers: a message is its role followed by  *)
(* its content.                                                            *)
(***************************************************************************)
EXTENDS Integers, Sequences, FiniteSets, Functions, SequencesExt, FiniteSetsExt,
        Selections

CONSTANTS
  ApiClients, PerMinute, Minute, OpClock,   \* requests_per_minute, window_size in
                                            \* seconds, and half seconds of clock
  Engines, ModelOf, Forced,                 \* force_model_ownership
  WeightNames, WeightVersions,
  WarmPrompts,                              \* the conversations of the warm-up file
  UserTexts,                                \* what a user may write
  WarmClears                                \* how often the prefix cache is cleared

ASSUME OpAssumption ==
  /\ {PerMinute, Minute} \subseteq Nat \ {0} /\ {OpClock, WarmClears} \subseteq Nat
  /\ DOMAIN ModelOf = Engines /\ Forced \in BOOLEAN /\ "nobody" \notin Engines
  /\ WeightVersions \subseteq Nat \ {0}
  /\ \A text \in UserTexts : text \in Seq(STRING) /\ text # <<>>
  /\ WarmPrompts \subseteq Seq([role : STRING, content : Seq(STRING)])

VARIABLES
  opNow, requestTimes,   \* RateLimiter._requests
  passed,                \* when each request of a client passed
  promised,              \* the last refusal: what was counted and when to come back
  owners,                \* ModelRegistry._owners
  engineIs,              \* "none", "live", "closed" or "collected"
  ownsModel,             \* EngineCore._owns_model
  batching,              \* the engine's BatchGenerator holds requests
  initialised, updating, \* the transfer engine, _weight_update_in_progress
  weights, offered,      \* the model's weights; the last payload and its fate
  warmTasks,             \* the prompts each warm-up task has still to run
  warmed, warmCleared    \* prefixes in the cache; how often it was cleared

rateVars == <<opNow, requestTimes, passed, promised>>
ownerVars == <<owners, engineIs, ownsModel, batching>>
weightVars == <<initialised, updating, weights, offered>>
warmVars == <<warmTasks, warmed, warmCleared>>
opVars == <<rateVars, ownerVars, weightVars, warmVars>>

OpInit ==
  /\ opNow = 0 /\ requestTimes = [i \in ApiClients |-> <<>>]
  /\ passed = requestTimes
  /\ promised = [i \in ApiClients |-> [due |-> 0, counted |-> <<>>]]
  /\ owners = <<>> /\ engineIs = [e \in Engines |-> "none"]
  /\ ownsModel = [e \in Engines |-> FALSE] /\ batching = ownsModel
  /\ initialised = FALSE /\ updating = FALSE /\ offered = [fate |-> "none"]
  /\ weights = [n \in WeightNames |-> 0]
  /\ warmTasks = <<WarmPrompts>> /\ warmed = {} /\ warmCleared = 0

-----------------------------------------------------------------------------
(* The rate limit: a window that slides over the last minute *)

StillInWindow(times) ==
  Selected(times, {t \in Range(times) : t > opNow - 2 * Minute})

\* Mutant: the seconds are only rounded down.
RetryAfter_Floor(times) == (Min(Range(times)) + 2 * Minute - opNow) \div 2

\* int(seconds) + 1, of a time in half seconds
RetryAfter(times) == (Min(Range(times)) + 2 * Minute - opNow) \div 2 + 1

IsAllowed(i) ==
  LET recent == StillInWindow(requestTimes[i])
  IN /\ IF Len(recent) >= PerMinute
        THEN /\ requestTimes' = [requestTimes EXCEPT ![i] = recent]
             /\ promised' = [promised EXCEPT ![i] =
                  [due |-> opNow + 2 * RetryAfter(recent), counted |-> recent]]
             /\ UNCHANGED passed
        ELSE /\ requestTimes' = [requestTimes EXCEPT ![i] = Append(recent, opNow)]
             /\ passed' = [passed EXCEPT ![i] = Append(@, opNow)]
             /\ UNCHANGED promised
     /\ UNCHANGED <<opNow, ownerVars, weightVars, warmVars>>

OpTick ==
  /\ opNow < OpClock
  /\ opNow' = opNow + 1
  /\ UNCHANGED <<requestTimes, passed, promised, ownerVars, weightVars, warmVars>>

-----------------------------------------------------------------------------
(* The registry *)

OwnerOf(m) == IF m \in DOMAIN owners THEN owners[m] ELSE "nobody"
Unowned(m) == [x \in DOMAIN owners \ {m} |-> owners[x]]
IfOwnedBy(e) == OwnerOf(ModelOf[e]) = e

\* deep_reset() of their schedulers: nothing runs, and the generator is closed.
DeepReset(engines) == batching' = [e \in Engines |-> e \notin engines /\ batching[e]]

\* EngineCore.__init__ acquires the model; a live owner is reset if the new engine may
\* take the model from it, and its ownership ends with no word to it.
EngineMade(e) ==
  LET m == ModelOf[e]
      owner == OwnerOf(m)
      taken == owner # "nobody" /\ engineIs[owner] # "collected"
  IN /\ engineIs[e] = "none" /\ (taken => Forced)
     /\ DeepReset({owner})
     /\ owners' = [x \in DOMAIN owners \cup {m} |-> IF x = m THEN e ELSE owners[x]]
     /\ engineIs' = [engineIs EXCEPT ![e] = "live"]
     /\ ownsModel' = [ownsModel EXCEPT ![e] = TRUE]
     /\ UNCHANGED <<rateVars, weightVars, warmVars>>

\* A step of the scheduler with a request makes a BatchGenerator and uses it.
EngineBatches(e) ==
  /\ engineIs[e] = "live" /\ ~batching[e]
  /\ batching' = [batching EXCEPT ![e] = TRUE]
  /\ UNCHANGED <<owners, engineIs, ownsModel, rateVars, weightVars, warmVars>>

\* close releases what it still owns, then resets its scheduler.
EngineCloses(e) ==
  /\ engineIs[e] = "live"
  /\ engineIs' = [engineIs EXCEPT ![e] = "closed"]
  /\ owners' = IF ownsModel[e] /\ IfOwnedBy(e) THEN Unowned(ModelOf[e]) ELSE owners
  /\ ownsModel' = [ownsModel EXCEPT ![e] = FALSE]
  /\ DeepReset({e})
  /\ UNCHANGED <<rateVars, weightVars, warmVars>>

\* The interpreter collects an engine that nobody holds: __del__ releases the model.
EngineCollected(e) ==
  /\ engineIs[e] \in {"live", "closed"} /\ ~batching[e]
  /\ engineIs' = [engineIs EXCEPT ![e] = "collected"]
  /\ owners' = IF ownsModel[e] /\ engineIs[e] = "live" /\ IfOwnedBy(e)
               THEN Unowned(ModelOf[e]) ELSE owners
  /\ ownsModel' = [ownsModel EXCEPT ![e] = FALSE]
  /\ UNCHANGED <<batching, rateVars, weightVars, warmVars>>

-----------------------------------------------------------------------------
(* The weights *)

InitTransfer ==
  /\ ~initialised /\ initialised' = TRUE
  /\ UNCHANGED <<updating, weights, offered, rateVars, ownerVars, warmVars>>

WeightUpdate(on) ==
  /\ updating # on /\ updating' = on
  /\ UNCHANGED <<initialised, weights, offered, rateVars, ownerVars, warmVars>>

\* A payload names weights, says where it is and how its arrays look; each check is
\* made for all names before the model sees any.
Acceptable(load) ==
  /\ initialised /\ updating
  /\ load.sources = 1 /\ load.lengthsMatch
  /\ load.names \subseteq load.arrays /\ load.badShapes \cap load.names = {}

ReceiveWeights(load) ==
  /\ weights' = IF Acceptable(load)
                THEN [n \in WeightNames |->
                        IF n \in load.names THEN load.version ELSE weights[n]]
                ELSE weights
  /\ offered' = [fate |-> IF Acceptable(load) THEN "applied" ELSE "refused",
                 names |-> load.names, version |-> load.version, badShapes |-> load.badShapes,
                 before |-> weights, open |-> updating]
  /\ UNCHANGED <<initialised, updating, rateVars, ownerVars, warmVars>>

Payloads ==
  [names : SUBSET WeightNames \ {{}}, version : WeightVersions, sources : 0..2,
   lengthsMatch : BOOLEAN, arrays : SUBSET WeightNames, badShapes : SUBSET WeightNames]

-----------------------------------------------------------------------------
(* Prefixes that other conversations share *)

\* A chat template renders each message as its role and its content, then asks for
\* the assistant's turn.
Rendered(messages) ==
  FlattenSeq([i \in DOMAIN messages |-> <<messages[i].role>> \o messages[i].content \o <<"/">>])
    \o <<"assistant">>

CommonPrefix(text, other) ==
  Max({n \in 0..Len(text) : n <= Len(other) /\ SubSeq(text, 1, n) = SubSeq(other, 1, n)})

WithUser(messages, content) ==
  IF messages # <<>> /\ Last(messages).role = "user"
  THEN [messages EXCEPT ![Len(messages)].content = content]
  ELSE Append(messages, [role |-> "user", content |-> content])

\* The two probes differ at their first character.
ProbeA == <<"A", "l">>
ProbeB == <<"B", "r">>

\* _build_strict_prefix_string
StrictPrefix(messages) ==
  LET text == Rendered(WithUser(messages, ProbeA))
  IN SubSeq(text, 1, CommonPrefix(text, Rendered(WithUser(messages, ProbeB))))

LastUser(messages) ==
  Max({0} \cup {i \in DOMAIN messages : messages[i].role = "user"})

\* _compute_prefix_boundary: the real text against one with a dummy in its last user
\* message
DummyText == <<"X", "X">>
PrefixBoundary(messages) ==
  IF LastUser(messages) \in {0, 1} THEN 0
  ELSE CommonPrefix(Rendered(messages),
         Rendered([messages EXCEPT ![LastUser(messages)].content = DummyText]))

\* A warm-up prompt has run: its strict prefix is in the cache.
PromptWarmed(task, p) ==
  /\ p \in warmTasks[task]
  /\ warmTasks' = [warmTasks EXCEPT ![task] = @ \ {p}]
  /\ warmed' = warmed \cup {p}
  /\ UNCHANGED <<warmCleared, rateVars, ownerVars, weightVars>>

\* DELETE /v1/cache/prefix: clear, and warm up again in the background.
ClearPrefixCache ==
  /\ warmCleared < WarmClears
  /\ warmCleared' = warmCleared + 1
  /\ warmed' = {} /\ warmTasks' = Append(warmTasks, WarmPrompts)
  /\ UNCHANGED <<rateVars, ownerVars, weightVars>>

RateNext == OpTick \/ \E i \in ApiClients : IsAllowed(i)
OwnersNext ==
  \E e \in Engines :
    EngineMade(e) \/ EngineBatches(e) \/ EngineCloses(e) \/ EngineCollected(e)
WeightsNext ==
  \/ InitTransfer \/ (\E on \in BOOLEAN : WeightUpdate(on))
  \/ \E load \in Payloads : ReceiveWeights(load)
WarmNext ==
  \/ ClearPrefixCache
  \/ \E task \in DOMAIN warmTasks, p \in WarmPrompts : PromptWarmed(task, p)

OpNext == RateNext \/ OwnersNext \/ WeightsNext \/ WarmNext

OpSpec == OpInit /\ [][OpNext]_opVars

OpTypeOK ==
  /\ \A i \in ApiClients : Len(requestTimes[i]) <= PerMinute
  /\ weights \in [WeightNames -> {0} \cup WeightVersions]
  /\ Range(owners) \subseteq Engines /\ warmed \subseteq WarmPrompts

\* In any window of a minute no more requests of a client pass than the limit: of all that
\* passed, one and the first beyond the limit after it are a minute apart.  Who is told to
\* come back then finds room in the window, and is not told to wait a second longer than
\* that takes.
CountedAt(i, time) ==
  Cardinality({k \in DOMAIN promised[i].counted : promised[i].counted[k] > time - 2 * Minute})
RateKept == \A i \in ApiClients :
  /\ \A j, k \in DOMAIN passed[i] :
       k = j + PerMinute => passed[i][k] - passed[i][j] >= 2 * Minute
  /\ promised[i].due > 0 =>
       /\ CountedAt(i, promised[i].due) < PerMinute
       /\ CountedAt(i, promised[i].due - 3) >= PerMinute

\* A model is owned by an engine that lives and knows it owns it; who knows of an
\* ownership that the registry does not has lost it to a forced transfer.
OwnersLive ==
  /\ \A m \in DOMAIN owners : engineIs[owners[m]] = "live" /\ ownsModel[owners[m]]
  /\ \A e \in Engines : ownsModel[e] /\ ~Forced => IfOwnedBy(e)

\* At most one engine's BatchGenerator is active for a model.
OneBatchPerModel == \A e, f \in Engines :
  batching[e] /\ batching[f] /\ ModelOf[e] = ModelOf[f] => e = f

\* A payload changes the model within an update only, with all its weights or none.
WeightsWhole ==
  offered.fate # "none" =>
    \/ weights = offered.before
    \/ /\ offered.open /\ offered.names \cap offered.badShapes = {}
       /\ \A n \in WeightNames :
            weights[n] = IF n \in offered.names THEN offered.version ELSE offered.before[n]

\* What is warmed or kept at the boundary is a prefix of whatever the user writes
\* next, and reaches up to what he writes; when no warm-up runs all prompts are warm.
PrefixesShared == \A p \in warmed, text \in UserTexts :
  /\ IsPrefix(StrictPrefix(p), Rendered(WithUser(p, text)))
  /\ LET talk == WithUser(p, text)
     IN Head(text) # Head(DummyText) => \A other \in UserTexts :
          IsPrefix(SubSeq(Rendered(talk), 1, PrefixBoundary(talk)), Rendered(WithUser(p, other)))
WarmAtRest == (\A t \in DOMAIN warmTasks : warmTasks[t] = {}) => warmed = WarmPrompts

\* The rate limit, the registry of owners, the weights and the warm-up, together.
OperationsSound ==
  RateKept /\ OwnersLive /\ (Forced \/ OneBatchPerModel) /\ WeightsWhole
    /\ PrefixesShared /\ WarmAtRest
================================================================================
