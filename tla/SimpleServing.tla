----------------------------- MODULE SimpleServing -----------------------------
(***************************************************************************)
(* SimpleEngine (vllm_mlx/engine/simple.py): requests that run one at a    *)
(* time under an asyncio lock, by one of three routes:                     *)
(*   "direct"    stream_generate iterates the model on the event loop and  *)
(*               keeps the lock while its consumer handles each output;    *)
(*   "blocking"  a call in a worker thread, all outputs at its end         *)
(*               (chat, images, SpecPrefill);                              *)
(*   "text"      _stream_generate_text: a producer task with the call in a *)
(*               worker thread that hands responses to the consumer's      *)
(*               queue, and the key and value states of a system prompt.   *)
(***************************************************************************)
EXTENDS Integers, Sequences, FiniteSets, Functions, SequencesExt, Selections

CONSTANTS
  SimpleReqs,      \* identifiers of requests
  RouteOf,         \* the route of each
  SystemOf,        \* its system prompt (a positive number), or 0
  SpecOn,          \* those whose worker uses SpecPrefill
  SimpleLen,       \* what the model generates before its end token
  SimpleMax,       \* max_tokens
  SimpleStop,      \* the token that completes a stop sequence, or 0
  SimpleCancels,   \* how often one request may be cancelled
  SimpleFaults     \* what may fail: "prefill", "resumed", "model"

ASSUME SimpleAssumption ==
  /\ RouteOf \in [SimpleReqs -> {"direct", "blocking", "text"}]
  /\ SystemOf \in [SimpleReqs -> Nat]
  /\ SpecOn \subseteq {q \in SimpleReqs : RouteOf[q] # "direct"}
  /\ SimpleLen \in Nat \ {0} /\ SimpleMax \in Nat \ {0}
  /\ SimpleStop \in 0..SimpleLen /\ SimpleCancels \in Nat
  /\ SimpleFaults \subseteq {"prefill", "resumed", "model"}

VARIABLES
  lockQueue,       \* _generation_lock: the holder, then the tasks that wait for it
  pc,              \* the consumer's coroutine
  job,             \* its call of _run_blocking_serialized
  worker,          \* the thread of that call
  abortSet,        \* abort_event or cancel_requested
  cancels,         \* how often it has been cancelled
  produced,        \* tokens the worker has generated in this attempt
  responses,       \* response_queue
  spoken,          \* what the consumer has yielded
  kvOf,            \* backbone_cache: the system prompt it holds, or 0
  sends,           \* prompt_to_send: "full" or "suffix"
  systemKv         \* _system_kv_snapshot, _system_kv_hash, _system_kv_token_count

simpleVars == <<lockQueue, pc, job, worker, abortSet, cancels, produced, responses, spoken,
                kvOf, sends, systemKv>>

SimpleInit ==
  /\ lockQueue = <<>>
  /\ pc = [q \in SimpleReqs |-> "new"] /\ job = [q \in SimpleReqs |-> "none"]
  /\ worker = [q \in SimpleReqs |-> "none"] /\ abortSet = [q \in SimpleReqs |-> FALSE]
  /\ cancels = [q \in SimpleReqs |-> 0] /\ produced = [q \in SimpleReqs |-> 0]
  /\ responses = [q \in SimpleReqs |-> <<>>] /\ spoken = [q \in SimpleReqs |-> <<>>]
  /\ kvOf = [q \in SimpleReqs |-> 0] /\ sends = [q \in SimpleReqs |-> "full"]
  /\ systemKv = [snapshot |-> 0, hash |-> 0, count |-> 0]

Without(q) == Selected(lockQueue, SimpleReqs \ {q})
Holds(q) == lockQueue # <<>> /\ Head(lockQueue) = q
Set(f, q, value) == [f EXCEPT ![q] = value]
Enough == IF SimpleLen < SimpleMax THEN SimpleLen ELSE SimpleMax

\* What ends the response queue, beside the tokens 1, 2, ...
Done == 0
Raised == -1

\* A text request looks for the states of its system prompt, which it restores in
\* a worker if it finds them.  Prompts of different text have different lengths.
SystemHit(q) ==
  /\ SystemOf[q] > 0
  /\ systemKv.hash = SystemOf[q] /\ systemKv.snapshot # 0 /\ systemKv.count = SystemOf[q]

FirstWait(q) ==
  IF RouteOf[q] # "text" THEN RouteOf[q] ELSE IF SystemHit(q) THEN "restoring" ELSE "reading"

SimpleArrives(q) ==
  /\ pc[q] = "new"
  /\ lockQueue' = Append(lockQueue, q)
  /\ pc' = Set(pc, q, FirstWait(q))
  /\ kvOf' = IF RouteOf[q] = "text" /\ SystemHit(q)
             THEN Set(kvOf, q, systemKv.snapshot) ELSE kvOf
  /\ job' = IF RouteOf[q] = "direct" THEN job ELSE Set(job, q, "queued")
  /\ UNCHANGED <<worker, abortSet, cancels, produced, responses, spoken, sends, systemKv>>

\* The task that has the lock starts its thread.
WorkerStarts(q) ==
  /\ job[q] = "queued" /\ Holds(q)
  /\ job' = Set(job, q, "running")
  /\ worker' = Set(worker, q, "begin")
  /\ UNCHANGED <<lockQueue, pc, abortSet, cancels, produced, responses, spoken, kvOf, sends,
                 systemKv>>

\* The thread of the route "text": a missed system prompt is prefilled and its
\* states are kept, in three assignments.
WorkerBegins(q) ==
  /\ worker[q] = "begin"
  /\ worker' = Set(worker, q,
       IF pc[q] = "restoring" THEN "over"
       ELSE IF RouteOf[q] = "text" /\ SystemOf[q] > 0 /\ kvOf[q] = 0 THEN "snapshot"
       ELSE IF q \in SpecOn THEN "spec" ELSE "decode")
  /\ sends' = IF RouteOf[q] = "text" /\ SystemOf[q] > 0 /\ kvOf[q] # 0
              THEN Set(sends, q, "suffix") ELSE sends
  /\ UNCHANGED <<lockQueue, pc, job, abortSet, cancels, produced, responses, spoken, kvOf,
                 systemKv>>

AfterSystem(q) == IF q \in SpecOn THEN "spec" ELSE "decode"

WorkerKeeps(q) ==
  /\ worker[q] \in {"snapshot", "hash", "count"}
  /\ systemKv' = [systemKv EXCEPT ![worker[q]] = SystemOf[q]]
  /\ worker' = Set(worker, q, CASE worker[q] = "snapshot" -> "hash"
                                [] worker[q] = "hash" -> "count"
                                [] OTHER -> AfterSystem(q))
  /\ kvOf' = IF worker[q] = "count" THEN Set(kvOf, q, SystemOf[q]) ELSE kvOf
  /\ sends' = IF worker[q] = "count" THEN Set(sends, q, "suffix") ELSE sends
  /\ UNCHANGED <<lockQueue, pc, job, abortSet, cancels, produced, responses, spoken>>

\* _emit_response, from the route "text": nothing once the request is aborted.
Emitted(q, token) ==
  IF RouteOf[q] = "text" /\ ~abortSet[q] THEN Set(responses, q, Append(responses[q], token))
                                         ELSE responses

\* Sparse prefill with the draft model's scores, and its first token.
SpecPrefills(q) ==
  /\ worker[q] = "spec" /\ RouteOf[q] = "text"
  /\ produced' = Set(produced, q, 1)
  /\ responses' = Emitted(q, 1)
  /\ worker' = Set(worker, q, IF abortSet[q] \/ Enough <= 1 THEN "over" ELSE "resumed")
  /\ UNCHANGED <<lockQueue, pc, job, abortSet, cancels, spoken, kvOf, sends, systemKv>>

\* The same off the route "text", whose results stay in the thread: a request to
\* cancel, looked for between the phases and before each token, raises.
SpecRuns(q) ==
  /\ worker[q] = "spec" /\ RouteOf[q] # "text"
  /\ produced' = IF abortSet[q] THEN produced ELSE Set(produced, q, 1)
  /\ worker' = Set(worker, q, CASE abortSet[q] -> "raised"
                                [] ~abortSet[q] /\ Enough <= 1 -> "over"
                                [] OTHER -> "resumed")
  /\ UNCHANGED <<lockQueue, pc, job, abortSet, cancels, responses, spoken, kvOf, sends, systemKv>>

\* Mutant: the whole prompt is sent again on the cache as it is.
FallenBack_CacheKept(q) == sends' = Set(sends, q, "full") /\ UNCHANGED kvOf

\* The fallback: the cache may be half written, so the whole prompt is sent anew.
FallenBack(q) ==
  /\ kvOf' = Set(kvOf, q, 0)
  /\ sends' = Set(sends, q, "full")

SpecFails(q) ==
  /\ \/ worker[q] = "spec" /\ "prefill" \in SimpleFaults
     \/ worker[q] = "resumed" /\ "resumed" \in SimpleFaults
  /\ worker' = Set(worker, q, "decode")
  /\ produced' = Set(produced, q, 0)
  /\ FallenBack(q)
  /\ UNCHANGED <<lockQueue, pc, job, abortSet, cancels, responses, spoken, systemKv>>

\* One more response of mlx_stream_generate; a set abort ends the loop, after a
\* response that is not passed on.
WorkerDecodes(q) ==
  /\ worker[q] \in {"decode", "resumed"}
  /\ IF abortSet[q]
     THEN /\ worker' = Set(worker, q, IF RouteOf[q] = "text" THEN "over" ELSE "raised")
          /\ UNCHANGED <<produced, responses>>
     ELSE /\ produced' = Set(produced, q, produced[q] + 1)
          /\ responses' = Emitted(q, produced[q] + 1)
          /\ worker' = IF produced[q] + 1 >= Enough THEN Set(worker, q, "over") ELSE worker
  /\ UNCHANGED <<lockQueue, pc, job, abortSet, cancels, spoken, kvOf, sends, systemKv>>

WorkerRaises(q) ==
  /\ worker[q] = "decode" /\ "model" \in SimpleFaults
  /\ worker' = Set(worker, q, "raised")
  /\ UNCHANGED <<lockQueue, pc, job, abortSet, cancels, produced, responses, spoken, kvOf,
                 sends, systemKv>>

\* Where the end of its thread finds the consumer, and where that leaves it.
EndedAs(q) ==
  IF job[q] = "draining" THEN "cancelled"
  ELSE CASE pc[q] = "restoring" -> "reading"
         [] pc[q] = "blocking" -> IF worker[q] = "over" THEN "ended" ELSE "raised"
         [] pc[q] = "closing" -> IF cancels[q] = 0 THEN "ended" ELSE "cancelled"
         [] OTHER -> pc[q]

\* The task wakes up at the end of its thread and lets go of the lock.  A restored
\* cache is followed by the producer; a cancelled call ends with its cancellation.
JobEnds(q) ==
  LET restored == pc[q] = "restoring" /\ job[q] = "running"
      spoke == pc[q] = "blocking" /\ job[q] = "running" /\ worker[q] = "over"
  IN
  /\ job[q] \in {"running", "draining"} /\ worker[q] \in {"over", "raised"}
  /\ lockQueue' = IF restored THEN Append(Without(q), q) ELSE Without(q)
  /\ job' = Set(job, q, IF restored THEN "queued" ELSE "none")
  /\ worker' = Set(worker, q, "none")
  /\ pc' = Set(pc, q, EndedAs(q))
  /\ spoken' = IF spoke THEN Set(spoken, q, [i \in 1..produced[q] |-> i]) ELSE spoken
  /\ responses' = IF RouteOf[q] = "text" /\ ~restored /\ job[q] = "running"
                  THEN Set(responses, q, Append(responses[q],
                             IF worker[q] = "over" THEN Done ELSE Raised))
                  ELSE responses
  /\ UNCHANGED <<abortSet, cancels, produced, kvOf, sends, systemKv>>

\* _stream_generate_text takes a response and yields it.  At the last one it aborts
\* a producer that is still at work, and waits for it.
ConsumerReads(q) ==
  LET r == Head(responses[q])
      said == Append(spoken[q], r)
      ends == r \in {Done, Raised} \/ Len(said) \in {SimpleMax, SimpleStop}
  IN
  /\ pc[q] = "reading" /\ responses[q] # <<>>
  /\ responses' = Set(responses, q, Tail(responses[q]))
  /\ spoken' = IF r \in {Done, Raised} THEN spoken ELSE Set(spoken, q, said)
  /\ abortSet' = IF ends /\ job[q] # "none" THEN Set(abortSet, q, TRUE) ELSE abortSet
  /\ pc' = IF ~ends THEN pc
           ELSE Set(pc, q, IF r = Raised THEN "raised"
                           ELSE IF job[q] # "none" THEN "closing" ELSE "ended")
  /\ UNCHANGED <<lockQueue, job, worker, cancels, produced, kvOf, sends, systemKv>>

\* stream_generate on the event loop: one output, and the lock is kept.
DirectSteps(q) ==
  /\ pc[q] = "direct" /\ Holds(q)
  /\ produced' = Set(produced, q, produced[q] + 1)
  /\ spoken' = Set(spoken, q, Append(spoken[q], produced[q] + 1))
  /\ IF produced[q] + 1 >= Enough
     THEN pc' = Set(pc, q, "ended") /\ lockQueue' = Tail(lockQueue)
     ELSE UNCHANGED <<pc, lockQueue>>
  /\ UNCHANGED <<job, worker, abortSet, cancels, responses, kvOf, sends, systemKv>>

\* CancelledError in _run_blocking_serialized: a task in the lock's queue leaves
\* it; one whose thread runs sets the event and waits for the thread; one that
\* already waits for it is released at once.
JobCancelled(q, aborts) ==
  /\ job' = Set(job, q, CASE job[q] = "running" -> "draining"
                          [] OTHER -> "none")
  /\ lockQueue' = IF job[q] = "running" THEN lockQueue ELSE Without(q)
  /\ pc' = IF job[q] = "running" THEN pc ELSE Set(pc, q, "cancelled")
  /\ abortSet' = IF job[q] = "running" /\ aborts THEN Set(abortSet, q, TRUE) ELSE abortSet

SimpleCancelled(q) ==
  /\ cancels[q] < SimpleCancels
  /\ cancels' = Set(cancels, q, cancels[q] + 1)
  /\ CASE pc[q] = "direct" ->
            /\ lockQueue' = Without(q) /\ pc' = Set(pc, q, "cancelled")
            /\ UNCHANGED <<job, abortSet>>
       [] pc[q] \in {"blocking", "restoring"} ->
            JobCancelled(q, pc[q] = "blocking" /\ q \in SpecOn)
       [] pc[q] = "closing" -> JobCancelled(q, TRUE)
       [] pc[q] = "reading" ->
            /\ abortSet' = IF job[q] = "none" THEN abortSet ELSE Set(abortSet, q, TRUE)
            /\ pc' = Set(pc, q, IF job[q] = "none" THEN "cancelled" ELSE "closing")
            /\ UNCHANGED <<job, lockQueue>>
       [] OTHER -> FALSE
  /\ UNCHANGED <<worker, produced, responses, spoken, kvOf, sends, systemKv>>

SimpleStep(q) ==
  \/ SimpleArrives(q) \/ WorkerStarts(q) \/ WorkerBegins(q) \/ WorkerKeeps(q)
  \/ SpecPrefills(q) \/ SpecRuns(q) \/ SpecFails(q) \/ WorkerDecodes(q)
  \/ WorkerRaises(q) \/ JobEnds(q) \/ ConsumerReads(q) \/ DirectSteps(q) \/ SimpleCancelled(q)

SimpleNext == \E q \in SimpleReqs : SimpleStep(q)

SimpleSpec == SimpleInit /\ [][SimpleNext]_simpleVars

SimpleTypeOK ==
  /\ Range(lockQueue) \subseteq SimpleReqs /\ IsInjective(lockQueue)
  /\ pc \in [SimpleReqs -> {"new", "direct", "blocking", "restoring", "reading", "closing",
                            "ended", "raised", "cancelled"}]
  /\ job \in [SimpleReqs -> {"none", "queued", "running", "draining"}]
  /\ worker \in [SimpleReqs -> {"none", "begin", "snapshot", "hash", "count", "spec",
                                "resumed", "decode", "over", "raised"}]

Generating(q) ==
  \/ worker[q] \notin {"none", "over", "raised"}
  \/ pc[q] = "direct" /\ Holds(q)
Left(q) == pc[q] \in {"ended", "raised", "cancelled"}

\* One request at a time has the model, in a thread or on the event loop, also
\* while requests are cancelled.
WorkersSerialized == \A q, r \in SimpleReqs : Generating(q) /\ Generating(r) => q = r

\* A consumer that has ended leaves no thread, no place in the lock's queue and no
\* producer behind.
LeftIsIdle ==
  \A q \in SimpleReqs : Left(q) => job[q] = "none" /\ ~Generating(q) /\ q \notin Range(lockQueue)

\* What a consumer yields is what the model generated, once and in order, and all
\* of it when it ends by itself.
SpokenWhole ==
  \A q \in SimpleReqs :
    /\ spoken[q] = [i \in DOMAIN spoken[q] |-> i]
    /\ pc[q] = "ended" => 
         Len(spoken[q]) = IF RouteOf[q] = "text" /\ SimpleStop \in 1..Enough THEN SimpleStop ELSE Enough

\* The model is fed the prompt's suffix only on top of the states of the request's
\* own system prompt, and the whole prompt only on an empty cache.
PromptWhole ==
  \A q \in SimpleReqs :
    RouteOf[q] = "text" /\ worker[q] \in {"spec", "resumed", "decode"} =>
      IF sends[q] = "full" THEN kvOf[q] = 0 ELSE kvOf[q] = SystemOf[q]

\* What may go on without anybody else: a request that has not begun, one whose thread
\* runs, one that has the lock, and a consumer with a response to read.
GoesOn(q) ==
  \/ pc[q] = "new" \/ worker[q] # "none"
  \/ Holds(q) /\ (job[q] = "queued" \/ pc[q] = "direct")
  \/ pc[q] = "reading" /\ responses[q] # <<>>

\* A request that cannot go on has come to its end, or waits for the lock behind one
\* that can.
NoneStuck ==
  \A q \in SimpleReqs :
    Left(q) \/ GoesOn(q) \/ (q \in Range(lockQueue) /\ GoesOn(Head(lockQueue)))

\* SimpleEngine: one worker runs the model at a time, who has left holds nothing, what was
\* said is what was generated, a reused system prompt is the right one, nobody hangs.
SimpleServed == WorkersSerialized /\ LeftIsIdle /\ SpokenWhole /\ PromptWhole /\ NoneStuck
================================================================================
