---------------------------- MODULE EngineScheduler ----------------------------
(***************************************************************************)
(* Continuous batching: the Scheduler (vllm_mlx/scheduler.py) driven by    *)
(* the EngineCore loop (vllm_mlx/engine_core.py) for a set of clients.     *)
(*                                                                         *)
(* Two threads share the scheduler without a lock.  The event-loop thread  *)
(* runs the coroutines: clients that submit, consume and abandon requests, *)
(* the trainer that pauses and resumes, and the engine loop that submits a *)
(* step and hands out its outputs.  The worker thread runs                 *)
(* Scheduler.step.  A step is cut where the other thread can act; after a  *)
(* stream-ownership error the engine runs step on the event loop itself    *)
(* (useWorker = FALSE) and the two threads are one.                        *)
(*                                                                         *)
(* mlx-lm's BatchGenerator is outside the repository: it is the set of     *)
(* sequences it decodes, the sampler it was built with and its next uid.   *)
(***************************************************************************)
EXTENDS Integers, Sequences, FiniteSets, SequencesExt

CONSTANTS
  Requests,      \* request ids; an id is submitted at most once (uuid4)
  SamplerParams, \* the (temperature, top_p, min_p) triples in use
  ParamsOf,      \* the triple each request asks for
  Streamers,     \* the requests served by stream_outputs; the others by generate
  MaxNumSeqs,    \* SchedulerConfig.max_num_seqs
  MaxTokens,     \* SamplingParams.max_tokens, the same for every request
  MaxPrefill,    \* bound: calls of next() a prompt may take before a token
  MaxRetries,    \* the max_retries argument of step
  PauseModes,    \* the pause calls made: "wait", "keep", "abort", "update"
  MaxPauses,     \* bound: how many of them
  Faults,        \* the errors that strike: see FaultKinds
  MaxFaults      \* bound: how many of them

FaultKinds == {"insert", "corrupt", "type", "stream", "fatal", "cleanup"}

ASSUME ConstantsAssumption ==
  /\ ParamsOf \in [Requests -> SamplerParams]
  /\ Streamers \subseteq Requests
  /\ IsFiniteSet(Requests)
  /\ MaxNumSeqs \in Nat \ {0}
  /\ MaxTokens \in Nat \ {0}
  /\ MaxPrefill \in Nat
  /\ MaxRetries \in Nat
  /\ PauseModes \subseteq {"wait", "keep", "abort", "update"}
  /\ MaxPauses \in Nat
  /\ Faults \subseteq FaultKinds
  /\ MaxFaults \in Nat

VARIABLES
  \* Scheduler
  waiting,    \* the deque of request ids, oldest at the left
  running,    \* keys of the running dict (its order is the order of uids)
  status,     \* Request.status
  arrival,    \* Request.arrival_time, as the rank of the submission
  nout,       \* Request.num_output_tokens
  uidOf,      \* request_id_to_uid
  reqOf,      \* uid_to_request_id
  pending,    \* _pending_abort_ids
  paused,     \* _paused
  \* BatchGenerator
  bgOpen,     \* batch_generator is not None
  bgParams,   \* _current_sampler_params: what it was built with, or NoParams
  bgNext,     \* the uid its next insert returns
  seqs,       \* tokens made so far for each live uid (< 0: prefilling)
  \* one step, and the engine loop around it
  pc,         \* where the loop or the step is
  attempt,    \* retry counter of step
  resp,       \* responses of next(): uid -> finish reason or NotFin
  fin,        \* finished_ids
  out,        \* SchedulerOutput.outputs, per request
  useWorker,  \* use_worker_thread
  \* EngineCore request tracking and the clients
  tracked,    \* keys of requests, _output_collectors and _finished_events
  inbox,      \* the aggregated output in the request's collector
  client,     \* what the coroutine serving the request is doing
  got,        \* tokens it has been given
  final,      \* the finish reason it has been given
  \* weight transfer
  busy,       \* what holds the event-loop thread inside pause/update_weights
  updating,   \* _weight_update_in_progress
  faults, pauses \* how many errors and pauses have been used up

schedVars  == <<waiting, running, status, arrival, nout, uidOf, reqOf>>
bgVars     == <<bgOpen, bgParams, bgNext, seqs>>
stepVars   == <<pc, attempt, resp, fin, out>>
clientVars == <<tracked, inbox, client, got, final>>
pauseVars  == <<paused, busy, updating, pauses>>
vars == <<schedVars, pending, bgVars, stepVars, useWorker, clientVars,
          pauseVars, faults>>

NotFin == "none"
FinishReasons == {"stop", "length", "error"}
Output == [tok: Nat, fin: FinishReasons \cup {NotFin}]
NoOutput == [tok |-> 0, fin |-> NotFin]
NoOutputs == [r \in Requests |-> NoOutput]
Empty == [x \in {} |-> 0]           \* the empty dict
NoParams == "None"

Statuses == {"new", "waiting", "running", "stopped", "length_capped", "aborted"}
Watching == {"stream", "generate"}  \* a consumer awaits its next output
Clients  == {"idle", "ending", "leaving", "done", "gone"} \cup Watching
StepPcs  == {"begin", "aborts", "sched", "next", "decode", "process",
             "cleanup", "recover"}

Queued == ToSet(waiting)
Drop(f, S) == [x \in DOMAIN f \ S |-> f[x]]

TypeOK ==
  /\ waiting \in Seq(Requests)
  /\ running \subseteq Requests
  /\ status \in [Requests -> Statuses]
  /\ arrival \in [Requests -> Nat]
  /\ nout \in [Requests -> Nat]
  /\ DOMAIN uidOf \subseteq Requests /\ \A r \in DOMAIN uidOf : uidOf[r] \in Nat
  /\ DOMAIN reqOf \subseteq Nat /\ \A u \in DOMAIN reqOf : reqOf[u] \in Requests
  /\ pending \subseteq Requests
  /\ paused \in BOOLEAN
  /\ bgOpen \in BOOLEAN
  /\ bgParams \in SamplerParams \cup {NoParams}
  /\ bgNext \in Nat
  /\ DOMAIN seqs \subseteq Nat /\ \A u \in DOMAIN seqs : seqs[u] \in Int
  /\ pc \in {"idle", "deliver"} \cup StepPcs
  /\ attempt \in Nat
  /\ DOMAIN resp \subseteq Nat
  /\ \A u \in DOMAIN resp : resp[u] \in {"stop", "length", NotFin}
  /\ fin \subseteq Requests
  /\ out \in [Requests -> Output]
  /\ useWorker \in BOOLEAN
  /\ tracked \subseteq Requests
  /\ inbox \in [Requests -> Output]
  /\ client \in [Requests -> Clients]
  /\ got \in [Requests -> Nat]
  /\ final \in [Requests -> FinishReasons \cup {NotFin}]
  /\ busy \in {"no", "drain", "load"}
  /\ updating \in BOOLEAN
  /\ faults \in Nat /\ pauses \in Nat

Init ==
  /\ waiting = <<>> /\ running = {} /\ pending = {}
  /\ status = [r \in Requests |-> "new"]
  /\ arrival = [r \in Requests |-> 0]
  /\ nout = [r \in Requests |-> 0]
  /\ uidOf = Empty /\ reqOf = Empty
  /\ bgOpen = FALSE /\ bgParams = NoParams /\ bgNext = 0 /\ seqs = Empty
  /\ pc = "idle" /\ attempt = 0 /\ resp = Empty /\ fin = {} /\ out = NoOutputs
  /\ useWorker = TRUE
  /\ tracked = {} /\ inbox = NoOutputs
  /\ client = [r \in Requests |-> "idle"]
  /\ got = [r \in Requests |-> 0]
  /\ final = [r \in Requests |-> NotFin]
  /\ paused = FALSE /\ busy = "no" /\ updating = FALSE
  /\ faults = 0 /\ pauses = 0

--------------------------------------------------------------------------------
(* The two threads.                                                          *)

\* Nothing holds the event-loop thread: no coroutine is between two statements
\* that no await separates, inside a blocking call, or running the step itself.
LoopFree ==
  /\ busy = "no"
  /\ \A r \in Requests : client[r] # "leaving"
  /\ useWorker \/ pc \notin StepPcs

\* The step can move: it has a thread of its own, or the event loop's.
StepThread(at) ==
  /\ pc = at
  /\ useWorker \/ (busy = "no" /\ \A r \in Requests : client[r] # "leaving")

Strike(kind) ==
  /\ kind \in Faults
  /\ faults < MaxFaults
  /\ faults' = faults + 1

--------------------------------------------------------------------------------
(* Recovery procedures of the Scheduler, shared by the step and the loop.    *)

\* Mutant: the batch is not closed, it keeps decoding what was aborted.
DiscardBatch_KeepsBatch ==
  /\ uidOf' = Empty /\ reqOf' = Empty /\ bgParams' = NoParams
  /\ UNCHANGED <<bgOpen, bgNext, seqs>>

\* _close_batch_generator followed by _current_sampler_params = None, and both
\* uid maps cleared: what the two recovery procedures have in common.
DiscardBatch ==
  /\ bgOpen' = FALSE /\ bgParams' = NoParams /\ seqs' = Empty
  /\ uidOf' = Empty /\ reqOf' = Empty
  /\ UNCHANGED bgNext

\* The running dict iterated oldest first, each request pushed at the left of
\* the deque: the block that ends up in front is newest first.
NewestFirst(s) ==
  /\ ToSet(s) = running
  /\ \A i, j \in DOMAIN s : i < j => uidOf[s[i]] > uidOf[s[j]]

\* Mutant: the requests are put back in the queue and stay in running.
RestartRunning_KeepsRunning ==
  /\ DiscardBatch
  /\ \E s \in [1..Cardinality(running) -> running] :
       NewestFirst(s) /\ waiting' = s \o waiting
  /\ UNCHANGED <<running, status, arrival, nout>>

\* Mutant: the batch is discarded and the requests in it are forgotten.
RestartRunning_Forgets ==
  /\ DiscardBatch
  /\ running' = {}
  /\ UNCHANGED <<waiting, status, arrival, nout>>

\* _recover_from_cache_error, then _reschedule_running_requests.  Neither
\* output_token_ids nor the detokenizer of a rescheduled request is reset.
RestartRunning ==
  /\ DiscardBatch
  /\ \E s \in [1..Cardinality(running) -> running] :
       NewestFirst(s) /\ waiting' = s \o waiting
  /\ running' = {}
  /\ status' = [r \in Requests |-> IF r \in running THEN "waiting" ELSE status[r]]
  /\ UNCHANGED <<arrival, nout>>

\* Mutant: the requests are aborted and nobody is told.
AbortRunning_NoOutputs(victims) ==
  /\ DiscardBatch
  /\ running' = {}
  /\ status' = [r \in Requests |-> IF r \in victims THEN "aborted" ELSE status[r]]
  /\ UNCHANGED <<arrival, nout, out>>

\* _recover_from_generation_error: every request of `victims` is aborted, and
\* step reports an error output for it after the outputs it already has.
AbortRunning(victims) ==
  /\ DiscardBatch
  /\ running' = {}
  /\ status' = [r \in Requests |-> IF r \in victims THEN "aborted" ELSE status[r]]
  /\ out' = [r \in Requests |->
               IF r \in victims THEN [tok |-> out[r].tok, fin |-> "error"] ELSE out[r]]
  /\ UNCHANGED <<arrival, nout>>

--------------------------------------------------------------------------------
(* The engine loop and the step.                                             *)

\* No work: the loop sleeps for step_interval.
IdleTick ==
  /\ pc = "idle" /\ LoopFree
  /\ waiting = <<>> /\ running = {}
  /\ UNCHANGED vars

\* has_requests(): the step is submitted to its thread.
SubmitStep ==
  /\ pc = "idle" /\ LoopFree
  /\ waiting # <<>> \/ running # {}
  /\ pc' = "begin"
  /\ UNCHANGED <<schedVars, pending, bgVars, attempt, resp, fin, out, useWorker,
                 clientVars, pauseVars, faults>>

\* step reads _paused once; a paused step returns an empty output.
BeginStep ==
  /\ StepThread("begin")
  /\ pc' = IF paused THEN "idle" ELSE "aborts"
  /\ attempt' = 0
  /\ UNCHANGED <<schedVars, pending, bgVars, resp, fin, out, useWorker,
                 clientVars, pauseVars, faults>>

\* _do_abort_request for one id of _pending_abort_ids.  The deque is searched
\* only while the request is still tracked and its status is WAITING.
ProcessAbort(r) ==
  /\ StepThread("aborts") /\ r \in pending
  /\ r \in DOMAIN uidOf => uidOf[r] \in DOMAIN reqOf
  /\ pending' = pending \ {r}
  /\ IF r \in tracked /\ status[r] = "waiting" /\ r \in Queued
     THEN \E i \in DOMAIN waiting :
            waiting[i] = r /\ waiting' = RemoveAt(waiting, i)
     ELSE UNCHANGED waiting
  /\ IF r \in DOMAIN uidOf
     THEN /\ uidOf' = Drop(uidOf, {r})
          /\ reqOf' = Drop(reqOf, {uidOf[r]})
          /\ seqs' = IF bgOpen THEN Drop(seqs, {uidOf[r]}) ELSE seqs
     ELSE UNCHANGED <<uidOf, reqOf, seqs>>
  /\ running' = running \ {r}
  /\ status' = IF r \in tracked THEN [status EXCEPT ![r] = "aborted"] ELSE status
  /\ UNCHANGED <<arrival, nout, bgOpen, bgParams, bgNext, stepVars, useWorker,
                 clientVars, pauseVars, faults>>

\* The same when the uid of r has no entry left in uid_to_request_id: `del`
\* raises KeyError outside the try of step, and the loop logs it.
ProcessAbortKeyError(r) ==
  /\ StepThread("aborts") /\ r \in pending
  /\ r \in DOMAIN uidOf /\ uidOf[r] \notin DOMAIN reqOf
  /\ pending' = pending \ {r}
  /\ seqs' = IF bgOpen THEN Drop(seqs, {uidOf[r]}) ELSE seqs
  /\ pc' = "idle"
  /\ UNCHANGED <<schedVars, bgOpen, bgParams, bgNext, attempt, resp, fin, out,
                 useWorker, clientVars, pauseVars, faults>>

AbortsDone ==
  /\ StepThread("aborts") /\ pending = {}
  /\ pc' = "sched"
  /\ UNCHANGED <<schedVars, pending, bgVars, attempt, resp, fin, out, useWorker,
                 clientVars, pauseVars, faults>>

\* Mutant: one sequence more than max_num_seqs.
HasRoom_OffByOne == waiting # <<>> /\ Cardinality(running) <= MaxNumSeqs

HasRoom == waiting # <<>> /\ Cardinality(running) < MaxNumSeqs

\* _ensure_batch_generator builds a new generator when there is none, or when
\* the sampler differs and nothing is running; with requests running it only
\* warns.
NeedsNewBatch(r) == ~bgOpen \/ (bgParams # ParamsOf[r] /\ running = {})

\* One turn of the loop of _schedule_waiting.
ScheduleOne ==
  /\ StepThread("sched") /\ HasRoom
  /\ LET r     == Head(waiting)
         fresh == NeedsNewBatch(r)
         old   == IF fresh THEN Empty ELSE seqs
         uid   == IF fresh THEN 0 ELSE bgNext
     IN /\ waiting' = Tail(waiting)
        /\ bgOpen' = TRUE
        /\ bgParams' = IF fresh THEN ParamsOf[r] ELSE bgParams
        /\ bgNext' = uid + 1
        /\ \E k \in 0..MaxPrefill :
             seqs' = [u \in DOMAIN old \cup {uid} |-> IF u = uid THEN -k ELSE old[u]]
        /\ uidOf' = [x \in DOMAIN uidOf \cup {r} |-> IF x = r THEN uid ELSE uidOf[x]]
        /\ reqOf' = [u \in DOMAIN reqOf \cup {uid} |-> IF u = uid THEN r ELSE reqOf[u]]
        /\ running' = running \cup {r}
        /\ status' = [status EXCEPT ![r] = "running"]
  /\ UNCHANGED <<arrival, nout, pending, stepVars, useWorker, clientVars,
                 pauseVars, faults>>

\* Building the generator, or inserting the prompt without a cache, raises: the
\* request was popped and is in neither queue; step's handler aborts the others.
ScheduleFails ==
  /\ StepThread("sched") /\ HasRoom
  /\ Strike("insert")
  /\ waiting' = Tail(waiting)
  /\ AbortRunning(running)
  /\ pc' = "deliver"
  /\ UNCHANGED <<pending, attempt, resp, fin, useWorker, clientVars, pauseVars>>

\* The same with a TypeError or a stream error, which step raises: the loop logs
\* it and the others go on.
ScheduleRaises ==
  /\ StepThread("sched") /\ HasRoom
  /\ Strike("insert")
  /\ waiting' = Tail(waiting)
  /\ pc' = "idle"
  /\ UNCHANGED <<running, status, arrival, nout, uidOf, reqOf, pending, bgVars,
                 attempt, resp, fin, out, useWorker, clientVars, pauseVars>>

ScheduleDone ==
  /\ StepThread("sched") /\ ~HasRoom
  /\ pc' = "next"
  /\ UNCHANGED <<schedVars, pending, bgVars, attempt, resp, fin, out, useWorker,
                 clientVars, pauseVars, faults>>

NothingToDecode ==
  /\ StepThread("next") /\ ~(bgOpen /\ running # {})
  /\ pc' = "deliver"
  /\ UNCHANGED <<schedVars, pending, bgVars, attempt, resp, fin, out, useWorker,
                 clientVars, pauseVars, faults>>

\* The forward pass of batch_generator.next() begins ...
StartDecode ==
  /\ StepThread("next") /\ bgOpen /\ running # {}
  /\ pc' = "decode"
  /\ UNCHANGED <<schedVars, pending, bgVars, attempt, resp, fin, out, useWorker,
                 clientVars, pauseVars, faults>>

\* ... and ends: every prefilled sequence has one more token; those that hit a
\* stop token or max_tokens leave the batch.
DecodeOk ==
  /\ StepThread("decode")
  /\ LET emits == {u \in DOMAIN seqs : seqs[u] >= 0}
     IN \E stops \in SUBSET emits :
          LET full == {u \in emits \ stops : seqs[u] + 1 >= MaxTokens}
          IN /\ resp' = [u \in emits |-> IF u \in stops THEN "stop"
                                         ELSE IF u \in full THEN "length"
                                         ELSE NotFin]
             /\ seqs' = [u \in DOMAIN seqs \ (stops \cup full) |-> seqs[u] + 1]
  /\ pc' = "process"
  /\ UNCHANGED <<schedVars, pending, bgOpen, bgParams, bgNext, attempt, fin, out,
                 useWorker, clientVars, pauseVars, faults>>

\* next() raises a TypeError that names the cache, with retries left.
DecodeCorruptRetry ==
  /\ StepThread("decode") /\ attempt < MaxRetries
  /\ Strike("corrupt")
  /\ RestartRunning
  /\ attempt' = attempt + 1
  /\ pc' = "sched"
  /\ UNCHANGED <<pending, resp, fin, out, useWorker, clientVars, pauseVars>>

\* The same with none left, or another TypeError: step raises, the loop logs and
\* tries again later.
DecodeRaises ==
  /\ StepThread("decode")
  /\ (attempt >= MaxRetries /\ Strike("corrupt")) \/ Strike("type")
  /\ pc' = "idle"
  /\ UNCHANGED <<schedVars, pending, bgVars, attempt, resp, fin, out, useWorker,
                 clientVars, pauseVars>>

\* next() raises "no Stream(...)": step re-raises.  The first time the loop goes
\* on to recover on the worker; once it steps on the event loop it only logs.
DecodeStreamError ==
  /\ StepThread("decode")
  /\ Strike("stream")
  /\ pc' = IF useWorker THEN "recover" ELSE "idle"
  /\ UNCHANGED <<schedVars, pending, bgVars, attempt, resp, fin, out, useWorker,
                 clientVars, pauseVars>>

RecoverStream ==
  /\ StepThread("recover")
  /\ RestartRunning
  /\ useWorker' = FALSE
  /\ pc' = "idle"
  /\ UNCHANGED <<pending, attempt, resp, fin, out, clientVars, pauseVars, faults>>

\* next() raises anything else (out of memory, Metal).
DecodeFatal ==
  /\ StepThread("decode")
  /\ Strike("fatal")
  /\ AbortRunning(running)
  /\ pc' = "deliver"
  /\ UNCHANGED <<waiting, pending, attempt, resp, fin, useWorker, clientVars,
                 pauseVars>>

\* Mutant: the finish reason is stored as if it were a RequestStatus.
FinishedStatus_Reason(reason) == reason

\* The RequestStatus that stands for a finish reason.
FinishedStatus(reason) == IF reason = "stop" THEN "stopped" ELSE "length_capped"

\* _process_batch_responses: a response counts when its uid maps to a request
\* that is still running.
ProcessResponses ==
  /\ StepThread("process")
  /\ LET hits   == {u \in DOMAIN resp : u \in DOMAIN reqOf /\ reqOf[u] \in running}
         served == {reqOf[u] : u \in hits}
         reason(r) == resp[CHOOSE u \in hits : reqOf[u] = r]
         ended  == {r \in served : reason(r) # NotFin}
     IN /\ nout' = [r \in Requests |-> IF r \in served THEN nout[r] + 1 ELSE nout[r]]
        /\ out' = [r \in Requests |->
                     IF r \in served THEN [tok |-> 1, fin |-> reason(r)] ELSE NoOutput]
        /\ status' = [r \in Requests |->
                        IF r \in ended THEN FinishedStatus(reason(r)) ELSE status[r]]
        /\ fin' = ended
  /\ resp' = Empty
  /\ pc' = "cleanup"
  /\ UNCHANGED <<waiting, running, arrival, uidOf, reqOf, pending, bgVars, attempt,
                 useWorker, clientVars, pauseVars, faults>>

\* Mutant: a finished request is not taken out of running.
CleanupFinished_KeepsRunning ==
  /\ StepThread("cleanup")
  /\ uidOf' = Drop(uidOf, fin)
  /\ reqOf' = Drop(reqOf, {uidOf[r] : r \in fin \cap DOMAIN uidOf})
  /\ fin' = {}
  /\ pc' = "deliver"
  /\ UNCHANGED <<waiting, running, status, arrival, nout, pending, bgVars, attempt,
                 resp, out, useWorker, clientVars, pauseVars, faults>>

\* _cleanup_finished, storing the caches of finished requests left out.
CleanupFinished ==
  /\ StepThread("cleanup")
  /\ running' = running \ fin
  /\ uidOf' = Drop(uidOf, fin)
  /\ reqOf' = Drop(reqOf, {uidOf[r] : r \in fin \cap DOMAIN uidOf})
  /\ fin' = {}
  /\ pc' = "deliver"
  /\ UNCHANGED <<waiting, status, arrival, nout, pending, bgVars, attempt, resp,
                 out, useWorker, clientVars, pauseVars, faults>>

\* Evaluating a stored cache runs out of memory once `cleaned` are removed: the
\* handler of step aborts what is left of running, finished requests included.
CleanupFails ==
  /\ StepThread("cleanup")
  /\ Strike("cleanup")
  /\ \E cleaned \in SUBSET fin :
       cleaned # fin /\ AbortRunning(running \ cleaned)
  /\ fin' = {}
  /\ pc' = "deliver"
  /\ UNCHANGED <<waiting, pending, attempt, resp, useWorker, clientVars, pauseVars>>

\* Mutant: the newer output replaces the one that was not consumed.
Merge_Replaces(old, new) == new

\* RequestOutputCollector.put: what was not consumed is merged into the newer one.
Merge(old, new) == [tok |-> old.tok + new.tok, fin |-> new.fin]

\* Mutant: put is called and the outputs are handed out again after next step.
Deliver_Again ==
  /\ pc = "deliver" /\ LoopFree
  /\ inbox' = [r \in Requests |->
                 IF r \in tracked /\ out[r] # NoOutput
                 THEN Merge(inbox[r], out[r]) ELSE inbox[r]]
  /\ pc' = "idle"
  /\ UNCHANGED <<schedVars, pending, bgVars, attempt, resp, fin, out, useWorker,
                 tracked, client, got, final, pauseVars, faults>>

\* The loop hands the outputs to the collectors that are still there (one event
\* loop turn).
Deliver ==
  /\ pc = "deliver" /\ LoopFree
  /\ inbox' = [r \in Requests |->
                 IF r \in tracked /\ out[r] # NoOutput
                 THEN Merge(inbox[r], out[r]) ELSE inbox[r]]
  /\ out' = NoOutputs
  /\ pc' = "idle"
  /\ UNCHANGED <<schedVars, pending, bgVars, attempt, resp, fin, useWorker, tracked,
                 client, got, final, pauseVars, faults>>

--------------------------------------------------------------------------------
(* The clients: coroutines on the event loop.                                *)

\* Mutant: a new request goes to the front of the queue.
Enqueue_Front(q, r) == <<r>> \o q

\* A new request goes to the end of the queue.
Enqueue(q, r) == Append(q, r)

\* EngineCore.add_request and Scheduler.add_request, on behalf of a coroutine
\* that goes on to iterate stream_outputs or to await its finished event.
Submit(r) ==
  /\ client[r] = "idle" /\ LoopFree
  /\ client' = [client EXCEPT ![r] = IF r \in Streamers THEN "stream" ELSE "generate"]
  /\ tracked' = tracked \cup {r}
  /\ inbox' = [inbox EXCEPT ![r] = NoOutput]
  /\ waiting' = Enqueue(waiting, r)
  /\ status' = [status EXCEPT ![r] = "waiting"]
  /\ arrival' = [arrival EXCEPT ![r] = Cardinality({x \in Requests : client[x] # "idle"})]
  /\ UNCHANGED <<running, nout, uidOf, reqOf, pending, bgVars, stepVars, useWorker,
                 got, final, pauseVars, faults>>

\* The consumer takes what its collector holds: stream_outputs whenever there is
\* an output, generate only after the finished event, set with the last output.
Take(r) ==
  /\ client[r] \in Watching /\ LoopFree
  /\ inbox[r] # NoOutput
  /\ client[r] = "generate" => inbox[r].fin # NotFin
  /\ got' = [got EXCEPT ![r] = @ + inbox[r].tok]
  /\ inbox' = [inbox EXCEPT ![r] = NoOutput]
  /\ final' = [final EXCEPT ![r] = inbox[r].fin]
  /\ client' = [client EXCEPT ![r] = IF inbox[r].fin # NotFin THEN "ending" ELSE @]
  /\ UNCHANGED <<schedVars, pending, bgVars, stepVars, useWorker, tracked,
                 pauseVars, faults>>

\* The consumer is cancelled, closed or times out: abort_request only queues the
\* id; the same event-loop turn goes on to _cleanup_request.
Abandon(r) ==
  /\ client[r] \in Watching /\ LoopFree
  /\ pending' = pending \cup {r}
  /\ client' = [client EXCEPT ![r] = "leaving"]
  /\ UNCHANGED <<schedVars, bgVars, stepVars, useWorker, tracked, inbox, got, final,
                 pauseVars, faults>>

\* _cleanup_request, from the finally blocks of stream_outputs and generate.
CleanupRequest(r) ==
  /\ client[r] = "leaving" \/ (client[r] = "ending" /\ LoopFree)
  /\ tracked' = tracked \ {r}
  /\ inbox' = [inbox EXCEPT ![r] = NoOutput]
  /\ client' = [client EXCEPT ![r] = IF @ = "leaving" THEN "gone" ELSE "done"]
  /\ UNCHANGED <<schedVars, pending, bgVars, stepVars, useWorker, got, final,
                 pauseVars, faults>>

--------------------------------------------------------------------------------
(* Pausing and weight updates: blocking calls on the event loop.             *)

\* pause("wait"), or start_weight_update, which is pause("wait") inside an
\* update window: _drain_inflight holds the thread while requests run.
PauseWait(mode) ==
  /\ mode \in PauseModes \cap {"wait", "update"}
  /\ LoopFree /\ pauses < MaxPauses
  /\ mode = "update" => ~updating
  /\ updating' = (updating \/ mode = "update")
  /\ pauses' = pauses + 1
  /\ busy' = "drain"
  /\ UNCHANGED <<schedVars, pending, bgVars, stepVars, useWorker, clientVars, paused,
                 faults>>

\* Drained, or timeout_s is over: either way the scheduler is paused.
DrainEnds ==
  /\ busy = "drain"
  /\ busy' = "no"
  /\ paused' = TRUE
  /\ UNCHANGED <<schedVars, pending, bgVars, stepVars, useWorker, clientVars,
                 updating, pauses, faults>>

PauseKeep ==
  /\ "keep" \in PauseModes
  /\ LoopFree /\ pauses < MaxPauses
  /\ pauses' = pauses + 1
  /\ paused' = TRUE
  /\ UNCHANGED <<schedVars, pending, bgVars, stepVars, useWorker, clientVars, busy,
                 updating, faults>>

\* pause("abort"): running is emptied; the uid maps and the batch are not, and
\* no output is made for the aborted requests.
PauseAbort ==
  /\ "abort" \in PauseModes
  /\ LoopFree /\ pauses < MaxPauses
  /\ pauses' = pauses + 1
  /\ paused' = TRUE
  /\ running' = {}
  /\ status' = [r \in Requests |-> IF r \in running THEN "aborted" ELSE status[r]]
  /\ UNCHANGED <<waiting, arrival, nout, uidOf, reqOf, pending, bgVars, stepVars,
                 useWorker, clientVars, busy, updating, faults>>

\* update_weights: refused outside an update window; model.update otherwise.
BeginLoad ==
  /\ updating /\ LoopFree
  /\ busy' = "load"
  /\ UNCHANGED <<schedVars, pending, bgVars, stepVars, useWorker, clientVars, paused,
                 updating, pauses, faults>>

EndLoad ==
  /\ busy = "load"
  /\ busy' = "no"
  /\ UNCHANGED <<schedVars, pending, bgVars, stepVars, useWorker, clientVars, paused,
                 updating, pauses, faults>>

\* resume() and finish_weight_update().  The trainer is assumed not to call the
\* first inside an update window: it would restart the engine there.
Resume ==
  /\ paused /\ ~updating /\ LoopFree
  /\ paused' = FALSE
  /\ UNCHANGED <<schedVars, pending, bgVars, stepVars, useWorker, clientVars, busy,
                 updating, pauses, faults>>

FinishUpdate ==
  /\ updating /\ LoopFree
  /\ updating' = FALSE
  /\ paused' = FALSE
  /\ UNCHANGED <<schedVars, pending, bgVars, stepVars, useWorker, clientVars, busy,
                 pauses, faults>>

--------------------------------------------------------------------------------
EngineProgress ==
  \/ SubmitStep \/ BeginStep
  \/ \E r \in Requests : ProcessAbort(r)
  \/ \E r \in Requests : ProcessAbortKeyError(r)
  \/ AbortsDone
  \/ ScheduleOne \/ ScheduleDone
  \/ NothingToDecode \/ StartDecode \/ DecodeOk \/ RecoverStream
  \/ ProcessResponses \/ CleanupFinished
  \/ Deliver

Failure ==
  \/ ScheduleFails \/ ScheduleRaises
  \/ DecodeCorruptRetry \/ DecodeRaises
  \/ DecodeStreamError \/ DecodeFatal
  \/ CleanupFails

ClientStep(r) ==
  \/ Submit(r) \/ Take(r) \/ Abandon(r) \/ CleanupRequest(r)

Trainer ==
  \/ \E mode \in {"wait", "update"} : PauseWait(mode)
  \/ PauseKeep \/ PauseAbort
  \/ DrainEnds \/ BeginLoad \/ EndLoad \/ Resume \/ FinishUpdate

Next ==
  \/ IdleTick \/ EngineProgress \/ Failure
  \/ \E r \in Requests : ClientStep(r)
  \/ Trainer

Spec == Init /\ [][Next]_vars

\* The worker thread and the loop task always go on; a blocking call returns.
\* Ready coroutines run in turn (asyncio's queue is FIFO), although the thread
\* is not free all the time: strong fairness.  A paused engine is resumed.
\* Nobody has to submit, abandon or pause, and no error has to happen.
Fairness ==
  /\ WF_vars(EngineProgress)
  /\ WF_vars(DrainEnds \/ EndLoad)
  /\ \A r \in Requests : SF_vars(Take(r) \/ CleanupRequest(r))
  /\ SF_vars(Resume \/ FinishUpdate)

FairSpec == Spec /\ Fairness

--------------------------------------------------------------------------------
(* Safety.                                                                   *)

\* A request is in one place: queued at most once, or running, never both
\* (popleft, appendleft and the running dict are changed by many paths).
OnePlace ==
  /\ IsInjective(waiting)
  /\ Queued \cap running = {}

\* request_id_to_uid and uid_to_request_id are inverse to each other: a response
\* of the generator is credited to the request that was inserted, and an abort
\* removes the sequence of the request it names.
UidMapsAgree ==
  /\ \A r \in DOMAIN uidOf : uidOf[r] \in DOMAIN reqOf /\ reqOf[uidOf[r]] = r
  /\ \A u \in DOMAIN reqOf : reqOf[u] \in DOMAIN uidOf /\ uidOf[reqOf[u]] = u

\* The generator decodes exactly for the running requests: no sequence is left
\* behind for a request that is gone (it would hold a slot of the batch), and no
\* running request waits for a sequence the generator no longer has.
BatchMatchesRunning ==
  /\ running \subseteq DOMAIN uidOf
  /\ DOMAIN seqs \subseteq {uidOf[r] : r \in running}
  /\ running # {} => bgOpen
  /\ \A r \in running :
       \/ uidOf[r] \in DOMAIN seqs
       \/ pc = "process" /\ uidOf[r] \in DOMAIN resp /\ resp[uidOf[r]] # NotFin
       \/ pc = "cleanup" /\ r \in fin

\* max_num_seqs bounds the sequences in the generator.
SlotBound == Cardinality(DOMAIN seqs) <= MaxNumSeqs

\* Whoever awaits an output has something coming: the request is queued or
\* running, or its last output is on its way.  A violation is a client that
\* hangs for good.
NoOrphanedConsumer ==
  \A r \in Requests : client[r] \in Watching =>
    \/ r \in Queued \cup running
    \/ out[r].fin # NotFin
    \/ inbox[r].fin # NotFin

\* What a client holds, plus what is in its collector or in the output of the
\* step, is what the scheduler generated: no token is lost or given twice.
TokensConserved ==
  \A r \in Requests : client[r] \in Watching \cup {"ending", "done"} =>
    got[r] + inbox[r].tok + out[r].tok = nout[r]

\* Once the last output of a request is in its collector, the scheduler has no
\* trace of the request that could produce another.
NothingAfterFinish ==
  \A r \in Requests : inbox[r].fin # NotFin \/ final[r] # NotFin =>
    r \notin Queued \cup running /\ out[r] = NoOutput

\* max_tokens caps the tokens of a request, and a client told "length" holds
\* exactly that many.
TokensWithinMax ==
  \A r \in Requests :
    /\ nout[r] <= MaxTokens
    /\ final[r] = "length" => got[r] = MaxTokens

\* The scheduler's maps, its running requests and the generator's batch tell of the
\* same sequences.
BatchAgrees == UidMapsAgree /\ BatchMatchesRunning

\* Neither the batch nor a request outgrows its limit.
WithinLimits == SlotBound /\ TokensWithinMax

\* First come, first served: the queue is in the order of arrival and whatever
\* runs arrived before whatever is queued.
FCFS ==
  /\ \A i, j \in DOMAIN waiting : i < j => arrival[waiting[i]] < arrival[waiting[j]]
  /\ \A r \in running, q \in Queued : arrival[r] < arrival[q]

\* No forward pass is under way while update_weights replaces the parameters.
NoForwardPassDuringLoad == ~(busy = "load" /\ pc = "decode")

--------------------------------------------------------------------------------
(* What the safety of the hand-over rests on.                                *)

\* Whatever runs has a uid, so the order of uids orders the running dict.
RunningHasUid == running \subseteq DOMAIN uidOf

\* Nothing is known of a request that was not submitted.
UnknownBeforeSubmit ==
  \A r \in Requests : client[r] = "idle" =>
    /\ r \notin Queued \cup running
    /\ nout[r] = 0 /\ got[r] = 0 /\ final[r] = NotFin
    /\ inbox[r] = NoOutput /\ out[r] = NoOutput

\* A consumer has a collector until its own clean-up removes it, and it ends
\* when it is given the last output, not before.
ConsumersTracked ==
  \A r \in Requests :
    /\ client[r] \in Watching \cup {"ending"} => r \in tracked
    /\ final[r] # NotFin <=> client[r] \in {"ending", "done"}
    /\ final[r] # NotFin => inbox[r] = NoOutput

\* A step starts with no outputs, its outputs are for requests it ran, and after
\* the clean-up those that got their last one are out of running.
OutputsOfTheStep ==
  /\ pc \notin {"cleanup", "deliver"} => out = NoOutputs
  /\ \A r \in Requests :
       /\ out[r] # NoOutput => r \notin Queued
       /\ out[r].fin # NotFin => r \notin running \/ (pc = "cleanup" /\ r \in fin)

\* Only requests whose consumer has left are to be aborted, and only those with
\* their last output are to be cleaned up.
EndedForAReason ==
  /\ \A r \in pending : client[r] \in {"leaving", "gone"}
  /\ \A r \in fin : pc = "cleanup" /\ out[r].fin # NotFin

\* The inductive invariant of the hand-over from scheduler to client.
HandOver ==
  /\ OnePlace /\ RunningHasUid
  /\ UnknownBeforeSubmit /\ ConsumersTracked
  /\ OutputsOfTheStep /\ EndedForAReason
  /\ TokensConserved /\ NothingAfterFinish

--------------------------------------------------------------------------------
(* Liveness.                                                                 *)

\* Every client is served to the end, unless it leaves first.
EveryClientServed ==
  \A r \in Requests : client[r] \in Watching ~> client[r] \in {"done", "gone"}

\* What a client leaves behind is gone some time later: its slot is freed.
AbandonedLeave ==
  \A r \in Requests : client[r] = "gone" ~> r \notin Queued \cup running

--------------------------------------------------------------------------------
(* What a caller sees.                                                       *)

\* The coroutine serving a request, as its caller sees it.
ServicePhase ==
  [r \in Requests |->
     IF client[r] = "idle" THEN "idle"
     ELSE IF client[r] \in Watching THEN "open"
     ELSE IF client[r] \in {"ending", "done"} THEN "served" ELSE "left"]

RS == INSTANCE RequestService
        WITH Callers <- Requests, phase <- ServicePhase, made <- nout,
             given <- got, told <- final

\* Scheduler, loop and collectors, with their errors, retries, recoveries, aborts
\* and pauses, give each caller its tokens once and end its request once.
ServesCallers == RS!ServiceSpec

================================================================================
