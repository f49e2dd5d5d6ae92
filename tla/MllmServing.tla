------------------------------ MODULE MllmServing ------------------------------
(***************************************************************************)
(* Serving of multimodal requests: MLLMScheduler                           *)
(* (vllm_mlx/mllm_scheduler.py) and the queue and the batch of             *)
(* MLLMBatchGenerator (vllm_mlx/mllm_batch_generator.py).                  *)
(*                                                                         *)
(* Everything runs on the event loop, except that the loop awaits the      *)
(* preprocessing of the queued text requests in a thread: requests arrive  *)
(* and consumers leave between two of them, and between two steps.  Tokens *)
(* are only counted; what is in the key and value caches is the subject of *)
(* DraftDecode.                                                            *)
(***************************************************************************)
EXTENDS Integers, Sequences, FiniteSets, Functions, SequencesExt, Selections

CONSTANTS
  MllmReqs,        \* identifiers of requests, each used once
  WithImages,      \* those with images or videos
  MllmSeqs,        \* max_num_seqs
  BatchCap,        \* completion_batch_size
  MllmTokens,      \* max_tokens of every request
  MllmFaults       \* what may fail: "preprocess", "prefill", "decode"

ASSUME MllmAssumption ==
  /\ WithImages \subseteq MllmReqs
  /\ MllmSeqs \in Nat \ {0} /\ BatchCap \in Nat \ {0} /\ MllmTokens \in Nat \ {0}
  /\ MllmFaults \subseteq {"preprocess", "prefill", "decode"}

VARIABLES
  loopAt,          \* the process loop: "top", "early" or "stopped"
  early,           \* uids the loop still has to preprocess in this round
  mWaiting,        \* waiting
  mRunning,        \* running
  uidOf,           \* request_id_to_uid and its inverse; 0: none
  nextUid,         \* uid_counter
  unprocessed,     \* unprocessed_requests
  rows,            \* the rows of active_batch; empty: None
  removals,        \* _pending_removal_uids
  abortedIds,      \* _aborted_request_ids
  outQueue,        \* output_queues
  reader           \* the consumer of each request

mllmVars == <<loopAt, early, mWaiting, mRunning, uidOf, nextUid, unprocessed, rows,
              removals, abortedIds, outQueue, reader>>

MllmInit ==
  /\ loopAt = "top" /\ early = <<>> /\ mWaiting = <<>> /\ mRunning = {}
  /\ uidOf = [r \in MllmReqs |-> 0] /\ nextUid = 1
  /\ unprocessed = <<>> /\ rows = <<>> /\ removals = {} /\ abortedIds = {}
  /\ outQueue = [r \in MllmReqs |-> <<>>]
  /\ reader = [r \in MllmReqs |-> "none"]

OfUids(entries, uids) == Selected(entries, {e \in ToSet(entries) : e.uid \in uids})
NotOfUids(entries, uids) == Selected(entries, {e \in ToSet(entries) : e.uid \notin uids})
OfReqs(entries, reqs) == Selected(entries, {e \in ToSet(entries) : e.r \in reqs})
Uids(entries) == {e.uid : e \in ToSet(entries)}
TextOnly(entries) == OfReqs(entries, MllmReqs \ WithImages)
NotReady(entries) == Selected(entries, {e \in ToSet(entries) : ~e.ready})
FirstOf(entries, n) == SubSeq(entries, 1, IF Len(entries) < n THEN Len(entries) ELSE n)

\* add_request_async, and its caller begins to read the queue.
MllmAdd(r) ==
  /\ reader[r] = "none" /\ loopAt # "stopped"
  /\ mWaiting' = Append(mWaiting, r)
  /\ reader' = [reader EXCEPT ![r] = "reading"]
  /\ UNCHANGED <<loopAt, early, mRunning, uidOf, nextUid, unprocessed, rows, removals,
                 abortedIds, outQueue>>

\* stream_outputs takes an output; None and a finished output end it.
MllmRead(r) ==
  /\ reader[r] = "reading" /\ outQueue[r] # <<>>
  /\ IF Head(outQueue[r]) = "token"
     THEN outQueue' = [outQueue EXCEPT ![r] = Tail(@)] /\ UNCHANGED reader
     ELSE outQueue' = [outQueue EXCEPT ![r] = <<>>] /\ reader' = [reader EXCEPT ![r] = "finished"]
  /\ UNCHANGED <<loopAt, early, mWaiting, mRunning, uidOf, nextUid, unprocessed, rows, removals,
                 abortedIds>>

\* The consumer is closed or cancelled: abort_request, unless the request has
\* already been cleaned up.  The generator hears of it at its next step.
MllmLeave(r) ==
  /\ reader[r] = "reading"
  /\ reader' = [reader EXCEPT ![r] = "left"]
  /\ outQueue' = [outQueue EXCEPT ![r] = <<>>]
  /\ IF r \in mRunning \/ r \in ToSet(mWaiting)
     THEN /\ abortedIds' = abortedIds \cup {r}
          /\ mWaiting' = Selected(mWaiting, MllmReqs \ {r})
          /\ mRunning' = mRunning \ {r}
          /\ removals' = removals \cup ({uidOf[r]} \ {0})
          /\ uidOf' = [uidOf EXCEPT ![r] = 0]
     ELSE UNCHANGED <<abortedIds, mWaiting, mRunning, removals, uidOf>>
  /\ UNCHANGED <<loopAt, early, nextUid, unprocessed, rows>>

\* The process loop looks at the queue for text requests without input ids.
EarlyBegin ==
  /\ loopAt = "top"
  /\ loopAt' = "early"
  /\ early' = LET plain == NotReady(TextOnly(unprocessed))
              IN [i \in DOMAIN plain |-> plain[i].uid]
  /\ UNCHANGED <<mWaiting, mRunning, uidOf, nextUid, unprocessed, rows, removals, abortedIds,
                 outQueue, reader>>

\* One of them is preprocessed in a thread; a failure is only logged.
EarlyPreprocess(fails) ==
  /\ loopAt = "early" /\ early # <<>> /\ (fails => "preprocess" \in MllmFaults)
  /\ early' = Tail(early)
  /\ unprocessed' = [i \in DOMAIN unprocessed |->
       IF unprocessed[i].uid = Head(early) THEN [unprocessed[i] EXCEPT !.ready = ~fails]
                                           ELSE unprocessed[i]]
  /\ UNCHANGED <<loopAt, mWaiting, mRunning, uidOf, nextUid, rows, removals, abortedIds,
                 outQueue, reader>>

\* insert: the new requests join the queue, those without images in front.
Inserted(queue, requests) ==
  LET new == [i \in DOMAIN requests |->
                [uid |-> nextUid + i - 1, r |-> requests[i], ready |-> FALSE]]
      all == queue \o new
  IN TextOnly(all) \o OfReqs(all, WithImages)

\* What _next() takes to the prefill: the front of the queue when nothing is
\* generating, otherwise text requests that may join the batch.
TakenFrom(queue, batch) ==
  FirstOf(IF batch = <<>> THEN queue ELSE TextOnly(queue), BatchCap)

\* _process_prompts preprocesses what is not preprocessed and drops what fails,
\* then what was aborted.
Preprocessed(taken, bad) == NotOfUids(taken, bad)
Prefilled(taken, bad) == OfReqs(Preprocessed(taken, bad), MllmReqs \ abortedIds)

\* Mutant: the list that tells what to remove is always the filtered one.
QueueAfter_Filtered(queue, batch, taken, bad, raised) ==
  LET consumed == Preprocessed(taken, bad)
  IN IF batch = <<>> THEN SubSeq(queue, Len(consumed) + 1, Len(queue))
                     ELSE NotOfUids(queue, Uids(consumed))

\* The queue after the prefill: what was taken goes.  When the prefill raised, what
\* failed before was already out of the list that tells what to remove.
QueueAfter(queue, batch, taken, bad, raised) ==
  LET consumed == IF raised THEN Preprocessed(taken, bad) ELSE taken
  IN IF batch = <<>> THEN SubSeq(queue, Len(consumed) + 1, Len(queue))
                     ELSE NotOfUids(queue, Uids(consumed))

\* Requests that get a response without a token, and which.
Endings(entries) ==
  [i \in DOMAIN entries |-> [uid |-> entries[i].uid, r |-> entries[i].r, out |-> "last"]]
NoTokens(taken, bad, raised) ==
  LET lost == IF raised THEN taken ELSE OfUids(taken, bad)
      dropped == OfReqs(Preprocessed(taken, bad), abortedIds)
  IN Endings(IF raised THEN lost ELSE lost \o dropped)

\* One token of every row; "ended" are those whose token is a stop token.
Tokens(batch, ended) ==
  [i \in DOMAIN batch |->
    [uid |-> batch[i].uid, r |-> batch[i].r,
     out |-> IF batch[i].uid \in ended \/ batch[i].n + 1 >= MllmTokens THEN "last" ELSE "token"]]

Counted(batch) == [i \in DOMAIN batch |-> [batch[i] EXCEPT !.n = @ + 1]]
Unfinished(batch, ended) ==
  Selected(Counted(batch),
           {e \in ToSet(Counted(batch)) : e.uid \notin ended /\ e.n < MllmTokens})

\* _process_batch_responses and _cleanup_finished: a response for a uid that is no
\* longer mapped is skipped, an output goes to the queue of a consumer that reads,
\* and what finished leaves running and the maps.
Deliver(uidNow, runningNow, responses) ==
  LET known == Selected(responses,
                 {e \in ToSet(responses) : uidNow[e.r] = e.uid /\ e.r \in runningNow})
      over == {e.r : e \in {k \in ToSet(known) : k.out = "last"}}
      outs(r) == LET mine == OfReqs(known, {r})
                 IN [i \in DOMAIN mine |-> mine[i].out]
  IN /\ outQueue' = [r \in MllmReqs |->
          IF reader[r] = "reading"
          THEN outQueue[r] \o outs(r) \o (IF r \in over THEN <<"end">> ELSE <<>>)
          ELSE outQueue[r]]
     /\ mRunning' = runningNow \ over
     /\ uidOf' = [r \in MllmReqs |-> IF r \in over THEN 0 ELSE uidNow[r]]

\* _schedule_waiting: who is admitted has the next uids, in order.
UidsGiven(admitted) ==
  [r \in MllmReqs |->
    IF r \in ToSet(admitted)
    THEN nextUid + (CHOOSE i \in DOMAIN admitted : admitted[i] = r) - 1 ELSE uidOf[r]]

\* What was prefilled joins the batch.
Joined(batch, entries) ==
  batch \o [i \in DOMAIN entries |-> [uid |-> entries[i].uid, r |-> entries[i].r, n |-> 0]]

\* step(): drain the removals, schedule, one step of the batch generator, deliver.
\* A decode that raises leaves with what the step has done so far, and the
\* responses without a token are gone with it.
MllmStep ==
  /\ loopAt = "early" /\ early = <<>>
  /\ mWaiting # <<>> \/ mRunning # {}
  /\ loopAt' = "top" /\ removals' = {}
  /\ LET batch == NotOfUids(rows, removals)
         room == MllmSeqs - Cardinality(mRunning)
         admitted == FirstOf(mWaiting, room)
         queue == Inserted(NotOfUids(unprocessed, removals), admitted)
         runningNow == mRunning \cup ToSet(admitted)
         uidNow == UidsGiven(admitted)
         taken == TakenFrom(queue, batch)
     IN /\ mWaiting' = SubSeq(mWaiting, Len(admitted) + 1, Len(mWaiting))
        /\ nextUid' = nextUid + Len(admitted)
        /\ \E bad \in SUBSET Uids(NotReady(taken)) : \E raised \in BOOLEAN :
             /\ bad # {} => "preprocess" \in MllmFaults
             /\ raised => "prefill" \in MllmFaults /\ Preprocessed(taken, bad) # <<>>
             /\ unprocessed' = QueueAfter(queue, batch, taken, bad, raised)
             /\ abortedIds' = IF raised THEN abortedIds
                              ELSE abortedIds \ {e.r : e \in ToSet(Preprocessed(taken, bad))}
             /\ LET full == Joined(batch, IF raised THEN <<>> ELSE Prefilled(taken, bad))
                IN \/ \E ended \in SUBSET Uids(full) :
                        /\ rows' = Unfinished(full, ended)
                        /\ Deliver(uidNow, runningNow,
                                   NoTokens(taken, bad, raised) \o Tokens(full, ended))
                   \/ /\ "decode" \in MllmFaults /\ full # <<>>
                      /\ rows' = full /\ uidOf' = uidNow /\ mRunning' = runningNow
                      /\ UNCHANGED outQueue
  /\ UNCHANGED <<early, reader>>

\* Without requests the loop sleeps and looks again.
MllmIdle ==
  /\ loopAt = "early" /\ early = <<>> /\ mWaiting = <<>> /\ mRunning = {}
  /\ loopAt' = "top"
  /\ UNCHANGED <<early, mWaiting, mRunning, uidOf, nextUid, unprocessed, rows, removals,
                 abortedIds, outQueue, reader>>

\* stop(): the loop is cancelled where it awaits and the generator is dropped.
MllmStop ==
  /\ loopAt # "stopped"
  /\ loopAt' = "stopped" /\ early' = <<>>
  /\ unprocessed' = <<>> /\ rows' = <<>> /\ removals' = {} /\ abortedIds' = {}
  /\ UNCHANGED <<mWaiting, mRunning, uidOf, nextUid, outQueue, reader>>

MllmNext ==
  \/ \E r \in MllmReqs : MllmAdd(r) \/ MllmRead(r) \/ MllmLeave(r)
  \/ EarlyBegin
  \/ \E fails \in BOOLEAN : EarlyPreprocess(fails)
  \/ MllmStep
  \/ MllmIdle
  \/ MllmStop

MllmSpec == MllmInit /\ [][MllmNext]_mllmVars

--------------------------------------------------------------------------------
MllmTypeOK ==
  /\ loopAt \in {"top", "early", "stopped"}
  /\ early \in Seq(1..Cardinality(MllmReqs))
  /\ mWaiting \in Seq(MllmReqs) /\ mRunning \subseteq MllmReqs
  /\ uidOf \in [MllmReqs -> 0..Cardinality(MllmReqs)]
  /\ nextUid \in 1..(Cardinality(MllmReqs) + 1)
  /\ reader \in [MllmReqs -> {"none", "reading", "finished", "left"}]
  /\ outQueue \in [MllmReqs -> Seq({"token", "last", "end"})]
  /\ \A i \in DOMAIN rows : rows[i].n \in 0..(MllmTokens - 1)

\* A running request has its work exactly once in the generator: in the queue or as
\* a row of the batch.  Twice would give its consumer tokens of two generations, and
\* without any it would wait for ever.
MllmWorkOnce ==
  loopAt # "stopped" =>
    \A r \in mRunning :
      Cardinality({i \in DOMAIN unprocessed : unprocessed[i].uid = uidOf[r]})
        + Cardinality({i \in DOMAIN rows : rows[i].uid = uidOf[r]}) = 1

\* A consumer that reads has a request that is still served, or the end of the
\* outputs is in its queue.
MllmReaderServed ==
  \A r \in MllmReqs : reader[r] = "reading" =>
    r \in mRunning \/ r \in ToSet(mWaiting) \/ "last" \in ToSet(outQueue[r])

\* No consumer is given more tokens than were asked for, nor a second ending.
MllmOutputs ==
  \A r \in MllmReqs :
    /\ Cardinality({i \in DOMAIN outQueue[r] : outQueue[r][i] = "last"}) <= 1
    /\ Len(outQueue[r]) <= MllmTokens + 1
    /\ "last" \in ToSet(outQueue[r]) => outQueue[r][Len(outQueue[r]) - 1] = "last"
    /\ "last" \in ToSet(outQueue[r]) => r \notin mRunning

MllmServed == MllmWorkOnce /\ MllmReaderServed /\ MllmOutputs

================================================================================
