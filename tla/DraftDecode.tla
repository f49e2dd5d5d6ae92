------------------------------ MODULE DraftDecode ------------------------------
(***************************************************************************)
(* The batch generator as the scheduler patches it                         *)
(* (_install_chunked_prefill and _install_mtp of vllm_mlx/scheduler.py, and*)
(* install_mtp_mllm of vllm_mlx/mllm_batch_generator.py): prompts enter in *)
(* chunks between decode steps, and a step may draft one token ahead and   *)
(* verify it in the same call of the model.                                *)
(*                                                                         *)
(* A token is its position in its sequence, prompt and output.  The keys   *)
(* and values of a sequence are the positions that were fed to the model,  *)
(* in the order they were; what the model predicts is the position after   *)
(* the last one it was fed.  So a token fed twice, skipped or never undone *)
(* is seen in the keys and values and in what its client hears.  The       *)
(* prompt checkpoint is 1, as in every insert of the scheduler.            *)
(***************************************************************************)
EXTENDS Integers, Sequences, FiniteSets, Functions, SequencesExt, Selections

CONSTANTS
  DdSeqs,        \* sequences (uids), each submitted at most once
  DdLen,         \* tokens of its prompt
  DdHits,        \* how many tokens of each prompt a prefix cache may bring
  DdBoundary,    \* prefix_boundary of its request; 0: none
  DdBudget,      \* chunked_prefill_tokens
  DdInterval,    \* mid_prefill_save_interval
  DdTokens,      \* max_tokens
  DdModes        \* configurations: [mtp, mllm, optimistic, cap, pre]

ASSUME DdAssumption ==
  /\ DdLen \in [DdSeqs -> Nat \ {0}] /\ DdBoundary \in [DdSeqs -> Nat]
  /\ \A u \in DdSeqs : DdBoundary[u] < DdLen[u]
  /\ DdHits \in [DdSeqs -> SUBSET Nat] /\ DdBudget \in Nat \ {0} /\ DdInterval \in Nat \ {0}
  /\ DdTokens \in Nat \ {0}
  /\ \A m \in DdModes :
       /\ m \in [mtp : BOOLEAN, mllm : BOOLEAN, optimistic : BOOLEAN, cap : Nat \ {0}, pre : Nat]
       /\ m.pre \in 1..m.cap

VARIABLES
  ddMode,        \* the configuration
  hit,           \* what each sequence found in the prefix cache (-1: not submitted)
  prompts,       \* unprocessed_prompts
  partial,       \* _partial: its uids and how much of the padded input is processed
  decoding,      \* active_batch: a row has its uid, kv, pending token y and count n
  skip,          \* _skip_state: the position each row's logits predict, or NoSkip
  deferred,      \* _deferred_drafts: the position of a draft to emit, per uid (0: none)
  ddAborts,      \* _pending_abort_ids
  ddAt,          \* the worker: "drain" or "next"
  heard,         \* positions of the tokens emitted for each sequence
  over,          \* sequences that ended or were aborted
  midSave        \* tokens of its prompt in the prefix cache, as an intermediate entry

ddVars == <<ddMode, hit, prompts, partial, decoding, skip, deferred, ddAborts, ddAt, heard,
            over, midSave>>

NoPartial == [uids |-> <<>>, done |-> 0]
NoSkip == <<>>
UpTo(n) == [i \in 1..n |-> i]

DdInit ==
  /\ ddMode \in DdModes
  /\ hit = [u \in DdSeqs |-> -1] /\ prompts = <<>> /\ partial = NoPartial
  /\ decoding = <<>> /\ skip = NoSkip /\ deferred = [u \in DdSeqs |-> 0]
  /\ ddAborts = {} /\ ddAt = "drain" /\ heard = [u \in DdSeqs |-> <<>>] /\ over = {}
  /\ midSave = [u \in DdSeqs |-> 0]

Rest(u) == DdLen[u] - hit[u]
Longest(uids) == CHOOSE n \in {Rest(u) : u \in uids} : \A u \in uids : Rest(u) <= n
Started == {u \in DdSeqs : hit[u] >= 0}
RowsBut(rows, uids) == Selected(rows, {e \in ToSet(rows) : e.uid \notin uids})

\* insert, with what the prefix cache has of the prompt.
DdInsert(u, cached) ==
  /\ hit[u] = -1 /\ cached < DdLen[u]
  /\ hit' = [hit EXCEPT ![u] = cached]
  /\ prompts' = Append(prompts, u)
  /\ UNCHANGED <<ddMode, partial, decoding, skip, deferred, ddAborts, ddAt, heard, over, midSave>>

\* abort_request, from the event loop.
DdAbort(u) ==
  /\ u \in Started \ (over \cup ddAborts)
  /\ ddAborts' = ddAborts \cup {u}
  /\ UNCHANGED <<ddMode, hit, prompts, partial, decoding, skip, deferred, ddAt, heard, over, midSave>>

\* A step first removes what was aborted; a partial prefill one of them is part
\* of is dropped.
DdDrain ==
  /\ ddAt = "drain"
  /\ ddAt' = "next" /\ ddAborts' = {} /\ over' = over \cup ddAborts
  /\ prompts' = Selected(prompts, DdSeqs \ ddAborts)
  /\ decoding' = RowsBut(decoding, ddAborts)
  /\ partial' = IF ToSet(partial.uids) \cap ddAborts # {} THEN NoPartial ELSE partial
  /\ UNCHANGED <<ddMode, hit, skip, deferred, heard, midSave>>

\* _mid_prefill_save: at the boundary, or an interval after the last one, the keys
\* and values are stored for the tokens they are of; the entry before goes.
MidSaved(uids, done) ==
  IF Len(uids) # 1 THEN midSave
  ELSE LET u == uids[1]
           total == hit[u] + done
           due == total = DdBoundary[u] \/ total - midSave[u] >= DdInterval
       IN IF due THEN [midSave EXCEPT ![u] = total] ELSE midSave

\* A row as it enters the batch: the whole prompt was fed, one token is sampled.
NewRow(u) == [uid |-> u, kv |-> UpTo(DdLen[u]), y |-> DdLen[u] + 1, n |-> 0]
NewRows(uids) == [i \in DOMAIN uids |-> NewRow(uids[i])]

\* The first chunk ends at the boundary of a single prompt, beyond the budget too.
FirstChunk(uids) ==
  LET u == uids[1]
      cut == DdBoundary[u] - hit[u]
      all == Longest(ToSet(uids)) - 1
      size == IF Len(uids) = 1 /\ 0 < cut /\ cut <= all THEN cut ELSE DdBudget
  IN IF size < all THEN size ELSE all

NeedsChunks(uids) ==
  \/ FoldSeq(LAMBDA u, total : Rest(u) + total, 0, uids) > DdBudget
  \/ \E u \in ToSet(uids) : DdBoundary[u] > 0

\* Whether _step drafts: only over the cache of the active batch; the multimodal one
\* only for a single row.
Drafts(rows) == ddMode.mtp /\ (ddMode.mllm => Len(rows) = 1)
SkipUsed(rows, kept) == Drafts(rows) /\ rows # <<>> /\ Len(kept) = Len(rows)

\* The token the step samples for a row: with the logits kept by the step before,
\* the one they predict, and y is not fed again.
Primary(rows, kept, i) == IF SkipUsed(rows, kept) THEN kept[i] ELSE rows[i].y + 1
\* Mutant: y is fed whether the cache has it or not.
BeforeDraft_Refed(rows, kept, i) == Append(rows[i].kv, rows[i].y)

BeforeDraft(rows, kept, i) ==
  IF SkipUsed(rows, kept) THEN rows[i].kv ELSE Append(rows[i].kv, rows[i].y)

Verdicts(rows) ==
  IF ~Drafts(rows) THEN {"plain"}
  ELSE IF ddMode.optimistic THEN {"accept", "error"} ELSE {"accept", "reject", "error"}

\* The primary and the draft are fed in one call.  Accepted, both stay; rejected, the
\* draft is undone (for hybrid models: both, and the primary fed again).
Verified(rows, kept, i, verdict) ==
  LET p == Primary(rows, kept, i)
  IN BeforeDraft(rows, kept, i) \o
       (IF verdict = "accept" THEN <<p, p + 1>> ELSE IF verdict = "reject" THEN <<p>> ELSE <<>>)

SkipAfter(rows, kept, verdict) ==
  IF verdict \notin {"accept", "reject"} THEN NoSkip
  ELSE [i \in DOMAIN rows |-> Primary(rows, kept, i) + (IF verdict = "accept" THEN 2 ELSE 1)]

UidsOf(rows) == {rows[i].uid : i \in DOMAIN rows}
RowOf(rows, u) == CHOOSE i \in DOMAIN rows : rows[i].uid = u

\* _deferred_drafts after the step: an accepted draft waits for the next one.
DeferredAfter(rows, kept, verdict, left) ==
  [u \in DdSeqs |->
    IF u \notin UidsOf(rows) \/ verdict \notin {"accept", "reject"} THEN left[u]
    ELSE IF verdict = "accept" THEN Primary(rows, kept, RowOf(rows, u)) + 1 ELSE 0]

\* _mtp_next: sequences that go on after their own token are given the draft that the
\* step before had accepted, which may be their last.
Augmented(rows, drafts, ended) == {u \in UidsOf(rows) \ ended : drafts[u] # 0}
EndedBy(rows, tokens, stops) ==
  {u \in UidsOf(rows) : u \in stops \/ rows[RowOf(rows, u)].n + tokens >= DdTokens}

\* _generation_step inside _mtp_next: every row's y is emitted and the next sampled.
Generate(rows, kept, drafts, left) ==
  \E verdict \in Verdicts(rows) : \E stops \in SUBSET UidsOf(rows) :
  \E draftStops \in SUBSET UidsOf(rows) :
    LET ended == EndedBy(rows, 1, stops)
        extra == Augmented(rows, drafts, ended)
        gone == ended \cup (extra \cap EndedBy(rows, 2, draftStops))
        after == [i \in DOMAIN rows |->
                   [uid |-> rows[i].uid, kv |-> Verified(rows, kept, i, verdict),
                    y |-> Primary(rows, kept, i),
                    n |-> rows[i].n + (IF rows[i].uid \in extra THEN 2 ELSE 1)]]
    IN /\ draftStops \subseteq extra
       /\ decoding' = RowsBut(after, gone)
       /\ skip' = IF rows = <<>> THEN kept ELSE SkipAfter(rows, kept, verdict)
       /\ deferred' = LET d == DeferredAfter(rows, kept, verdict, left)
                      IN [u \in DdSeqs |-> IF u \in ended /\ Range(drafts) # {0} THEN 0 ELSE d[u]]
       /\ heard' = [u \in DdSeqs |->
            heard[u] \o (IF u \in UidsOf(rows) THEN <<rows[RowOf(rows, u)].y>> ELSE <<>>)
                     \o (IF u \in extra THEN <<drafts[u]>> ELSE <<>>)]
       /\ over' = over \cup gone

\* A partial prefill goes on by a chunk; when only the last token of the longest
\* prompt is left the prompts are finished and join the batch.
ChunkSize(uids, done) ==
  LET left == Longest(ToSet(uids)) - done - 1
  IN IF left < 0 THEN 0 ELSE IF left < DdBudget THEN left ELSE DdBudget

ContinuePartial(kept, drafts, left) ==
  LET uids == partial.uids
      done == partial.done + ChunkSize(uids, partial.done)
      finished == Longest(ToSet(uids)) - done <= 1
  IN /\ partial' = IF finished THEN NoPartial ELSE [partial EXCEPT !.done = done]
     /\ midSave' = IF done > partial.done THEN MidSaved(uids, done) ELSE midSave
     /\ prompts' = prompts
     /\ IF finished THEN Generate(decoding \o NewRows(uids), NoSkip, drafts, left)
                    ELSE Generate(decoding, kept, drafts, left)

\* The next prompts enter when there is room for a whole prefill batch: the first
\* chunk of them, or all of them at once (whose _step drops the skip state).
EnterPrompts(kept, drafts, left) ==
  LET uids == SubSeq(prompts, 1, IF Len(prompts) < ddMode.pre THEN Len(prompts) ELSE ddMode.pre)
      chunked == ~ddMode.mllm /\ NeedsChunks(uids)
  IN /\ prompts' = SubSeq(prompts, Len(uids) + 1, Len(prompts))
     /\ partial' = IF chunked THEN [uids |-> uids, done |-> FirstChunk(uids)] ELSE partial
     /\ midSave' = IF chunked THEN MidSaved(uids, FirstChunk(uids)) ELSE midSave
     /\ IF chunked THEN Generate(decoding, kept, drafts, left)
                   ELSE Generate(decoding \o NewRows(uids), NoSkip, drafts, left)

\* _chunked_next under _mtp_next.  Without a batch, what MTP has kept is cleared.
\* An abort that came after the drain drops the partial prefill it is part of.
DdNextCall ==
  /\ ddAt = "next" /\ Started # {} /\ ddAt' = "drain"
  /\ LET none == [u \in DdSeqs |-> 0]
         kept == IF decoding = <<>> THEN NoSkip ELSE skip
         drafts == [u \in DdSeqs |-> IF u \in UidsOf(decoding) THEN deferred[u] ELSE 0]
         left == [u \in DdSeqs |->
                   IF decoding = <<>> \/ u \in UidsOf(decoding) THEN 0 ELSE deferred[u]]
         room == ddMode.cap - Len(decoding) >= ddMode.pre
     IN IF partial # NoPartial
        THEN IF ToSet(partial.uids) \cap ddAborts # {}
             THEN /\ partial' = NoPartial /\ UNCHANGED <<prompts, midSave>>
                  /\ Generate(decoding, kept, drafts, left)
             ELSE ContinuePartial(kept, drafts, left)
        ELSE IF room /\ prompts # <<>>
        THEN EnterPrompts(kept, drafts, left)
        ELSE /\ UNCHANGED <<prompts, partial, midSave>>
             /\ Generate(decoding, kept, drafts, left)
  /\ UNCHANGED <<ddMode, hit, ddAborts>>

DdNext ==
  \/ \E u \in DdSeqs : \E cached \in DdHits[u] : DdInsert(u, cached)
  \/ \E u \in DdSeqs : DdAbort(u)
  \/ DdDrain
  \/ DdNextCall

DdSpec == DdInit /\ [][DdNext]_ddVars

--------------------------------------------------------------------------------
DdTypeOK ==
  /\ prompts \in Seq(DdSeqs) /\ ToSet(partial.uids) \subseteq DdSeqs
  /\ partial.done \in Nat /\ ddAborts \subseteq Started /\ over \subseteq Started
  /\ \A i \in DOMAIN decoding : decoding[i].n \in 1..(DdTokens - 1)
  /\ Len(decoding) <= ddMode.cap /\ ddAt \in {"drain", "next"}

\* What was fed for a sequence is its text, token by token, without gap or repeat
\* (the cache has "already consumed [primary, draft]", the next step "must NOT re-feed it").
CacheFollowsText ==
  \A i \in DOMAIN decoding : decoding[i].kv = UpTo(Len(decoding[i].kv))

\* A client hears the tokens of its sequence one after the other, no more than it
\* asked for.
HeardInOrder ==
  \A u \in DdSeqs : /\ heard[u] = [i \in DOMAIN heard[u] |-> DdLen[u] + i]
                    /\ Len(heard[u]) <= DdTokens

\* A sequence that has not ended and is not being aborted is queued, in the partial
\* prefill or in the batch, and in one of them only.
SequenceKept ==
  \A u \in Started \ (over \cup ddAborts) :
    Cardinality({i \in DOMAIN prompts : prompts[i] = u})
      + Cardinality({i \in DOMAIN partial.uids : partial.uids[i] = u})
      + Cardinality({i \in DOMAIN decoding : decoding[i].uid = u}) = 1

\* The patched batch generator (_step, _mtp_next, _chunked_next): the keys and values of a
\* sequence are those of its text, its client hears every token once and in order, and a
\* sequence is in one place until it ends.
DraftsSound == CacheFollowsText /\ HeardInOrder /\ SequenceKept
================================================================================
