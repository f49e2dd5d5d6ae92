------------------------------- MODULE BlockQueue -------------------------------
(***************************************************************************)
(* What FreeKVCacheBlockQueue (vllm_mlx/paged_cache.py) promises: a queue  *)
(* of distinct blocks, the one that was freed first at its front, from     *)
(* which a block in the middle can be taken out.                           *)
(***************************************************************************)
EXTENDS Integers, Sequences, SequencesExt

CONSTANT QueueSize   \* the blocks are numbered from 1

VARIABLE queue

QueueInit == queue = [i \in 1..QueueSize |-> i]

TakeFront(n) == n <= Len(queue) /\ queue' = SubSeq(queue, n + 1, Len(queue))

TakeOut(i) == i \in DOMAIN queue /\ queue' = RemoveAt(queue, i)

PutBack(bs) ==
  /\ IsInjective(queue \o bs)
  /\ queue' = queue \o bs

OutOfQueue == (1..QueueSize) \ ToSet(queue)

QueueNext ==
  \/ \E n \in 0..QueueSize : TakeFront(n)
  \/ \E i \in 1..QueueSize : TakeOut(i)
  \/ \E bs \in UNION {[1..n -> OutOfQueue] : n \in 0..QueueSize} : PutBack(bs)

QueueSpec == QueueInit /\ [][QueueNext]_queue

================================================================================
