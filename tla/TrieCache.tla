------------------------------- MODULE TrieCache -------------------------------
(***************************************************************************)
(* PrefixCacheManager (vllm_mlx/prefix_cache.py): the cache of last        *)
(* resort, a trie of tokens with a bounded queue of what was used last.    *)
(* A node of the trie is the path to it; some nodes hold an entry.         *)
(***************************************************************************)
EXTENDS Integers, Sequences, FiniteSets, Functions, SequencesExt, Selections

CONSTANTS
  TrieKeys,    \* token sequences that are stored or asked for
  TrieMax,     \* max_size
  TrieTrims    \* the first layer of an entry is trimmable

ASSUME TrieAssumption ==
  /\ TrieKeys \subseteq Seq(Nat) /\ <<>> \notin TrieKeys
  /\ TrieMax \in Nat \ {0} /\ TrieTrims \in BOOLEAN

VARIABLES
  nodes,      \* the nodes of the trie
  holders,    \* those with an entry
  trieLru,    \* _lru
  trieAnswer  \* what fetch_cache returned

trieVars == <<nodes, holders, trieLru, trieAnswer>>

TrieMiss == [at |-> "miss"]

TrieInit == nodes = {<<>>} /\ holders = {} /\ trieLru = <<>> /\ trieAnswer = TrieMiss

PathTo(k) == {SubSeq(k, 1, n) : n \in 0..Len(k)}

\* The nodes there are when the sequences in S have entries and nothing else is kept.
Ways(S) == {<<>>} \cup UNION {PathTo(s) : s \in S}

\* Where the walk along k ends: at k, or where the next token is not known.
WalkEnd(k) == CHOOSE p \in PathTo(k) \cap nodes :
                p = k \/ SubSeq(k, 1, Len(p) + 1) \notin nodes

\* _touch_lru: also of an entry that is not in the queue.
Touched(k) == Append(Selected(trieLru, ToSet(trieLru) \ {k}), k)

CutTo(k, s) == k

\* fetch_cache: exact, the node where the walk ends, or something below it.
TrieFetch(k) ==
  LET end == WalkEnd(k)
      longer == {s \in holders : IsStrictPrefix(k, s)}
      answer(kv, done) == [at |-> "hit", want |-> k, kv |-> kv, done |-> done]
  IN /\ \/ /\ end \in holders /\ end # <<>>
           /\ trieAnswer' = answer(end, Len(end)) /\ trieLru' = Touched(end)
        \/ /\ end = k /\ k \notin holders /\ TrieTrims
           /\ \E s \in longer : trieAnswer' = answer(CutTo(k, s), Len(k))
           /\ UNCHANGED trieLru
        \/ /\ end \notin holders /\ (end # k \/ longer = {} \/ ~TrieTrims)
           /\ trieAnswer' = [at |-> "miss", want |-> k] /\ UNCHANGED trieLru
     /\ UNCHANGED <<nodes, holders>>

\* _delete_cache removes the nodes on the way to the victim that lead nowhere.
Pruned(trie, left, victim) ==
  {p \in trie : p = <<>> \/ p \notin PathTo(victim) \/ \E s \in left : IsPrefix(p, s)}

\* store_cache: an entry that is there already stays as it is.  _evict_lru drops
\* the first of the queue.
TrieStore(k) ==
  LET queue == IF k \in holders THEN Touched(k) ELSE Append(trieLru, k)
      full == Len(queue) > TrieMax
      left == (holders \cup {k}) \ (IF full THEN {Head(queue)} ELSE {})
      grown == nodes \cup PathTo(k)
  IN /\ trieLru' = IF full THEN Tail(queue) ELSE queue
     /\ holders' = left
     /\ nodes' = IF full THEN Pruned(grown, left, Head(queue)) ELSE grown
     /\ UNCHANGED trieAnswer

TrieClear ==
  /\ nodes' = {<<>>} /\ holders' = {} /\ trieLru' = <<>> /\ UNCHANGED trieAnswer

TrieNext == (\E k \in TrieKeys : TrieFetch(k) \/ TrieStore(k)) \/ TrieClear

TrieSpec == TrieInit /\ [][TrieNext]_trieVars

--------------------------------------------------------------------------------
\* Queue, entries and trie name the same sequences after any stores, evictions and
\* look-ups: every entry can still be evicted, and the trie has no dead branch, so
\* that it is bounded by what the queue is bounded by.
TrieAgrees ==
  /\ IsInjective(trieLru) /\ ToSet(trieLru) = holders /\ Len(trieLru) <= TrieMax
  /\ nodes = Ways(holders)

\* What is answered covers the beginning of what was asked, as far as it says.
TrieFits ==
  trieAnswer.at = "hit" =>
    Len(trieAnswer.kv) = trieAnswer.done /\ IsPrefix(trieAnswer.kv, trieAnswer.want)

================================================================================
