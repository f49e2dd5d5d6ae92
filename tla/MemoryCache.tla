------------------------------ MODULE MemoryCache ------------------------------
(***************************************************************************)
(* MemoryAwarePrefixCache (vllm_mlx/memory_cache.py): keys and values of   *)
(* whole token sequences under a budget of bytes, the least recently used  *)
(* dropped first, with a sorted list of the keys by which a prefix, an     *)
(* extension or a neighbour of a prompt is found.                          *)
(*                                                                         *)
(* The class has no lock.  add_request fetches and the HTTP handlers clear *)
(* on the event loop; the scheduler's worker thread stores.  What touches  *)
(* _entries, _current_memory and _sorted_keys in turn is a step each: the  *)
(* interpreter may switch threads in between.                              *)
(*                                                                         *)
(* The entries outlive the engine: save_to_disk writes two files for each  *)
(* entry and an index at the end, load_from_disk reads them back.          *)
(*                                                                         *)
(* A token takes one unit of memory.  kv is [of, off]: computed for the    *)
(* sequence "of", its first "off" positions are there.                     *)
(***************************************************************************)
EXTENDS Integers, Sequences, FiniteSets, Functions, SequencesExt, Selections

CONSTANTS
  CacheKeys,     \* the token sequences of prompts and of whole generations
  MemMax,        \* _max_memory
  MemEntries,    \* max_entries
  Hybrid,        \* some layers are recurrent: they cannot be trimmed
  SpillSize,     \* spill_queue_size
  StoreKinds,    \* "prompt", "prefill" (chunked prefill is on), "whole"
  MaxMemClears,  \* bound: clear() while the engine serves
  MaxMemLives    \* bound: how often the server is started

ASSUME MemoryAssumption ==
  /\ CacheKeys \subseteq Seq(Nat \ {0}) /\ <<>> \notin CacheKeys
  /\ MemMax \in Nat /\ MemEntries \in Nat \ {0} /\ SpillSize \in Nat
  /\ Hybrid \in BOOLEAN
  /\ StoreKinds \subseteq {"prompt", "prefill", "whole"}
  /\ MaxMemClears \in Nat /\ MaxMemLives \in Nat

VARIABLES
  lru,       \* the keys of _entries, the least recently used first
  kvOf,        \* what is stored under each of them
  memory,      \* _current_memory
  sortedKeys,  \* _sorted_keys, without what its order says already
  fetching,    \* add_request on the event loop
  storing,     \* store() or remove() on the worker thread
  hasTier,     \* there is an SSD tier, to which
  spillQueue,  \* _evict_lru hands what it evicts
  life,        \* "starting", "serving", "saving" or "down"
  lives, memClears,
  memTorn,     \* a clear came in the middle of a store
  saveTorn,    \* the process died while it saved over an older save
  saved,       \* entry_<i>.safetensors, entry_<i>_tokens.bin and index.json
  saving       \* the entry that save_to_disk is at

ramVars == <<lru, kvOf, memory, sortedKeys>>
saveVars == <<hasTier, life, lives, saved, saving, saveTorn>>
memoryVars == <<ramVars, fetching, storing, spillQueue, saveVars, memClears, memTorn>>

MemIdle == [at |-> "idle"]
NoDisk == [kvs |-> <<>>, tokens |-> <<>>, index |-> <<>>]

MemoryInit ==
  /\ lru = <<>> /\ kvOf = <<>> /\ memory = 0 /\ sortedKeys = {}
  /\ fetching = MemIdle /\ storing = MemIdle /\ spillQueue = <<>>
  /\ hasTier \in BOOLEAN
  /\ life = "starting" /\ lives = 1 /\ memClears = 0 /\ memTorn = FALSE
  /\ saved = NoDisk /\ saving = 0 /\ saveTorn = FALSE

KvCost(kv) == kv.off
KvCovered(kv) == SubSeq(kv.of, 1, kv.off)
\* Mutant: an entry longer than what it is used for is given as it is.
TrimmedKv_Not(kv, n) == kv

TrimmedKv(kv, n) == [kv EXCEPT !.off = IF n > @ THEN 0 ELSE @ - n]
LruWithout(k) == Selected(lru, ToSet(lru) \ {k})
MoveToEnd(k) == lru' = Append(LruWithout(k), k)
SetEntry(k, kv) == kvOf' = [x \in DOMAIN kvOf \cup {k} |-> IF x = k THEN kv ELSE kvOf[x]]
UnsetEntry(k) == kvOf' = [x \in DOMAIN kvOf \ {k} |-> kvOf[x]]

--------------------------------------------------------------------------------
(* fetch() *)

KeyBefore(s, t) ==   \* the order of tuples
  \/ IsStrictPrefix(s, t)
  \/ \E i \in DOMAIN s \cap DOMAIN t :
       s[i] < t[i] /\ \A j \in 1..(i - 1) : s[j] = t[j]

CommonLength(s, t) ==
  CHOOSE n \in 0..Len(s) :
    /\ n <= Len(t) /\ SubSeq(s, 1, n) = SubSeq(t, 1, n)
    /\ n < Len(s) /\ n < Len(t) => s[n + 1] # t[n + 1]

StoredPrefixes(k) == {s \in sortedKeys : IsStrictPrefix(s, k)}
StoredExtensions(k) == {s \in sortedKeys : IsPrefix(k, s)}
LongestOf(S) ==
  CHOOSE s \in S : \A t \in S : Len(t) >= Len(s) => t = s \/ (Len(t) = Len(s) /\ KeyBefore(s, t))

\* The keys around the place where k would be.
Neighbours(k) ==
  LET below == {t \in sortedKeys : KeyBefore(t, k)}
      above == {t \in sortedKeys : KeyBefore(k, t)}
  IN {s \in below : \A t \in below \ {s} : KeyBefore(t, s)}
     \cup {s \in above : \A t \in above \ {s} : KeyBefore(s, t)}

\* Which entry serves k, what is cut off its end, and how many tokens of k need
\* no more work: extension, prefix, then the longest beginning in common.
MatchFor(k) ==
  LET near == {s \in Neighbours(k) : CommonLength(s, k) > 0}
      best == {s \in near : \A t \in near : CommonLength(t, k) <= CommonLength(s, k)}
      nearest == IF \E s \in best : KeyBefore(s, k) THEN CHOOSE s \in best : KeyBefore(s, k)
                 ELSE CHOOSE s \in best : TRUE
  IN CASE k \in DOMAIN kvOf -> [from |-> k, cut |-> 0, done |-> Len(k), rest |-> FALSE]
     [] k \notin DOMAIN kvOf /\ StoredExtensions(k) # {} /\ ~Hybrid ->
          LET s == LongestOf(StoredExtensions(k))
          IN [from |-> s, cut |-> Len(s) - Len(k), done |-> Len(k), rest |-> FALSE]
     [] k \notin DOMAIN kvOf /\ (StoredExtensions(k) = {} \/ Hybrid) /\ StoredPrefixes(k) # {} ->
          LET s == LongestOf(StoredPrefixes(k))
          IN [from |-> s, cut |-> 0, done |-> Len(s), rest |-> TRUE]
     [] OTHER ->
          IF near = {} \/ Hybrid THEN [from |-> <<>>]
          ELSE [from |-> nearest, cut |-> Len(nearest) - CommonLength(nearest, k),
                done |-> CommonLength(nearest, k), rest |-> TRUE]

\* The entries the scans look at: a key of the index that has none is a KeyError.
Looked(k) ==
  {LongestOf(S) : S \in {StoredPrefixes(k)} \ {{}}}
  \cup {s \in StoredExtensions(k) : \A t \in StoredExtensions(k) : KeyBefore(t, s) => Len(t) < Len(s)}
  \cup ({MatchFor(k).from} \ {<<>>})

FetchLooks(k) ==
  /\ life = "serving" /\ fetching.at # "found"
  /\ LET m == MatchFor(k)
     IN fetching' =
          IF k \notin DOMAIN kvOf /\ ~(Looked(k) \subseteq DOMAIN kvOf)
          THEN [at |-> "raised", want |-> k]
          ELSE IF m.from = <<>> THEN [at |-> "miss", want |-> k]
          ELSE [at |-> "found", want |-> k, from |-> m.from, done |-> m.done,
                rest |-> m.rest, kv |-> TrimmedKv(kvOf[m.from], m.cut)]
  /\ UNCHANGED <<ramVars, storing, spillQueue, saveVars, memClears, memTorn>>

\* move_to_end: a KeyError when the entry has gone meanwhile.
FetchReturns ==
  /\ fetching.at = "found"
  /\ IF fetching.from \in ToSet(lru)
     THEN MoveToEnd(fetching.from) /\ fetching' = [fetching EXCEPT !.at = "hit"]
     ELSE UNCHANGED lru /\ fetching' = [at |-> "raised", want |-> fetching.want]
  /\ UNCHANGED <<kvOf, memory, sortedKeys, storing, spillQueue, saveVars, memClears, memTorn>>

--------------------------------------------------------------------------------
(* store() and remove(), on the worker thread.                               *)

\* The prompt alone is stored without its last position; what chunked prefill has
\* so far, and prompt and output at the end, are whole.
HeldKv(k, kind) == [of |-> k, off |-> IF kind = "prompt" THEN Len(k) - 1 ELSE Len(k)]

Known(k) == k \in DOMAIN kvOf

TooLarge(kv) == KvCost(kv) > MemMax

StoreEntry(k, kv, evict) ==
  IF Known(k) THEN MoveToEnd(k) /\ UNCHANGED storing
  ELSE /\ ~TooLarge(kv) /\ UNCHANGED lru
       /\ storing' = [at |-> "prefixes", key |-> k, kv |-> kv,
                      doomed |-> IF evict THEN StoredPrefixes(k) ELSE {}]

StoreBegins(k, kind) ==
  /\ life = "serving" /\ storing = MemIdle /\ kind \in StoreKinds
  /\ StoreEntry(k, HeldKv(k, kind), kind = "prefill")
  /\ UNCHANGED <<kvOf, memory, sortedKeys, fetching, spillQueue, saveVars, memClears, memTorn>>

\* An entry leaves _entries and its bytes the sum; its key is still in the index.
PopEntry(k, next) ==
  /\ lru' = LruWithout(k)
  /\ UnsetEntry(k)
  /\ memory' = memory - KvCost(kvOf[k])
  /\ storing' = next

\* store() goes on, when the index has lost the key too.
Popped(k, spill, doomed) ==
  [at |-> "unindex", victim |-> k, spill |-> spill, doomed |-> doomed,
   key |-> storing.key, kv |-> storing.kv]

StoreDropsPrefix ==
  /\ storing.at = "prefixes" /\ storing.doomed # {}
  /\ LET k == CHOOSE s \in storing.doomed : \A t \in storing.doomed : Len(t) <= Len(s)
     IN IF k \in DOMAIN kvOf
        THEN PopEntry(k, Popped(k, <<>>, storing.doomed \ {k}))
        ELSE storing' = MemIdle /\ UNCHANGED ramVars
  /\ UNCHANGED <<sortedKeys, fetching, spillQueue, saveVars, memClears, memTorn>>

NeedsRoom == memory + KvCost(storing.kv) > MemMax \/ Len(lru) >= MemEntries

StoreEvicts ==
  /\ storing.at = "prefixes" /\ storing.doomed = {} /\ NeedsRoom /\ lru # <<>>
  /\ LET k == Head(lru)
     IN PopEntry(k, Popped(k, <<[key |-> k, kv |-> kvOf[k]]>>, {}))
  /\ UNCHANGED <<sortedKeys, fetching, spillQueue, saveVars, memClears, memTorn>>

Unindexed == sortedKeys \ {storing.victim}

\* enqueue_spill: an evicted entry is dropped when the queue is full.
EnqueueSpill(evicted) ==
  spillQueue' = IF hasTier /\ Len(spillQueue) < SpillSize THEN spillQueue \o evicted
                ELSE spillQueue

\* _remove_from_sorted, and the entry goes to the SSD tier if it was evicted.
StoreUnindexes ==
  /\ storing.at = "unindex"
  /\ sortedKeys' = Unindexed
  /\ EnqueueSpill(storing.spill)
  /\ storing' = IF storing.kv.off = -1 THEN MemIdle   \* remove(): nothing more to do
                ELSE [at |-> "prefixes", key |-> storing.key, kv |-> storing.kv,
                      doomed |-> storing.doomed]
  /\ UNCHANGED <<lru, kvOf, memory, fetching, saveVars, memClears, memTorn>>

StoreInserts ==
  /\ storing.at = "prefixes" /\ storing.doomed = {} /\ ~(NeedsRoom /\ lru # <<>>)
  /\ SetEntry(storing.key, storing.kv) /\ lru' = Append(lru, storing.key)
  /\ storing' = [storing EXCEPT !.at = "account"]
  /\ UNCHANGED <<memory, sortedKeys, fetching, spillQueue, saveVars, memClears, memTorn>>

StoreAccounts ==
  /\ storing.at = "account"
  /\ memory' = memory + KvCost(storing.kv)
  /\ storing' = [storing EXCEPT !.at = "index"]
  /\ UNCHANGED <<lru, kvOf, sortedKeys, fetching, spillQueue, saveVars, memClears, memTorn>>

StoreIndexes ==
  /\ storing.at = "index"
  /\ sortedKeys' = sortedKeys \cup {storing.key}
  /\ storing' = MemIdle
  /\ UNCHANGED <<lru, kvOf, memory, fetching, spillQueue, saveVars, memClears, memTorn>>

\* Chunked prefill removes what it had saved for the request before.
RemoveEntry(k) ==
  /\ life = "serving" /\ storing = MemIdle /\ "prefill" \in StoreKinds /\ k \in DOMAIN kvOf
  /\ PopEntry(k, [at |-> "unindex", victim |-> k, spill |-> <<>>, doomed |-> {},
             key |-> k, kv |-> [of |-> k, off |-> -1]])
  /\ UNCHANGED <<sortedKeys, fetching, spillQueue, saveVars, memClears, memTorn>>

\* clear(), from DELETE /v1/cache or from the recovery of a corrupt cache.
ClearMemory ==
  /\ life = "serving" /\ memClears < MaxMemClears
  /\ lru' = <<>> /\ kvOf' = <<>> /\ memory' = 0 /\ sortedKeys' = {}
  /\ memClears' = memClears + 1
  /\ memTorn' = (memTorn \/ storing # MemIdle)
  /\ UNCHANGED <<fetching, storing, spillQueue, saveVars>>

--------------------------------------------------------------------------------
(* save_to_disk() before the engine stops, load_from_disk() after it starts. *)

StopBegins ==
  /\ life = "serving" /\ storing = MemIdle /\ fetching.at # "found"
  /\ IF lru = <<>> THEN life' = "down" /\ UNCHANGED saving
     ELSE life' = "saving" /\ saving' = 1
  /\ fetching' = MemIdle
  /\ UNCHANGED <<ramVars, storing, spillQueue, lives, saved, hasTier, saveTorn, memClears, memTorn>>

PutAt(s, i, x) == [j \in 1..(IF i > Len(s) THEN i ELSE Len(s)) |-> IF j = i THEN x ELSE s[j]]

SaveKv ==
  /\ life = "saving" /\ saving \in 1..Len(lru)
  /\ saved' = [saved EXCEPT !.kvs = PutAt(@, saving, kvOf[lru[saving]])]
  /\ saving' = -saving
  /\ UNCHANGED <<ramVars, fetching, storing, spillQueue, life, lives, hasTier, saveTorn, memClears, memTorn>>

SaveTokens ==
  /\ life = "saving" /\ saving < 0
  /\ saved' = [saved EXCEPT !.tokens = PutAt(@, -saving, lru[-saving])]
  /\ saving' = 1 - saving
  /\ UNCHANGED <<ramVars, fetching, storing, spillQueue, life, lives, hasTier, saveTorn, memClears, memTorn>>

SaveIndex ==
  /\ life = "saving" /\ saving > Len(lru)
  /\ saved' = [saved EXCEPT !.index = [i \in DOMAIN lru |-> Len(lru[i])]]
  /\ life' = "down" /\ saving' = 0
  /\ UNCHANGED <<ramVars, fetching, storing, spillQueue, lives, hasTier, saveTorn, memClears, memTorn>>

DiesSaving ==
  /\ life = "saving"
  /\ life' = "down" /\ saving' = 0
  /\ saveTorn' = (saveTorn \/ saved.index # <<>>)
  /\ UNCHANGED <<ramVars, fetching, storing, spillQueue, lives, hasTier, saved, memClears, memTorn>>

\* A new process: nothing in RAM, nothing waits for the SSD tier.
MemRestarts ==
  /\ life = "down" /\ lives < MaxMemLives
  /\ lru' = <<>> /\ kvOf' = <<>> /\ memory' = 0 /\ sortedKeys' = {}
  /\ life' = "starting" /\ lives' = lives + 1 /\ spillQueue' = <<>>
  /\ UNCHANGED <<fetching, storing, saved, saving, hasTier, saveTorn, memClears, memTorn>>

\* The tokens are as many as the index says; a file with fewer is passed over.
Loadable == {i \in DOMAIN saved.index : Len(saved.tokens[i]) >= saved.index[i]}
LoadKey(i) == SubSeq(saved.tokens[i], 1, saved.index[i])

LoadCosts == [i \in DOMAIN saved.index |-> KvCost(saved.kvs[i])]

\* The entries in turn until one does not fit; max_entries is not looked at.  Of files
\* that name the same sequence, those of two saves, the last is kept and all are counted.
LoadDisk ==
  /\ life = "starting"
  /\ LET fit == {i \in Loadable : SumFunctionOnSet(LoadCosts, 1..i \cap Loadable) <= MemMax}
         first == {i \in fit : \A j \in fit : LoadKey(j) = LoadKey(i) => i <= j}
         last == {i \in fit : \A j \in fit : LoadKey(j) = LoadKey(i) => j <= i}
         loaded == Selected([i \in DOMAIN saved.index |-> i], first)
     IN /\ lru' = [j \in DOMAIN loaded |-> LoadKey(loaded[j])]
        /\ kvOf' = [k \in {LoadKey(i) : i \in fit} |->
                      saved.kvs[CHOOSE i \in last : LoadKey(i) = k]]
        /\ sortedKeys' = {LoadKey(i) : i \in fit}
        /\ memory' = SumFunctionOnSet(LoadCosts, fit)
  /\ life' = "serving"
  /\ UNCHANGED <<fetching, storing, spillQueue, lives, saved, saving, hasTier, saveTorn, memClears, memTorn>>

MemoryNext ==
  \/ \E k \in CacheKeys : FetchLooks(k) \/ RemoveEntry(k)
  \/ \E k \in CacheKeys, kind \in StoreKinds : StoreBegins(k, kind)
  \/ FetchReturns
  \/ StoreDropsPrefix \/ StoreEvicts \/ StoreUnindexes
  \/ StoreInserts \/ StoreAccounts \/ StoreIndexes
  \/ ClearMemory
  \/ StopBegins \/ SaveKv \/ SaveTokens \/ SaveIndex \/ DiesSaving \/ MemRestarts \/ LoadDisk

MemorySpec == MemoryInit /\ [][MemoryNext]_memoryVars

--------------------------------------------------------------------------------
MemoryTypeOK ==
  /\ \A i \in DOMAIN lru : lru[i] \in CacheKeys
  /\ DOMAIN kvOf = ToSet(lru) /\ IsInjective(lru)
  /\ \A k \in DOMAIN kvOf : kvOf[k].of \in CacheKeys /\ kvOf[k].off \in Nat
  /\ memory \in Int /\ sortedKeys \subseteq CacheKeys
  /\ life \in {"starting", "serving", "saving", "down"}

\* Between two operations of the worker thread the index names the entries and
\* the sum is the sum of their sizes and within the budget, after any sequence of
\* stores, evictions, saves and loads.  (Not after a clear in the middle of one, nor when
\* an index names the files of two saves: a sequence may be loaded, and counted, twice.)
RamAgrees ==
  ~memTorn /\ ~saveTorn /\ storing = MemIdle =>
    /\ sortedKeys = DOMAIN kvOf
    /\ memory = SumFunction([k \in DOMAIN kvOf |-> KvCost(kvOf[k])])
    /\ memory <= MemMax /\ Len(lru) <= MemEntries

\* What a request is given was computed for the beginning of its own prompt, and
\* reaches no further than what the request leaves out.
FetchFits ==
  ~saveTorn /\ fetching.at = "hit" =>
    /\ IsPrefix(KvCovered(fetching.kv), fetching.want)
    /\ fetching.kv.off <= fetching.done

\* What is stored under a sequence was computed for it, across restarts too: not
\* when the process died in the middle of a save over an older one, for the files
\* of an entry have no more than its number in common.
EntriesFit ==
  ~saveTorn => \A k \in DOMAIN kvOf : IsPrefix(KvCovered(kvOf[k]), k)

\* The memory-aware cache: its index and its sum agree with its entries, an entry
\* holds the beginning of its key, and what a request is given is of its prompt.
MemorySound == RamAgrees /\ FetchFits /\ EntriesFit

================================================================================
