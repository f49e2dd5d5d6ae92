------------------------------ MODULE PagedCache ------------------------------
(***************************************************************************)
(* PagedCacheManager (vllm_mlx/paged_cache.py) and BlockAwarePrefixCache   *)
(* (vllm_mlx/prefix_cache.py): blocks of keys and values, shared by        *)
(* requests whose prompts begin alike, counted by reference.               *)
(*                                                                         *)
(* A prompt is a sequence of chunks, each what fits in one block; one that *)
(* does not fill its block is in Partial and ends the prompt.  What a      *)
(* block holds was computed for a chunk and for everything before it.      *)
(*                                                                         *)
(* The manager has a lock, the prefix cache on top of it has none:         *)
(* add_request fetches on the event loop, _cleanup_finished stores on the  *)
(* worker thread, and they interleave between two locked calls.  Block 0,  *)
(* which is never used, is left out.  So is the index of chain hashes:     *)
(* nothing in the program puts a block in it.                              *)
(***************************************************************************)
EXTENDS Integers, Sequences, FiniteSets, SequencesExt, Selections

CONSTANTS
  NBlocks,      \* blocks but for the null block
  CacheUsers,   \* request ids
  Chunks, Partial,
  Prompts,      \* the sequences requests are made of
  LegacyHash,   \* compute_block_hash of a chunk: of its tokens modulo 256
  PagedOps,     \* what callers use beside fetch and store:
                \* "release", "fork", "generate", "clear"
  MaxPagedClears     \* bound: how often the cache is cleared

Blocks == 1..NBlocks

ASSUME PagedAssumption ==
  /\ NBlocks \in Nat
  /\ Partial \subseteq Chunks
  /\ Prompts \subseteq Seq(Chunks)
  /\ \A p \in Prompts : \A i \in 1..(Len(p) - 1) : p[i] \notin Partial
  /\ LegacyHash \in [Chunks -> Chunks]
  /\ MaxPagedClears \in Nat

VARIABLES
  \* PagedCacheManager
  freeQueue,        \* free_block_queue
  refCount,         \* ref_count of each block
  allocated,   \* keys of allocated_blocks
  cacheData,        \* cache_data: the chunks it was computed for, <<>> is None
  hashToBlock, \* hash_to_block
  tables,      \* request_tables: the blocks, and how many chunks they cover
  \* BlockAwarePrefixCache
  entries,     \* keys of _request_tables
  prefixIndex,       \* _prefix_index: the blocks of a sequence of chunks
  \* the callers
  fetchCall, storeCall, cowCall,   \* what is under way on either thread
  asked,       \* each request's prompt
  got,         \* what fetch_cache and reconstruct_cache gave it
  anyReleased, pagedTorn, pagedClears

managerVars == <<freeQueue, refCount, allocated, cacheData, hashToBlock, tables>>
prefixVars == <<entries, prefixIndex>>
callerVars == <<fetchCall, storeCall, cowCall, asked, got>>
ghostVars == <<anyReleased, pagedTorn, pagedClears>>
pagedVars == <<managerVars, prefixVars, callerVars, ghostVars>>

NoCall == [at |-> "none"]
NoTable == [ids |-> <<>>, num |-> 0]
NotAsked == [at |-> "new"]
PagedMiss == [at |-> "miss"]

PagedInit ==
  /\ freeQueue = [i \in 1..NBlocks |-> i]
  /\ refCount = [b \in Blocks |-> 0] /\ allocated = {}
  /\ cacheData = [b \in Blocks |-> <<>>]
  /\ hashToBlock = <<>> /\ tables = <<>>
  /\ entries = {} /\ prefixIndex = <<>>
  /\ fetchCall = NoCall /\ storeCall = NoCall /\ cowCall = NoCall
  /\ asked = [r \in CacheUsers |-> <<>>]
  /\ got = [r \in CacheUsers |-> NotAsked]
  /\ anyReleased = FALSE /\ pagedTorn = FALSE /\ pagedClears = 0

Occurrences(b, ids) == Cardinality({i \in DOMAIN ids : ids[i] = b})

\* The lock is an RLock held during all of get_blocks_for_generation.
LockFree == cowCall = NoCall

\* Updating a dictionary.
DictWith(d, k, v) == [x \in DOMAIN d \cup {k} |-> IF x = k THEN v ELSE d[x]]
DictWithout(d, k) == [x \in DOMAIN d \ {k} |-> d[x]]

--------------------------------------------------------------------------------
(* fetch_cache() and reconstruct_cache(), on the event loop.                 *)

\* find_cached_block: by the hash of the chunk alone.
FoundChunk(c) ==
  /\ c \notin Partial
  /\ LegacyHash[c] \in DOMAIN hashToBlock
  /\ hashToBlock[LegacyHash[c]] \in allocated

\* find_shared_prefix: how many chunks, one after the other, are found.
SharedLength(p) ==
  CHOOSE n \in 0..Len(p) :
    /\ \A i \in 1..n : FoundChunk(p[i])
    /\ n < Len(p) => ~FoundChunk(p[n + 1])

FetchFind(r) ==
  /\ fetchCall = NoCall /\ LockFree /\ got[r] = NotAsked
  /\ \E p \in Prompts :
       LET n == SharedLength(p)
       IN /\ asked' = [asked EXCEPT ![r] = p]
          /\ IF n > 0
             THEN /\ tables' = DictWith(tables, r, NoTable)
                  /\ fetchCall' = [at |-> "take", r |-> r, n |-> n,
                               ids |-> [i \in 1..n |-> hashToBlock[LegacyHash[p[i]]]]]
             ELSE /\ fetchCall' = [at |-> "index", r |-> r]
                  /\ UNCHANGED tables
  /\ UNCHANGED <<freeQueue, refCount, allocated, cacheData, hashToBlock, prefixVars, storeCall, cowCall, got,
                 ghostVars>>

\* _find_best_prefix_match: the longest indexed sequence of full chunks.
FetchIndex ==
  /\ fetchCall.at = "index" /\ LockFree
  /\ LET r == fetchCall.r
         p == asked[r]
         known == {n \in 1..Len(p) : p[n] \notin Partial
                                       /\ SubSeq(p, 1, n) \in DOMAIN prefixIndex}
     IN IF known = {}
        THEN /\ fetchCall' = NoCall /\ got' = [got EXCEPT ![r] = PagedMiss]
             /\ UNCHANGED tables
        ELSE LET n == CHOOSE n \in known : \A k \in known : k <= n
             IN /\ tables' = DictWith(tables, r, NoTable)
                /\ fetchCall' = [at |-> "take", r |-> r, n |-> n,
                             ids |-> prefixIndex[SubSeq(p, 1, n)]]
                /\ UNCHANGED got
  /\ UNCHANGED <<freeQueue, refCount, allocated, cacheData, hashToBlock, prefixVars, storeCall, cowCall, asked,
                 ghostVars>>

\* increment_ref and the look at allocated_blocks, for one block.  The table is
\* this fetch's: when the cache was cleared meanwhile it is in no dictionary.
FetchTake ==
  /\ fetchCall.at = "take" /\ fetchCall.ids # <<>> /\ LockFree
  /\ LET b == Head(fetchCall.ids)
         r == fetchCall.r
     IN /\ IF b \in allocated
           THEN /\ refCount' = [refCount EXCEPT ![b] = @ + 1]
                /\ tables' = IF r \in DOMAIN tables
                             THEN [tables EXCEPT ![r].ids = Append(@, b), ![r].num = @ + 1]
                             ELSE tables
           ELSE UNCHANGED <<refCount, tables>>
  /\ fetchCall' = [fetchCall EXCEPT !.ids = Tail(@)]
  /\ UNCHANGED <<freeQueue, allocated, cacheData, hashToBlock, prefixVars, storeCall, cowCall, asked, got,
                 ghostVars>>

\* reconstruct_cache: every block must be there and have data.
FetchEnds ==
  /\ fetchCall.at = "take" /\ fetchCall.ids = <<>>
  /\ LET r == fetchCall.r
         t == IF r \in DOMAIN tables THEN tables[r] ELSE NoTable
         whole == t.ids # <<>> /\ \A i \in DOMAIN t.ids : /\ t.ids[i] \in allocated
                                                        /\ cacheData[t.ids[i]] # <<>>
     IN got' = [got EXCEPT ![r] =
                  IF whole
                  THEN [at |-> "hit", cached |-> t.num, done |-> fetchCall.n,
                        kv |-> [i \in DOMAIN t.ids |-> cacheData[t.ids[i]]]]
                  ELSE PagedMiss]
  /\ fetchCall' = NoCall
  /\ UNCHANGED <<managerVars, prefixVars, storeCall, cowCall, asked, ghostVars>>

--------------------------------------------------------------------------------
(* store_cache(), on the worker thread, for a request that has finished.     *)

\* Prompt and output: the full chunks of the prompt stay.
ExtendsPrompt(p, all) ==
  /\ Len(p) <= Len(all)
  /\ \A i \in DOMAIN p : p[i] \in Partial \/ p[i] = all[i]

PagedStoreBegins(r) ==
  /\ storeCall = NoCall /\ LockFree /\ got[r].at \in {"hit", "miss"} /\ r \notin entries
  /\ \E all \in Prompts :
       /\ ExtendsPrompt(asked[r], all)
       /\ tables' = IF r \in DOMAIN tables THEN tables ELSE DictWith(tables, r, NoTable)
       /\ storeCall' = IF tables'[r].num >= Len(all) THEN NoCall
                   ELSE [at |-> "find", r |-> r, all |-> all, next |-> tables'[r].num + 1]
       /\ got' = IF storeCall' = NoCall THEN [got EXCEPT ![r] = [at |-> "over"]] ELSE got
  /\ UNCHANGED <<freeQueue, refCount, allocated, cacheData, hashToBlock, prefixVars, fetchCall, cowCall, asked,
                 ghostVars>>

NextChunk == storeCall.all[storeCall.next]

AddToTable(b) ==
  tables' = IF storeCall.r \in DOMAIN tables
            THEN [tables EXCEPT ![storeCall.r].ids = Append(@, b), ![storeCall.r].num = @ + 1]
            ELSE tables

\* Mutant: a block that is reused is not counted once more.
StoreReuses_Uncounted ==
  /\ storeCall.at = "find" /\ storeCall.next <= Len(storeCall.all) /\ FoundChunk(NextChunk) /\ LockFree
  /\ AddToTable(hashToBlock[LegacyHash[NextChunk]])
  /\ storeCall' = [storeCall EXCEPT !.next = @ + 1]
  /\ UNCHANGED <<freeQueue, refCount, allocated, cacheData, hashToBlock, prefixVars, fetchCall, cowCall, asked,
                 got, ghostVars>>

\* A full chunk that is known already: find_cached_block, increment_ref.
StoreReuses ==
  /\ storeCall.at = "find" /\ storeCall.next <= Len(storeCall.all) /\ FoundChunk(NextChunk) /\ LockFree
  /\ LET b == hashToBlock[LegacyHash[NextChunk]]
     IN /\ refCount' = [refCount EXCEPT ![b] = @ + 1]
        /\ AddToTable(b)
  /\ storeCall' = [storeCall EXCEPT !.next = @ + 1]
  /\ UNCHANGED <<freeQueue, allocated, cacheData, hashToBlock, prefixVars, fetchCall, cowCall, asked, got,
                 ghostVars>>

AfterAllocate == Tail(freeQueue)

\* Mutant: the slice ends one block too late.
BlockSlice_Late ==
  SubSeq(storeCall.all, 1, storeCall.next + (IF storeCall.next < Len(storeCall.all) THEN 1 ELSE 0))

BlockSlice == SubSeq(storeCall.all, 1, storeCall.next)

\* allocate_block, then the tensors, then register_block_hash.  The slice may be
\* missing (the last token has no keys and values yet): cache_data stays.
StoreAllocates ==
  /\ storeCall.at = "find" /\ storeCall.next <= Len(storeCall.all) /\ ~FoundChunk(NextChunk) /\ LockFree
  /\ freeQueue # <<>>
  /\ LET b == Head(freeQueue)
     IN /\ freeQueue' = AfterAllocate
        /\ refCount' = [refCount EXCEPT ![b] = 1] /\ allocated' = allocated \cup {b}
        /\ \/ cacheData' = [cacheData EXCEPT ![b] = BlockSlice]
           \/ storeCall.next = Len(storeCall.all) /\ UNCHANGED cacheData
        /\ hashToBlock' = IF NextChunk \in Partial THEN hashToBlock
                          ELSE DictWith(hashToBlock, LegacyHash[NextChunk], b)
        /\ AddToTable(b)
  /\ storeCall' = [storeCall EXCEPT !.next = @ + 1]
  /\ UNCHANGED <<prefixVars, fetchCall, cowCall, asked, got, ghostVars>>

\* No block is left: handle_memory_pressure looks at the free queue, in which
\* there is nothing, and the loop ends.  _update_prefix_index names the blocks.
StoreEnds ==
  /\ storeCall.at = "find"
  /\ storeCall.next <= Len(storeCall.all) => freeQueue = <<>> /\ ~FoundChunk(NextChunk)
  /\ LET r == storeCall.r
         t == IF r \in DOMAIN tables THEN tables[r] ELSE NoTable
         named == {SubSeq(storeCall.all, 1, i) : i \in DOMAIN t.ids}
     IN /\ prefixIndex' = [p \in DOMAIN prefixIndex \cup named |->
                       IF p \in named THEN SubSeq(t.ids, 1, Len(p)) ELSE prefixIndex[p]]
        /\ entries' = entries \cup {r}
        /\ got' = [got EXCEPT ![r] = [at |-> "over"]]
  /\ storeCall' = NoCall
  /\ UNCHANGED <<managerVars, fetchCall, cowCall, asked, ghostVars>>

--------------------------------------------------------------------------------
(* What callers of the two classes may do besides.                           *)

\* free_block for each of the blocks, in their order.
LastUse(ids) ==
  LET last == {i \in DOMAIN ids : Occurrences(ids[i], SubSeq(ids, 1, i)) = refCount[ids[i]]}
      places == Selected([i \in DOMAIN ids |-> i], last)
  IN [k \in DOMAIN places |-> ids[places[k]]]

\* Mutant: a block goes back to the queue while somebody refers to it.
ReturnedBlocks_Shared(ids) == ToSet(ids)

ReturnedBlocks(ids) == {b \in ToSet(ids) : refCount[b] <= Occurrences(b, ids)}

\* release_cache: delete_block_table under the lock.
ReleaseCache(r) ==
  /\ "release" \in PagedOps /\ LockFree
  /\ r \in entries /\ r \in DOMAIN tables /\ (fetchCall # NoCall => fetchCall.r # r)
  /\ LET ids == tables[r].ids
     IN /\ refCount' = [b \in Blocks |-> IF b \in ReturnedBlocks(ids) THEN 0
                                    ELSE refCount[b] - Occurrences(b, ids)]
        /\ allocated' = allocated \ ReturnedBlocks(ids)
        /\ freeQueue' = freeQueue \o LastUse(ids)
  /\ tables' = DictWithout(tables, r) /\ entries' = entries \ {r}
  /\ anyReleased' = TRUE
  /\ UNCHANGED <<cacheData, hashToBlock, prefixIndex, callerVars, pagedTorn, pagedClears>>

\* fork_cache: the table is copied and its blocks counted.
ForkCache(r, q) ==
  /\ "fork" \in PagedOps /\ LockFree
  /\ r \in entries /\ r \in DOMAIN tables /\ got[q] = NotAsked
  /\ fetchCall = NoCall /\ storeCall = NoCall
  /\ refCount' = [b \in Blocks |-> IF b \in allocated
                              THEN refCount[b] + Occurrences(b, tables[r].ids) ELSE refCount[b]]
  /\ tables' = DictWith(tables, q, tables[r]) /\ entries' = entries \cup {q}
  /\ got' = [got EXCEPT ![q] = [at |-> "over"]]
  /\ UNCHANGED <<freeQueue, allocated, cacheData, hashToBlock, prefixIndex, fetchCall, storeCall, cowCall, asked,
                 ghostVars>>

\* get_blocks_for_generation: one block after the other, under the lock.
CowBegins(r) ==
  /\ "generate" \in PagedOps /\ LockFree /\ r \in entries /\ r \in DOMAIN tables
  /\ fetchCall = NoCall /\ storeCall = NoCall
  /\ cowCall' = [at |-> "cow", r |-> r, i |-> 1]
  /\ UNCHANGED <<managerVars, prefixVars, fetchCall, storeCall, asked, got, ghostVars>>

\* A shared block is copied if there is one left, else it is used as it is.
CowStep ==
  /\ cowCall.at = "cow" /\ cowCall.i <= Len(tables[cowCall.r].ids)
  /\ LET b == tables[cowCall.r].ids[cowCall.i]
         n == Head(freeQueue)
     IN IF b \in allocated /\ refCount[b] > 1 /\ freeQueue # <<>>
        THEN /\ freeQueue' = AfterAllocate
             /\ refCount' = [refCount EXCEPT ![n] = 1, ![b] = @ - 1]
             /\ allocated' = allocated \cup {n}
             /\ cacheData' = [cacheData EXCEPT ![n] = cacheData[b]]
             /\ tables' = [tables EXCEPT ![cowCall.r].ids[cowCall.i] = n]
        ELSE UNCHANGED <<freeQueue, refCount, allocated, cacheData, tables>>
  /\ cowCall' = [cowCall EXCEPT !.i = @ + 1]
  /\ UNCHANGED <<hashToBlock, prefixVars, fetchCall, storeCall, asked, got, ghostVars>>

CowEnds ==
  /\ cowCall.at = "cow" /\ cowCall.i > Len(tables[cowCall.r].ids)
  /\ cowCall' = NoCall
  /\ UNCHANGED <<managerVars, prefixVars, fetchCall, storeCall, asked, got, ghostVars>>

\* clear(), of both classes, from the recovery of a corrupt cache or from a request to the
\* server; a fetch or a store that is under way goes on with the ids it has.
ClearPaged ==
  /\ "clear" \in PagedOps /\ LockFree /\ pagedClears < MaxPagedClears
  /\ freeQueue' = [i \in 1..NBlocks |-> i]
  /\ refCount' = [b \in Blocks |-> 0] /\ allocated' = {}
  /\ cacheData' = [b \in Blocks |-> <<>>]
  /\ hashToBlock' = <<>> /\ tables' = <<>> /\ entries' = {} /\ prefixIndex' = <<>>
  /\ pagedTorn' = (pagedTorn \/ fetchCall # NoCall \/ storeCall # NoCall)
  /\ pagedClears' = pagedClears + 1
  /\ UNCHANGED <<callerVars, anyReleased>>

PagedNext ==
  \/ \E r \in CacheUsers : FetchFind(r) \/ PagedStoreBegins(r) \/ ReleaseCache(r) \/ CowBegins(r)
  \/ \E r, q \in CacheUsers : ForkCache(r, q)
  \/ FetchIndex \/ FetchTake \/ FetchEnds
  \/ StoreReuses \/ StoreAllocates \/ StoreEnds
  \/ CowStep \/ CowEnds
  \/ ClearPaged

PagedSpec == PagedInit /\ [][PagedNext]_pagedVars

--------------------------------------------------------------------------------
PagedTypeOK ==
  /\ freeQueue \in Seq(Blocks) /\ allocated \subseteq Blocks
  /\ refCount \in [Blocks -> Int] /\ cacheData \in [Blocks -> Seq(Chunks)]
  /\ \A h \in DOMAIN hashToBlock : hashToBlock[h] \in Blocks
  /\ \A r \in DOMAIN tables : tables[r].ids \in Seq(Blocks) /\ tables[r].num \in Nat
  /\ entries \subseteq CacheUsers
  /\ \A p \in DOMAIN prefixIndex : prefixIndex[p] \in Seq(Blocks)
  /\ \A r \in CacheUsers : got[r].at \in {"new", "hit", "miss", "over"}

\* A block is in the free queue, once, or allocated and referred to: never both
\* and never neither, whatever happens in the middle of a fetch or a store.
BlocksConserved ==
  /\ IsInjective(freeQueue)
  /\ ToSet(freeQueue) = Blocks \ allocated
  /\ \A b \in Blocks : b \in allocated <=> refCount[b] > 0

\* The count of a block is the number of places in block tables that name it: too
\* high and it is lost for good, too low and it is given away while in use.
PlacesIn(t, b) == UNION {{r} \X {i \in DOMAIN t[r].ids : t[r].ids[i] = b} : r \in DOMAIN t}
RefsExact == ~pagedTorn => \A b \in Blocks : refCount[b] = Cardinality(PlacesIn(tables, b))

\* What a request is given was computed for its own prompt, and the tokens that
\* are left begin where it ends.  Not so once a block was given back and used
\* again (its old hash still names it), or when a clear came in the middle.
FetchedFits ==
  ~anyReleased /\ ~pagedTorn =>
    \A r \in CacheUsers : got[r].at = "hit" =>
      /\ got[r].cached = got[r].done /\ Len(got[r].kv) = got[r].done
      /\ \A i \in DOMAIN got[r].kv : got[r].kv[i] = SubSeq(asked[r], 1, i)

================================================================================
