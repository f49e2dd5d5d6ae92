------------------------------ MODULE VisionCaches ------------------------------
(***************************************************************************)
(* The caches of requests with images: MLLMPrefixCacheManager              *)
(* (vllm_mlx/mllm_cache.py), used by generate() and chat() of              *)
(* models/mllm.py one call at a time, and the pixel cache of               *)
(* VisionEmbeddingCache (vllm_mlx/vision_embedding_cache.py), used by the  *)
(* multimodal batch generator.                                             *)
(*                                                                         *)
(* Both make their key of the prompt and of the images' hashes, sorted:    *)
(* which images there are and how often each.  The keys and values of an   *)
(* entry are the list of what was run through the model into them, one     *)
(* unit of memory each.  The other two dictionaries of                     *)
(* VisionEmbeddingCache work like the first and nothing fills them.        *)
(***************************************************************************)
EXTENDS Integers, Sequences, FiniteSets, Functions, SequencesExt, Selections

CONSTANTS
  ImageLists, VisionPrompts,   \* what requests are made of
  PixelMax,                    \* max_pixel_entries
  MmMax, MmBytes,              \* max_size, max_memory
  MaxMmGrows                   \* bound: how often an entry grows between two clears

ASSUME VisionAssumption ==
  /\ ImageLists \subseteq Seq(Nat) /\ <<>> \notin ImageLists
  /\ PixelMax \in Nat \ {0} /\ MmMax \in Nat \ {0} /\ MmBytes \in Nat /\ MaxMmGrows \in Nat

VARIABLES
  pixelCache,    \* _pixel_cache, the least recently used first
  mmCache,       \* _cache of the prefix cache
  mmMemory,      \* _current_memory
  visionUse,     \* what the last request was given
  mmGrows        \* how often an entry has grown while it was in use

visionVars == <<pixelCache, mmCache, mmMemory, visionUse, mmGrows>>

VisionInit ==
  /\ pixelCache = <<>> /\ mmCache = <<>> /\ mmMemory = 0
  /\ visionUse = [at |-> "none"] /\ mmGrows = 0

\* compute_images_hash
ImagesKey(images) ==
  [x \in ToSet(images) |-> Cardinality({i \in DOMAIN images : images[i] = x})]

VisionKey(images, prompt) == <<ImagesKey(images), prompt>>
EntryKey(e) == VisionKey(e.images, e.prompt)
EntryAt(cache, key) == {i \in DOMAIN cache : EntryKey(cache[i]) = key}
WithoutKey(cache, key) == Selected(cache, {e \in ToSet(cache) : EntryKey(e) # key})

\* _preprocess_request: the pixels of the images, from the cache or made and kept.
\* The oldest goes while the cache is full, also when the key is there already.
PixelRequest(images, prompt) ==
  LET key == VisionKey(images, prompt)
      hit == EntryAt(pixelCache, key)
      new == [images |-> images, prompt |-> prompt]
      room == IF Len(pixelCache) >= PixelMax THEN Tail(pixelCache) ELSE pixelCache
  IN /\ IF hit # {}
        THEN LET e == pixelCache[CHOOSE i \in hit : TRUE]
             IN /\ pixelCache' = Append(WithoutKey(pixelCache, key), e)
                /\ visionUse' = [at |-> "pixels", asked |-> new, given |-> e]
        ELSE /\ pixelCache' = Append(room, new)
             /\ visionUse' = [at |-> "pixels", asked |-> new, given |-> new]
     /\ UNCHANGED <<mmCache, mmMemory, mmGrows>>

EntrySize(e) == Len(e.kv)
Sizes == [i \in DOMAIN mmCache |-> EntrySize(mmCache[i])]

\* _evict_by_memory, then _evict_by_count: how many of the oldest go.
EvictedCount(size) ==
  LET enough(n) ==
        \/ n = Len(mmCache)
        \/ /\ mmMemory - SumFunctionOnSet(Sizes, 1..n) + size <= MmBytes
           /\ Len(mmCache) - n < MmMax
  IN CHOOSE n \in 0..Len(mmCache) : enough(n) /\ \A m \in 0..(n - 1) : ~enough(m)

\* Mutant: what is evicted for want of a place is not subtracted.
MemoryAfter_Kept(n, size) == mmMemory + size

MemoryAfter(n, size) == mmMemory + size - SumFunctionOnSet(Sizes, 1..n)

MmEntry(images, prompt, kv) == [images |-> images, prompt |-> prompt, kv |-> kv]

\* store(): an entry that is larger than the cache empties it and is stored.
MmStore(e) ==
  LET n == EvictedCount(EntrySize(e))
  IN /\ mmCache' = Append(SubSeq(mmCache, n + 1, Len(mmCache)), e)
     /\ mmMemory' = MemoryAfter(n, EntrySize(e))

\* generate(): the entry's own list is given to the model, which adds the prompt
\* and the output to it; on a miss the list is stored with both.
MmGenerate(images, prompt) ==
  LET key == VisionKey(images, prompt)
      hit == EntryAt(mmCache, key)
      new == [images |-> images, prompt |-> prompt]
  IN /\ IF hit # {}
        THEN LET e == mmCache[CHOOSE i \in hit : TRUE]
                 used == [e EXCEPT !.kv = @ \o <<"prompt", "output">>]
             IN /\ mmGrows < MaxMmGrows
                /\ mmCache' = Append(WithoutKey(mmCache, key), used)
                /\ visionUse' = [at |-> "kv", asked |-> new, given |-> e]
                /\ mmGrows' = mmGrows + 1 /\ UNCHANGED mmMemory
        ELSE /\ MmStore(MmEntry(images, prompt, <<"prompt", "output">>))
             /\ visionUse' = [at |-> "kv", asked |-> new, given |-> MmEntry(images, prompt, <<>>)]
             /\ UNCHANGED mmGrows
     /\ UNCHANGED pixelCache

\* chat(): with images a hit is not used; on a miss a copy, cut to the prompt, is
\* stored.
MmChat(images, prompt) ==
  LET key == VisionKey(images, prompt)
      hit == EntryAt(mmCache, key)
      new == [images |-> images, prompt |-> prompt]
  IN /\ IF hit # {}
        THEN /\ mmCache' = Append(WithoutKey(mmCache, key), mmCache[CHOOSE i \in hit : TRUE])
             /\ UNCHANGED mmMemory
        ELSE MmStore(MmEntry(images, prompt, <<"prompt">>))
     /\ visionUse' = [at |-> "kv", asked |-> new, given |-> MmEntry(images, prompt, <<>>)]
     /\ UNCHANGED <<pixelCache, mmGrows>>

\* clear(), of both.
VisionClear ==
  /\ pixelCache' = <<>> /\ mmCache' = <<>> /\ mmMemory' = 0
  /\ mmGrows' = 0 /\ UNCHANGED visionUse

VisionNext ==
  \/ \E images \in ImageLists, prompt \in VisionPrompts :
       PixelRequest(images, prompt) \/ MmGenerate(images, prompt) \/ MmChat(images, prompt)
  \/ VisionClear

VisionSpec == VisionInit /\ [][VisionNext]_visionVars

--------------------------------------------------------------------------------
\* The memory that is counted is what the entries hold, and within the limit unless
\* a single entry exceeds it; once a generation has added to an entry in place,
\* the count is never more than what they hold.
VisionAccounts ==
  LET held == SumFunction(Sizes)
  IN /\ mmMemory <= held
     /\ mmGrows = 0 => mmMemory = held /\ (mmMemory <= MmBytes \/ Len(mmCache) = 1)
     /\ Len(mmCache) <= MmMax /\ Len(pixelCache) <= PixelMax

\* Whatever is given was made for the same prompt and the same images, though maybe
\* in another order, and a dictionary has one entry for them.
VisionMatches ==
  /\ visionUse.at # "none" =>
       /\ visionUse.given.prompt = visionUse.asked.prompt
       /\ ToSet(visionUse.given.images) = ToSet(visionUse.asked.images)
  /\ \A i, j \in DOMAIN pixelCache : EntryKey(pixelCache[i]) = EntryKey(pixelCache[j]) => i = j
  /\ \A i, j \in DOMAIN mmCache : EntryKey(mmCache[i]) = EntryKey(mmCache[j]) => i = j

================================================================================
