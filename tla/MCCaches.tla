-------------------------------- MODULE MCCaches --------------------------------
(***************************************************************************)
(* The caches on small instances.  They share no state: a behaviour is one *)
(* of the parts, chosen at the start, and the others stay as they are.     *)
(***************************************************************************)
EXTENDS PagedCache, SSDTier, SmallCaches, FreeQueueList, TLC

CONSTANTS u1, u2, u3, chA, chB, chC, chZ

VARIABLE part

MCPrompts == {<<chA>>, <<chA, chB>>, <<chA, chB, chZ>>, <<chA, chC>>, <<chA, chZ>>}
MCHash == [x \in Chunks |-> x]
Symmetry == Permutations(CacheUsers)
MCKeys == {<<1>>, <<1, 1>>, <<1, 2>>}
MCTrieKeys == {<<1>>, <<1, 1>>, <<1, 1, 2>>, <<1, 2>>, <<2>>}
MCImageLists == {<<1>>, <<2>>, <<1, 2>>, <<2, 1>>}

vars == <<part, pagedVars, ssdVars, trieVars, visionVars, listVars>>

PartsInit == PagedInit /\ MemoryInit /\ TierInit /\ TrieInit /\ VisionInit /\ ListInit
Init ==
  /\ part \in {"paged", "memory", "ssd", "trie", "vision", "list"} /\ PartsInit
  /\ hasTier = (part = "ssd")

\* A restart or a clear; of the two sequences that are alike one is looked for.
PlainNext ==
  /\ MemoryNext
  /\ memClears' + lives' <= 2
  /\ fetching'.at # "idle" => fetching'.want # <<1, 1>>

\* With the SSD tier the worker's store is one step after the other, sequences are
\* stored whole before the restart, the writer rests during a save, and a request looks
\* once for one of them: what these interleave with is the subject of the part "memory".
TierNext ==
  /\ SsdNext
  /\ life = "saving" => writer' = writer /\ ssdFaults' = ssdFaults
  /\ memClears' = 0
  /\ candidate.at # "hit" /\ storing.at \in {"prefixes", "unindex", "account", "index"} =>
       storing' # storing
  /\ storing.at = "idle" /\ storing'.at = "prefixes" =>
       storing'.kv.off = Len(storing'.key) /\ storing'.doomed = {}
  /\ storing.at = "idle" => storing'.at # "unindex" /\ (lives = 2 => storing'.at # "prefixes")
  /\ fetching'.at \in {"idle", "miss"}
  /\ fetching'.at = "miss" => fetching'.want = <<1, 1>>
  /\ candidate.at = "hit" => candidate' = NoCandidate

Next ==
  \/ part = "paged" /\ PagedNext
       /\ UNCHANGED <<part, ssdVars, trieVars, visionVars, listVars>>
  \/ part = "memory" /\ PlainNext
       /\ UNCHANGED <<part, tierVars, pagedVars, trieVars, visionVars, listVars>>
  \/ part = "ssd" /\ TierNext
       /\ UNCHANGED <<part, pagedVars, trieVars, visionVars, listVars>>
  \/ part = "trie" /\ TrieNext
       /\ UNCHANGED <<part, pagedVars, ssdVars, visionVars, listVars>>
  \/ part = "vision" /\ VisionNext /\ <<>> \in {pixelCache', mmCache'}
       /\ UNCHANGED <<part, pagedVars, ssdVars, trieVars, listVars>>
  \/ part = "list" /\ ListNext
       /\ UNCHANGED <<part, pagedVars, ssdVars, trieVars, visionVars>>

Spec == Init /\ [][Next]_vars

\* The variables of the caches keep their types.
CachesTypeOK == PagedTypeOK /\ SsdTypeOK /\ freeCount \in 0..ListSize
================================================================================
