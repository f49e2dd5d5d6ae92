------------------------------ MODULE SmallCaches ------------------------------
(***************************************************************************)
(* The trie and the two image caches side by side: each serves requests of *)
(* its own and none looks at another.                                      *)
(***************************************************************************)
EXTENDS TrieCache, VisionCaches

SmallSpec == TrieSpec /\ VisionSpec

\* The trie and the two image caches: what they find was stored for what is asked,
\* and they account for what they hold.
SmallCachesSound == TrieAgrees /\ TrieFits /\ VisionAccounts /\ VisionMatches
================================================================================
