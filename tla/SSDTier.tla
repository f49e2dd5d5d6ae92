-------------------------------- MODULE SSDTier --------------------------------
(***************************************************************************)
(* SSDCacheTier and SSDIndex (vllm_mlx/ssd_cache.py) under the memory      *)
(* cache: what is evicted from RAM is written to a directory by a thread   *)
(* of its own and indexed in SQLite; a request that misses in RAM and has  *)
(* an entry, or a prefix, in the index gets it read back on the worker     *)
(* thread (scheduler.py, _try_promote_ssd_pending) before it is scheduled. *)
(*                                                                         *)
(* Directory and index are two things: the process may die, the writer may *)
(* fail and the reader may look between any two steps on them.  A          *)
(* directory is "whole" or, in the middle of rmtree or after a crash in    *)
(* it, "part".  The asynchronous promotion, which nothing calls, is left   *)
(* out.                                                                    *)
(***************************************************************************)
EXTENDS MemoryCache

CONSTANTS
  SsdEntries,   \* max_entries of the tier
  MaxSsdFaults, \* bound: failed writes, crashes and stops that the writer outlives
  SsdFaults     \* "write": the serializer raises; "crash": the process dies

ASSUME SsdAssumption ==
  /\ SsdEntries \in Nat \ {0} /\ MaxSsdFaults \in Nat
  /\ SsdFaults \subseteq {"write", "crash"}

VARIABLES
  dirs,        \* data/<hash>: what is in it and whether all of it
  rows,        \* the index, the least recently used first
  writer,      \* the writer thread
  candidate,   \* _ssd_candidate of the request that waits
  quarantined, ssdFaults

diskVars == <<dirs, rows>>
tierVars == <<diskVars, writer, candidate, quarantined, ssdFaults>>
ssdVars == <<memoryVars, tierVars>>

NoCandidate == [at |-> "none"]
WriterWaits == [at |-> "get"]

TierInit ==
  /\ dirs = <<>> /\ rows = <<>>
  /\ writer = WriterWaits /\ candidate = NoCandidate
  /\ quarantined = FALSE /\ ssdFaults = 0

SsdInit == MemoryInit /\ hasTier /\ TierInit

SetDir(k, d) == dirs' = [x \in DOMAIN dirs \cup {k} |-> IF x = k THEN d ELSE dirs[x]]
NoDir(k) == dirs' = [x \in DOMAIN dirs \ {k} |-> dirs[x]]
RowsWithout(k) == Selected(rows, ToSet(rows) \ {k})

\* Mutant: INSERT in the place of INSERT OR REPLACE.
RowsWith_Twice(k) == Append(rows, k)

RowsWith(k) == Append(RowsWithout(k), k)

--------------------------------------------------------------------------------
(* _write_entry() and _enforce_capacity(), on the writer's thread.           *)

WriterTakes ==
  /\ writer = WriterWaits /\ spillQueue # <<>> /\ life # "down"
  /\ LET e == Head(spillQueue)
     IN writer' = [at |-> "tmp", key |-> e.key, kv |-> e.kv]
  /\ spillQueue' = Tail(spillQueue)
  /\ UNCHANGED <<ramVars, fetching, storing, saveVars, memClears, memTorn, dirs, rows,
                 candidate, quarantined, ssdFaults>>

\* The serializer raises (a full disk, a quantized layer): the .tmp stays.
WriterFails ==
  /\ writer.at = "tmp" /\ "write" \in SsdFaults /\ ssdFaults < MaxSsdFaults
  /\ writer' = WriterWaits /\ ssdFaults' = ssdFaults + 1
  /\ UNCHANGED <<memoryVars, diskVars, candidate, quarantined>>

\* rmtree of the directory that an earlier spill of the sequence has left.
WriterClearsOld ==
  /\ writer.at = "tmp" /\ writer.key \in DOMAIN dirs
  /\ IF dirs[writer.key].whole
     THEN SetDir(writer.key, [dirs[writer.key] EXCEPT !.whole = FALSE])
     ELSE NoDir(writer.key)
  /\ UNCHANGED <<memoryVars, rows, writer, candidate, quarantined,
                 ssdFaults>>

WriterRenames ==
  /\ writer.at = "tmp" /\ writer.key \notin DOMAIN dirs
  /\ SetDir(writer.key, [kv |-> writer.kv, whole |-> TRUE])
  /\ writer' = [writer EXCEPT !.at = "index"]
  /\ UNCHANGED <<memoryVars, rows, candidate, quarantined, ssdFaults>>

\* insert_entry; when close() did not wait long enough the connection is closed.
WriterIndexes ==
  /\ writer.at = "index"
  /\ IF life = "down" THEN UNCHANGED rows /\ writer' = WriterWaits
     ELSE rows' = RowsWith(writer.key) /\ writer' = [at |-> "evict"]
  /\ UNCHANGED <<memoryVars, dirs, candidate, quarantined, ssdFaults>>

\* Mutant: the tier is full only when it is one over its limit.
OverCapacity_Late == Len(rows) > SsdEntries + 1

OverCapacity == Len(rows) > SsdEntries

WriterEvicts ==
  /\ writer.at = "evict"
  /\ IF ~OverCapacity THEN life # "down" /\ writer' = WriterWaits /\ UNCHANGED <<dirs, rows>>
     ELSE LET k == Head(rows)
          IN IF k \in DOMAIN dirs
             THEN /\ IF dirs[k].whole THEN SetDir(k, [dirs[k] EXCEPT !.whole = FALSE])
                     ELSE NoDir(k)
                  /\ UNCHANGED <<rows, writer>>
             ELSE life # "down" /\ rows' = Tail(rows) /\ UNCHANGED <<dirs, writer>>
  /\ UNCHANGED <<memoryVars, candidate, quarantined, ssdFaults>>

\* The same when the connection is closed: what is over the limit stays.
WriterLeaves ==
  /\ writer.at = "evict" /\ life = "down" /\ ssdFaults < MaxSsdFaults
  /\ writer' = WriterWaits /\ ssdFaults' = ssdFaults + 1
  /\ UNCHANGED <<memoryVars, diskVars, candidate, quarantined>>

--------------------------------------------------------------------------------
(* check_ssd() on the event loop, _try_promote_ssd_pending() on the worker.  *)

\* An exact entry, else the longest that is a prefix of the prompt.
CheckSsd ==
  /\ life = "serving" /\ fetching.at = "miss" /\ candidate = NoCandidate
  /\ fetching.want \notin DOMAIN kvOf
  /\ LET S == {k \in ToSet(rows) : IsPrefix(k, fetching.want)}
     IN /\ S # {}
        /\ LET k == CHOOSE x \in S : \A y \in S : Len(y) <= Len(x)
           IN candidate' = [at |-> "pending", want |-> fetching.want, key |-> k]
  /\ fetching' = MemIdle
  /\ UNCHANGED <<ramVars, storing, spillQueue, saveVars, memClears, memTorn, diskVars,
                 writer, quarantined, ssdFaults>>

MatchedTokens(c) == SubSeq(c.want, 1, Len(c.key))

\* memory_bytes of the row: what the entry had when it was evicted.
RowCost(c) == IF c.key \in DOMAIN dirs THEN KvCost(dirs[c.key].kv) ELSE Len(c.key)

PromoteReserves ==
  /\ life = "serving" /\ storing = MemIdle /\ candidate.at = "pending"
  /\ LET n == RowCost(candidate)
     IN IF memory + n > MemMax
        THEN candidate' = NoCandidate /\ UNCHANGED <<memory, storing>>
        ELSE /\ memory' = memory + n
             /\ storing' = [at |-> "manifest", n |-> n]
             /\ UNCHANGED candidate
  /\ UNCHANGED <<lru, kvOf, sortedKeys, fetching, spillQueue, saveVars, memClears, memTorn,
                 diskVars, writer, quarantined, ssdFaults>>

\* _read_entry: first the manifest, then the layers.  Either may be gone.
PromoteReads ==
  /\ storing.at \in {"manifest", "layers"}
  /\ LET k == candidate.key
         sound == k \in DOMAIN dirs /\ (storing.at = "manifest" \/ dirs[k].whole)
     IN storing' =
          IF ~sound THEN [at |-> "quarantine", n |-> storing.n]
          ELSE IF storing.at = "manifest" THEN [at |-> "layers", n |-> storing.n]
          ELSE [at |-> "read", n |-> storing.n, kv |-> dirs[k].kv]
  /\ UNCHANGED <<ramVars, fetching, spillQueue, saveVars, memClears, memTorn, tierVars>>

\* _quarantine_entry: the directory is moved away, then the row is deleted.
QuarantineMoves ==
  /\ storing.at = "quarantine"
  /\ NoDir(candidate.key)
  /\ storing' = [storing EXCEPT !.at = "forget"]
  /\ quarantined' = TRUE
  /\ UNCHANGED <<ramVars, fetching, spillQueue, saveVars, memClears, memTorn, rows,
                 writer, candidate, ssdFaults>>

BudgetBack(n) == memory - n

QuarantineForgets ==
  /\ storing.at = "forget"
  /\ rows' = RowsWithout(candidate.key)
  /\ memory' = BudgetBack(storing.n)
  /\ storing' = MemIdle /\ candidate' = NoCandidate
  /\ UNCHANGED <<lru, kvOf, sortedKeys, fetching, spillQueue, saveVars, memClears, memTorn,
                 dirs, writer, quarantined, ssdFaults>>

\* The budget goes back, store() accounts for the entry, the request gets it.
PromoteStores ==
  /\ storing.at = "read"
  /\ LET t == MatchedTokens(candidate)
     IN /\ IF Known(t) THEN MoveToEnd(t) /\ storing' = MemIdle
           ELSE /\ storing' = [at |-> "prefixes", key |-> t, kv |-> storing.kv, doomed |-> {}]
                /\ UNCHANGED lru
        /\ candidate' = [at |-> "hit", want |-> candidate.want, done |-> Len(t),
                        kv |-> storing.kv]
        /\ rows' = IF t \in ToSet(rows) THEN Append(RowsWithout(t), t) ELSE rows   \* touch
  /\ memory' = memory - storing.n
  /\ UNCHANGED <<kvOf, sortedKeys, fetching, spillQueue, saveVars, memClears, memTorn,
                 dirs, writer, quarantined, ssdFaults>>

\* The request is inserted with what it was given.
Promoted ==
  /\ candidate.at = "hit"
  /\ candidate' = NoCandidate
  /\ UNCHANGED <<memoryVars, diskVars, writer, quarantined, ssdFaults>>

--------------------------------------------------------------------------------
(* The life of the process.                                                  *)

\* kill -9, or a power cut; the WAL of SQLite keeps the index whole.
Crash ==
  /\ "crash" \in SsdFaults /\ ssdFaults < MaxSsdFaults /\ life \in {"serving", "saving"}
  /\ saveTorn' = (saveTorn \/ (life = "saving" /\ saved.index # <<>>))
  /\ life' = "down" /\ saving' = 0 /\ ssdFaults' = ssdFaults + 1
  /\ writer' = WriterWaits /\ fetching' = MemIdle /\ storing' = MemIdle
  /\ spillQueue' = <<>> /\ candidate' = NoCandidate
  /\ lru' = <<>> /\ kvOf' = <<>> /\ memory' = 0 /\ sortedKeys' = {}
  /\ UNCHANGED <<lives, hasTier, saved, memClears, memTorn, diskVars, quarantined>>

\* Directories without a row; a .tmp is not one of them.
Orphans == DOMAIN dirs \ ToSet(rows)

\* A new process: reconcile() drops the rows without a manifest, then the
\* directories without a row.  What is left of a torn one may have its manifest.
SsdRestarts ==
  /\ MemRestarts /\ writer = WriterWaits
  /\ \E torn \in SUBSET {k \in DOMAIN dirs : ~dirs[k].whole} :
       rows' = Selected(rows, DOMAIN dirs \ torn)
  /\ dirs' = [k \in (DOMAIN dirs \ Orphans) \cap ToSet(rows') |-> dirs[k]]
  /\ UNCHANGED <<writer, candidate, quarantined, ssdFaults>>

\* The tier is closed with the engine: the request is gone.
SsdStops ==
  /\ StopBegins
  /\ candidate' = NoCandidate
  /\ UNCHANGED <<diskVars, writer, quarantined, ssdFaults>>

\* What the memory cache does by itself; that the process dies is Crash.
MemorySteps ==
  \/ \E k \in CacheKeys : FetchLooks(k) \/ RemoveEntry(k)
  \/ \E k \in CacheKeys, kind \in StoreKinds : StoreBegins(k, kind)
  \/ FetchReturns
  \/ StoreDropsPrefix \/ StoreEvicts \/ StoreUnindexes
  \/ StoreInserts \/ StoreAccounts \/ StoreIndexes
  \/ ClearMemory
  \/ SaveKv \/ SaveTokens \/ SaveIndex \/ LoadDisk

SsdNext ==
  \/ MemorySteps /\ UNCHANGED tierVars
  \/ WriterTakes \/ WriterFails \/ WriterClearsOld \/ WriterRenames \/ WriterIndexes
  \/ WriterEvicts \/ WriterLeaves
  \/ CheckSsd \/ PromoteReserves \/ PromoteReads \/ QuarantineMoves \/ QuarantineForgets
  \/ PromoteStores \/ Promoted
  \/ Crash \/ SsdRestarts \/ SsdStops

SsdSpec == SsdInit /\ [][SsdNext]_ssdVars

--------------------------------------------------------------------------------
SsdTypeOK ==
  /\ MemoryTypeOK
  /\ DOMAIN dirs \subseteq CacheKeys
  /\ ToSet(rows) \subseteq CacheKeys /\ IsInjective(rows)
  /\ Len(spillQueue) <= SpillSize

\* What a request is promoted was computed for the beginning of its prompt and is
\* whole, though the writer may be replacing or evicting the entry meanwhile.
PromotedFits ==
  ~saveTorn /\ candidate.at = "hit" =>
    /\ IsPrefix(KvCovered(candidate.kv), candidate.want)
    /\ candidate.kv.off <= candidate.done
    /\ candidate.done <= Len(candidate.want) /\ candidate.kv.of = SubSeq(candidate.want, 1, candidate.done)

\* The disk does not fill up: there are never more directories than the limit and
\* the one that is being written, and one more for each crash, failed write or stop
\* that the writer outlives, for reconcile() looks for rows and directories that do
\* not agree, not at the limit.
\* (A reader that meets the writer in the middle may drop the row of a directory
\* that stays.)
DiskBounded ==
  ~quarantined => Cardinality(DOMAIN dirs) <= SsdEntries + 1 + ssdFaults

\* The SSD tier: what is promoted is of the prompt and whole; the disk is bounded.
TierSound == PromotedFits /\ DiskBounded

================================================================================
