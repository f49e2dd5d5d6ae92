------------------------------ MODULE TierProofs -------------------------------
(***************************************************************************)
(* What TLAPS proves of MemoryCache and SSDTier, for any sequences and     *)
(* limits, any number of restarts and faults, and any interleaving of the  *)
(* event loop, the worker thread and the writer of the tier.               *)
(*                                                                         *)
(* The parts of the invariant are what each of them may rely on: the       *)
(* entries whoever is at work on them (EntriesInv), what a fetch and a     *)
(* store have in their hands (FetchInv, StoreInv), the files (SaveInv),    *)
(* the sum of bytes at each step of a store (AccountInv); directories,     *)
(* writer and promotion (TierParts); and rows against directories at each  *)
(* step of the writer (DiskInv).  A process that dies between two files of *)
(* a save leaves an index that may name what the files do not hold: the    *)
(* first of them say nothing from then on, DiskInv still holds.            *)
(***************************************************************************)
EXTENDS SSDTier, QueueLemmas

--------------------------------------------------------------------------------
(* The invariant, and what the operators of the model do.                    *)

\* What is held for a sequence: its first positions, no more than the budget.
KvFor(k) == {kv \in [of : {k}, off : 0..Len(k)] : kv.off <= MemMax}
Spills == UNION {[key : {k}, kv : KvFor(k)] : k \in CacheKeys}
CostsOf(m) == [k \in DOMAIN m |-> KvCost(m[k])]
HeldBy(m) == SumFunction(CostsOf(m))
Promoting == {"manifest", "layers", "quarantine", "forget", "read"}

\* The entries, whoever is at work on them.
EntriesInv ==
  /\ lru \in Seq(CacheKeys) /\ IsInjective(lru) /\ DOMAIN kvOf = ToSet(lru)
  /\ \A k \in DOMAIN kvOf : kvOf[k] \in KvFor(k)
  /\ sortedKeys \subseteq CacheKeys /\ IsFiniteSet(sortedKeys)
  /\ memory \in Int
  /\ spillQueue \in Seq(Spills)

HitFits(kv, want, done) == IsPrefix(KvCovered(kv), want) /\ kv.off <= done

\* What add_request has in its hands.
FetchInv ==
  /\ "at" \in DOMAIN fetching
  /\ fetching.at \in {"idle", "miss", "raised", "found", "hit"}
  /\ fetching.at = "miss" => fetching.want \in CacheKeys
  /\ fetching.at \in {"found", "hit"} => HitFits(fetching.kv, fetching.want, fetching.done)

\* What the worker thread has in its hands.
StoreInv ==
  /\ "at" \in DOMAIN storing
  /\ storing.at \in {"idle", "prefixes", "unindex", "account", "index"} \cup Promoting
  /\ storing.at = "idle" => storing = MemIdle
  /\ storing.at \in {"prefixes", "account", "index"} =>
       storing.key \in CacheKeys /\ storing.kv \in KvFor(storing.key)
  /\ storing.at = "unindex" =>
       /\ storing.key \in CacheKeys /\ storing.victim \in CacheKeys
       /\ storing.kv.off = -1 \/ storing.kv \in KvFor(storing.key)
       /\ storing.spill \in Seq(Spills)
  /\ storing.at = "prefixes" => storing.key \notin DOMAIN kvOf
  /\ storing.at = "unindex" => storing.key \notin DOMAIN kvOf /\ storing.victim \notin DOMAIN kvOf
  /\ storing.at \in Promoting => storing.n \in Nat
  /\ life # "serving" => storing = MemIdle /\ fetching.at # "found"

\* What the files of the save hold.
SavedUpTo(kvs, tokens) ==
  /\ Len(saved.kvs) >= kvs /\ Len(saved.tokens) >= tokens
  /\ \A i \in 1..kvs : saved.kvs[i] = kvOf[lru[i]]
  /\ \A i \in 1..tokens : saved.tokens[i] = lru[i]

SaveInv ==
  /\ life \in {"starting", "serving", "saving", "down"}
  /\ DOMAIN saved = {"kvs", "tokens", "index"}
  /\ Len(saved.kvs) \in Nat /\ Len(saved.tokens) \in Nat /\ saving \in Int
  /\ life = "saving" =>
       \/ saving \in 1..(Len(lru) + 1) /\ SavedUpTo(saving - 1, saving - 1)
       \/ -saving \in 1..Len(lru) /\ SavedUpTo(-saving, -saving - 1)
  /\ life # "saving" =>
       /\ saved.index \in Seq(Nat)
       /\ \A i \in DOMAIN saved.index :
            /\ saved.tokens[i] \in CacheKeys /\ Len(saved.tokens[i]) = saved.index[i]
            /\ saved.kvs[i] \in KvFor(saved.tokens[i])
       /\ \A i, j \in DOMAIN saved.index : saved.tokens[i] = saved.tokens[j] => i = j
       /\ ~memTorn => Len(saved.index) <= MemEntries

\* The sum and the index at each step of the worker thread.
AccountInv ==
  ~memTorn =>
    /\ Len(lru) <= MemEntries /\ HeldBy(kvOf) \in Int
    /\ storing.at \in {"idle", "prefixes", "unindex"} => memory = HeldBy(kvOf)
    /\ storing.at \in {"account"} => memory + storing.kv.off = HeldBy(kvOf)
    /\ storing.at = "index" => memory = HeldBy(kvOf)
    /\ storing.at \in Promoting => memory = HeldBy(kvOf) + storing.n
    /\ memory <= MemMax /\ HeldBy(kvOf) <= MemMax
    /\ storing.at \in {"idle", "prefixes"} \cup Promoting => sortedKeys = DOMAIN kvOf
    /\ storing.at = "unindex" => sortedKeys = DOMAIN kvOf \cup {storing.victim}
    /\ storing.at \in {"account", "index"} =>
         storing.key \in DOMAIN kvOf /\ sortedKeys = DOMAIN kvOf \ {storing.key}

MemParts == EntriesInv /\ FetchInv /\ StoreInv /\ SaveInv /\ AccountInv
MemInv == ~saveTorn => MemParts

\* The directories, the writer and the promotion.
DirFor(k) == [kv : KvFor(k), whole : BOOLEAN]
PromotedIs(c) ==
  /\ HitFits(c.kv, c.want, c.done)
  /\ c.done <= Len(c.want) /\ c.kv.of = SubSeq(c.want, 1, c.done)
DirsInv == \A k \in DOMAIN dirs : k \in CacheKeys /\ dirs[k] \in DirFor(k)
WriterInv ==
  /\ "at" \in DOMAIN writer
  /\ writer.at \in {"tmp", "index"} => writer.key \in CacheKeys
  /\ writer.at = "tmp" => writer.kv \in KvFor(writer.key)
  /\ rows \in Seq(CacheKeys)
PromoteInv ==
  /\ candidate.at \in {"none", "pending", "hit"}
  /\ candidate.at = "pending" =>
       /\ candidate.want \in CacheKeys /\ candidate.key \in CacheKeys
       /\ IsPrefix(candidate.key, candidate.want)
  /\ candidate.at = "hit" => PromotedIs(candidate)
  /\ storing.at \in Promoting => candidate.at = "pending"
  /\ storing.at = "read" => storing.kv \in KvFor(candidate.key)
TierParts == DirsInv /\ WriterInv /\ PromoteInv

\* The disk.
DiskInv ==
  /\ rows \in Seq(ToSet(rows)) /\ IsInjective(rows)
  /\ ssdFaults \in Nat
  /\ "at" \in DOMAIN writer /\ "at" \in DOMAIN storing
  /\ writer.at \in {"get", "tmp", "index", "evict"}
  /\ writer.at = "get" => writer = WriterWaits
  /\ storing.at = "forget" => quarantined
  /\ ~quarantined =>
       /\ writer.at # "evict" => Len(rows) <= SsdEntries + ssdFaults
       /\ writer.at = "evict" => Len(rows) <= SsdEntries + ssdFaults + 1
       /\ writer.at \in {"tmp", "evict"} => Orphans = {}
       /\ writer.at = "index" => Orphans \subseteq {writer.key}
       /\ writer.at = "get" /\ life # "down" => Orphans = {}
       /\ writer.at = "get" => \E k : Orphans \subseteq {k}

WithEntry(m, k, kv) == [x \in DOMAIN m \cup {k} |-> IF x = k THEN kv ELSE m[x]]
WithoutEntry(m, k) == [x \in DOMAIN m \ {k} |-> m[x]]

\* The bytes held, when an entry comes or goes.
LEMMA HeldWith ==
  ASSUME NEW m, IsFiniteSet(DOMAIN m), \A x \in DOMAIN m : KvCost(m[x]) \in Int,
         NEW k, k \notin DOMAIN m, NEW kv, KvCost(kv) \in Int
  PROVE  HeldBy(WithEntry(m, k, kv)) = HeldBy(m) + KvCost(kv) /\ HeldBy(m) \in Int
<1> DEFINE w == WithEntry(m, k, kv)
           f == CostsOf(w)
           g == CostsOf(m)
           D == DOMAIN m
<1>1. /\ DOMAIN w = D \cup {k} /\ w[k] = kv /\ \A x \in D : w[x] = m[x]
  BY DEF WithEntry
<1> HIDE DEF w
<1>2. /\ DOMAIN f = D \cup {k} /\ f[k] = KvCost(kv) /\ \A x \in D : f[x] = KvCost(m[x])
  BY <1>1 DEF CostsOf
<1>3. /\ DOMAIN g = D /\ \A x \in D : g[x] = KvCost(m[x])
  BY DEF CostsOf
<1> HIDE DEF f, g
<1>4. HeldBy(w) = SumFunctionOnSet(f, D \cup {k}) /\ HeldBy(m) = SumFunctionOnSet(g, D)
  BY <1>2, <1>3 DEF HeldBy, SumFunction, f, g
<1>5. IsFiniteSet(D \cup {k})
  BY FS_AddElement
<1>6. \A x \in D \cup {k} : f[x] \in Int
  BY <1>2
<1>7. SumFunctionOnSet(f, D \cup {k}) = f[k] + SumFunctionOnSet(f, (D \cup {k}) \ {k})
  BY <1>5, <1>6, SumTaken
<1>8. (D \cup {k}) \ {k} = D
  OBVIOUS
<1>9. SumFunctionOnSet(f, D) = SumFunctionOnSet(g, D)
  <2>1. \A x \in D : f[x] \in Int /\ f[x] = g[x]
    BY <1>2, <1>3
  <2> QED BY <2>1, SumAgrees
<1>10. SumFunctionOnSet(g, D) \in Int
  <2>1. \A x \in D : g[x] \in Int
    BY <1>3
  <2> QED BY <2>1, SumTaken
<1> QED BY <1>2, <1>4, <1>7, <1>8, <1>9, <1>10 DEF w

\* The bytes held, when an entry goes.
LEMMA HeldWithout ==
  ASSUME NEW m, IsFiniteSet(DOMAIN m), \A x \in DOMAIN m : KvCost(m[x]) \in Int, NEW k \in DOMAIN m
  PROVE  /\ HeldBy(WithoutEntry(m, k)) = HeldBy(m) - KvCost(m[k])
         /\ HeldBy(m) \in Int /\ HeldBy(WithoutEntry(m, k)) \in Int
<1> DEFINE w == WithoutEntry(m, k)
           f == CostsOf(w)
           g == CostsOf(m)
           D == DOMAIN m
<1>1. /\ DOMAIN w = D \ {k} /\ \A x \in D \ {k} : w[x] = m[x]
  BY DEF WithoutEntry
<1> HIDE DEF w
<1>2. /\ DOMAIN f = D \ {k} /\ \A x \in D \ {k} : f[x] = KvCost(m[x])
  BY <1>1 DEF CostsOf
<1>3. /\ DOMAIN g = D /\ \A x \in D : g[x] = KvCost(m[x])
  BY DEF CostsOf
<1> HIDE DEF f, g
<1>4. HeldBy(w) = SumFunctionOnSet(f, D \ {k}) /\ HeldBy(m) = SumFunctionOnSet(g, D)
  BY <1>2, <1>3 DEF HeldBy, SumFunction, f, g
<1>5. \A x \in D : g[x] \in Int
  BY <1>3
<1>6. /\ SumFunctionOnSet(g, D) = g[k] + SumFunctionOnSet(g, D \ {k})
      /\ SumFunctionOnSet(g, D) \in Int /\ SumFunctionOnSet(g, D \ {k}) \in Int
  <2>1. IsFiniteSet(D) /\ k \in D
    OBVIOUS
  <2> HIDE DEF D
  <2> QED BY <1>5, <2>1, SumTaken
<1>7. SumFunctionOnSet(f, D \ {k}) = SumFunctionOnSet(g, D \ {k})
  <2>1. IsFiniteSet(D \ {k})
    BY FS_RemoveElement
  <2>2. \A x \in D \ {k} : f[x] \in Int /\ f[x] = g[x]
    BY <1>2, <1>3
  <2> QED BY <2>1, <2>2, SumAgrees
<1>8. g[k] = KvCost(m[k]) /\ KvCost(m[k]) \in Int
  BY <1>3
<1> QED BY <1>4, <1>6, <1>7, <1>8 DEF w

\* How far two sequences agree.
LEMMA CommonBeginning ==
  ASSUME NEW S, NEW s \in Seq(S), NEW t \in Seq(S)
  PROVE  /\ CommonLength(s, t) \in 0..Len(s) /\ CommonLength(s, t) <= Len(t)
         /\ SubSeq(s, 1, CommonLength(s, t)) = SubSeq(t, 1, CommonLength(s, t))
<1> DEFINE Fits(n) == /\ n <= Len(t) /\ SubSeq(s, 1, n) = SubSeq(t, 1, n)
                      /\ n < Len(s) /\ n < Len(t) => s[n + 1] # t[n + 1]
           T == {n \in Nat : (n < Len(s) /\ n < Len(t)) => s[n + 1] # t[n + 1]}
<1>1. Len(s) \in Nat /\ Len(t) \in Nat
  OBVIOUS
<1>2. Len(s) \in T
  BY <1>1
<1>3. PICK m \in T : \A k \in T : m <= k
  BY <1>2, LeastNatural
<1>4. m \in Nat /\ m <= Len(s) /\ m <= Len(t)
  <2>1. Len(t) \in T
    BY <1>1
  <2> QED BY <1>1, <1>2, <1>3, <2>1
<1>5. \A i \in 1..m : s[i] = t[i]
  <2> SUFFICES ASSUME NEW i \in 1..m PROVE s[i] = t[i]
    OBVIOUS
  <2>1. i - 1 \in Nat /\ i - 1 < m /\ (i - 1) + 1 = i
    BY <1>4
  <2>2. i - 1 \notin T
    BY <1>3, <1>4, <2>1
  <2> QED BY <1>4, <2>1, <2>2
<1>6. SubSeq(s, 1, m) = SubSeq(t, 1, m)
  <2> DEFINE a == SubSeq(s, 1, m)
             b == SubSeq(t, 1, m)
  <2>1. a \in Seq(S) /\ Len(a) = m /\ b \in Seq(S) /\ Len(b) = m
    BY <1>1, <1>4
  <2>2. \A i \in 1..m : a[i] = s[i] /\ b[i] = t[i]
    BY <1>1, <1>4
  <2> HIDE DEF a, b
  <2>3. a \in [1..m -> S] /\ b \in [1..m -> S]
    BY <2>1
  <2>4. a = b
    BY <1>5, <2>2, <2>3
  <2> QED BY <2>4 DEF a, b
<1>7. m \in 0..Len(s) /\ Fits(m)
  BY <1>1, <1>3, <1>4, <1>6
<1>8. CommonLength(s, t) = CHOOSE n \in 0..Len(s) : Fits(n)
  BY DEF CommonLength
<1> HIDE DEF Fits
<1>9. CommonLength(s, t) \in 0..Len(s) /\ Fits(CommonLength(s, t))
  BY <1>7, <1>8
<1> QED BY <1>9 DEF Fits

\* What is trimmed to the beginning in common fits the other sequence.
LEMMA TrimmedFits ==
  ASSUME NEW S, NEW s \in Seq(S), NEW k \in Seq(S), NEW n \in 0..Len(s), n <= Len(k),
         SubSeq(s, 1, n) = SubSeq(k, 1, n), NEW kv \in KvFor(s)
  PROVE  HitFits(TrimmedKv(kv, Len(s) - n), k, n)
<1> DEFINE c == Len(s) - n
           o == IF c > kv.off THEN 0 ELSE kv.off - c
           r == TrimmedKv(kv, c)
<1>1. Len(s) \in Nat /\ Len(k) \in Nat /\ n \in Nat /\ n <= Len(s) /\ c \in Nat
  OBVIOUS
<1>2. kv.of = s /\ kv.off \in Nat /\ kv.off <= Len(s) /\ DOMAIN kv = {"of", "off"}
  BY <1>1 DEF KvFor
<1>3. r.of = s /\ r.off = o
  BY <1>2 DEF TrimmedKv
<1>4. o \in Nat /\ o <= n
  BY <1>1, <1>2
<1> HIDE DEF r, o
<1>5. \A i \in 1..n : s[i] = k[i]
  <2>1. \A i \in 1..n : SubSeq(s, 1, n)[i] = s[i] /\ SubSeq(k, 1, n)[i] = k[i]
    BY <1>1
  <2> QED BY <2>1
<1>6. KvCovered(r) = SubSeq(s, 1, o)
  BY <1>3 DEF KvCovered
<1>7. SubSeq(s, 1, o) \in Seq(S) /\ Len(SubSeq(s, 1, o)) = o /\ \A i \in 1..o : SubSeq(s, 1, o)[i] = s[i]
  BY <1>1, <1>4
<1>8. \A i \in 1..o : SubSeq(s, 1, o)[i] = k[i]
  BY <1>1, <1>4, <1>5, <1>7
<1>9. IsPrefix(SubSeq(s, 1, o), k)
  <2> DEFINE u == SubSeq(s, 1, o)
  <2>1. u \in Seq(S) /\ Len(u) = o /\ \A i \in 1..Len(u) : u[i] = k[i]
    BY <1>7, <1>8
  <2>2. o <= Len(k)
    BY <1>1, <1>4
  <2> HIDE DEF u
  <2>3. IsPrefix(u, k)
    BY <2>1, <2>2, PrefixPlaces
  <2> QED BY <2>3 DEF u
<1> QED BY <1>3, <1>4, <1>6, <1>9 DEF HitFits, r

Longer(s, t) == Len(s) > Len(t) \/ (Len(s) = Len(t) /\ KeyBefore(s, t))

\* The order of tuples, among those of a length.
LEMMA KeyOrder ==
  ASSUME NEW s \in Seq(Nat), NEW t \in Seq(Nat), Len(s) = Len(t)
  PROVE  /\ KeyBefore(s, t) <=> \E i \in 1..Len(s) : s[i] < t[i] /\ \A j \in 1..(i - 1) : s[j] = t[j]
         /\ s = t \/ KeyBefore(s, t) \/ KeyBefore(t, s)
<1>1. Len(s) \in Nat /\ DOMAIN s = 1..Len(s) /\ DOMAIN t = 1..Len(s) /\ \A i \in 1..Len(s) : s[i] \in Nat /\ t[i] \in Nat
  OBVIOUS
<1>2. ~IsStrictPrefix(s, t) /\ ~IsStrictPrefix(t, s)
  <2>1. SubSeq(s, 1, Len(s)) = s /\ SubSeq(t, 1, Len(s)) = t
    OBVIOUS
  <2> QED BY <2>1 DEF IsStrictPrefix, IsPrefix
<1>3. /\ KeyBefore(s, t) <=> \E i \in 1..Len(s) : s[i] < t[i] /\ \A j \in 1..(i - 1) : s[j] = t[j]
      /\ KeyBefore(t, s) <=> \E i \in 1..Len(s) : t[i] < s[i] /\ \A j \in 1..(i - 1) : t[j] = s[j]
  BY <1>1, <1>2 DEF KeyBefore
<1>4. ASSUME s # t PROVE KeyBefore(s, t) \/ KeyBefore(t, s)
  <2> DEFINE T == {i \in 1..Len(s) : s[i] # t[i]}
  <2>1. T # {}
    <3>1. s \in [1..Len(s) -> Nat] /\ t \in [1..Len(s) -> Nat]
      BY <1>1
    <3> QED BY <1>4, <3>1, SMTT(30)
  <2>2. T \in SUBSET Nat
    OBVIOUS
  <2>3. PICK i \in T : \A j \in T : i <= j
    BY <2>1, <2>2, LeastNatural
  <2>4. i \in 1..Len(s) /\ s[i] # t[i]
    OBVIOUS
  <2>5. \A j \in 1..(i - 1) : s[j] = t[j]
    BY <1>1, <2>3, <2>4
  <2>6. s[i] < t[i] \/ t[i] < s[i]
    BY <1>1, <2>4
  <2> QED BY <1>3, <2>4, <2>5, <2>6
<1> QED BY <1>3, <1>4

\* Longest first, then by the order of tuples: one of two comes first, and transitively.
LEMMA LongerOrder ==
  ASSUME NEW s \in Seq(Nat), NEW t \in Seq(Nat), NEW u \in Seq(Nat)
  PROVE  /\ s = t \/ Longer(s, t) \/ Longer(t, s)
         /\ Longer(s, t) /\ Longer(t, u) => Longer(s, u)
<1>1. Len(s) \in Nat /\ Len(t) \in Nat /\ Len(u) \in Nat
  OBVIOUS
<1>2. s = t \/ Longer(s, t) \/ Longer(t, s)
  <2>1. CASE Len(s) = Len(t)
    BY <2>1, KeyOrder DEF Longer
  <2>2. CASE Len(s) # Len(t)
    BY <1>1, <2>2 DEF Longer
  <2> QED BY <2>1, <2>2
<1>3. ASSUME Longer(s, t), Longer(t, u) PROVE Longer(s, u)
  <2>1. CASE Len(s) > Len(t) \/ Len(t) > Len(u)
    BY <1>1, <1>3, <2>1 DEF Longer
  <2>2. CASE Len(s) = Len(t) /\ Len(t) = Len(u) /\ KeyBefore(s, t) /\ KeyBefore(t, u)
    <3>1. PICK i \in 1..Len(s) : s[i] < t[i] /\ \A j \in 1..(i - 1) : s[j] = t[j]
      BY <2>2, KeyOrder
    <3>2. PICK h \in 1..Len(t) : t[h] < u[h] /\ \A j \in 1..(h - 1) : t[j] = u[j]
      BY <2>2, KeyOrder
    <3>3. \A j \in 1..Len(s) : s[j] \in Nat /\ t[j] \in Nat /\ u[j] \in Nat
      <4>1. /\ \A j \in 1..Len(s) : s[j] \in Nat
            /\ \A j \in 1..Len(t) : t[j] \in Nat
            /\ \A j \in 1..Len(u) : u[j] \in Nat
        BY SMTT(30)
      <4> QED BY <2>2, <4>1
    <3>4. \E l \in 1..Len(s) : s[l] < u[l] /\ \A j \in 1..(l - 1) : s[j] = u[j]
      <4>1. CASE i <= h
        <5>1. s[i] < u[i]
          <6>1. CASE i = h
            BY <3>1, <3>2, <3>3, <6>1, SMTT(30)
          <6>2. CASE i < h
            <7>1. i \in 1..(h - 1)
              BY <1>1, <6>2
            <7> QED BY <3>1, <3>2, <7>1
          <6> QED BY <4>1, <6>1, <6>2
        <5>2. \A j \in 1..(i - 1) : j \in 1..(h - 1)
          BY <1>1, <4>1
        <5> QED BY <3>1, <3>2, <5>1, <5>2
      <4>2. CASE h < i
        <5>1. h \in 1..(i - 1) /\ h \in 1..Len(s)
          BY <1>1, <2>2, <4>2
        <5>2. \A j \in 1..(h - 1) : j \in 1..(i - 1)
          BY <1>1, <4>2
        <5> QED BY <3>1, <3>2, <5>1, <5>2
      <4> QED BY <1>1, <4>1, <4>2
    <3>5. KeyBefore(s, u)
      BY <2>2, <3>4, KeyOrder
    <3> QED BY <2>2, <3>5 DEF Longer
  <2> QED BY <1>3, <2>1, <2>2 DEF Longer
<1> QED BY <1>2, <1>3

\* The scans of the index find the longest key, the first of these in the index.
LEMMA LongestFound ==
  ASSUME NEW S \in SUBSET Seq(Nat), IsFiniteSet(S), S # {}
  PROVE  LongestOf(S) \in S
<1> DEFINE First(T) == \E s \in T : \A t \in T : t = s \/ Longer(s, t)
           H == {n \in Nat : \A T \in SUBSET S : T # {} /\ Cardinality(T) = n => First(T)}
<1>1. \A T \in SUBSET S : IsFiniteSet(T) /\ Cardinality(T) \in Nat
  BY FS_Subset, FS_CardinalityType
<1>2. 0 \in H
  BY <1>1, FS_EmptySet
<1>3. ASSUME NEW n \in Nat, n \in H PROVE n + 1 \in H
  <2> SUFFICES ASSUME NEW T \in SUBSET S, T # {}, Cardinality(T) = n + 1 PROVE First(T)
    <3> HIDE DEF First
    <3> QED OBVIOUS
  <2>1. PICK x \in T : TRUE
    OBVIOUS
  <2>2. CASE T = {x}
    BY <2>2
  <2>3. CASE T # {x}
    <3>1. T \ {x} \in SUBSET S /\ T \ {x} # {}
      BY <2>1, <2>3
    <3>2. Cardinality(T \ {x}) = n
      <4>1. Cardinality(T \ {x}) = Cardinality(T) - 1
        BY <1>1, OneLess
      <4> QED BY <4>1
    <3>3. PICK s \in T \ {x} : \A t \in T \ {x} : t = s \/ Longer(s, t)
      BY <1>3, <3>1, <3>2
    <3>4. s \in Seq(Nat) /\ x \in Seq(Nat) /\ s # x
      OBVIOUS
    <3>5. CASE Longer(s, x)
      BY <3>3, <3>5
    <3>6. CASE Longer(x, s)
      <4>1. ASSUME NEW t \in T, t # x PROVE Longer(x, t)
        <5>1. t \in Seq(Nat) /\ (t = s \/ Longer(s, t))
          BY <3>3, <4>1
        <5> QED BY <3>4, <3>6, <5>1, LongerOrder
      <4> QED BY <4>1
    <3> QED BY <3>4, <3>5, <3>6, LongerOrder
  <2> QED BY <2>2, <2>3
<1>4. Nat \subseteq H
  <2> HIDE DEF H
  <2> QED BY <1>2, <1>3, Induction
<1>5. First(S)
  BY <1>1, <1>4
<1>6. PICK s \in S : \A t \in S : t = s \/ Longer(s, t)
  BY <1>5
<1> DEFINE P(u) == \A t \in S : Len(t) >= Len(u) => t = u \/ (Len(t) = Len(u) /\ KeyBefore(u, t))
<1>7. P(s)
  <2>1. \A t \in S : Len(t) \in Nat
    OBVIOUS
  <2> QED BY <1>6, <2>1 DEF Longer
<1>8. LongestOf(S) = CHOOSE u \in S : P(u)
  BY DEF LongestOf
<1> HIDE DEF P
<1> QED BY <1>7, <1>8

--------------------------------------------------------------------------------
(* Each step of the memory cache.                                            *)

\* How an entry serves a sequence: they agree on the first n positions, the rest is cut off.
Serves(m, k) ==
  \E n \in 0..Len(m.from) :
    /\ n <= Len(k) /\ SubSeq(m.from, 1, n) = SubSeq(k, 1, n)
    /\ m.cut = Len(m.from) - n /\ m.done = n

\* The neighbour that has most in common is one of the keys of the index.
NearOf(k) == {s \in Neighbours(k) : CommonLength(s, k) > 0}
BestOf(k) == {s \in NearOf(k) : \A t \in NearOf(k) : CommonLength(t, k) <= CommonLength(s, k)}
NearestOf(k) ==
  IF \E s \in BestOf(k) : KeyBefore(s, k) THEN CHOOSE s \in BestOf(k) : KeyBefore(s, k)
  ELSE CHOOSE s \in BestOf(k) : TRUE

\* The neighbour that fetch() takes from the sorted keys is one of them.
LEMMA NearestFound ==
  ASSUME EntriesInv, NEW k \in CacheKeys, NearOf(k) # {}
  PROVE  NearestOf(k) \in sortedKeys /\ NearestOf(k) \in CacheKeys
<1>1. NearOf(k) \subseteq sortedKeys /\ NearOf(k) \subseteq CacheKeys
  BY DEF NearOf, Neighbours, EntriesInv
<1>2. CacheKeys \subseteq Seq(Nat)
  <2>1. Seq(Nat \ {0}) \subseteq Seq(Nat)
    OBVIOUS
  <2> QED BY <2>1, MemoryAssumption
<1>3. \A s \in NearOf(k) : CommonLength(s, k) \in Nat /\ CommonLength(s, k) <= Len(k)
  <2> SUFFICES ASSUME NEW s \in NearOf(k) PROVE CommonLength(s, k) \in Nat /\ CommonLength(s, k) <= Len(k)
    OBVIOUS
  <2>1. s \in Seq(Nat) /\ k \in Seq(Nat)
    BY <1>1, <1>2
  <2>2. CommonLength(s, k) \in 0..Len(s) /\ CommonLength(s, k) <= Len(k)
    BY <2>1, CommonBeginning
  <2> QED BY <2>1, <2>2
<1>4. Len(k) \in Nat
  BY <1>2
<1> DEFINE T == {n \in Nat : \E s \in NearOf(k) : n = Len(k) - CommonLength(s, k)}
<1>5. T # {} /\ T \in SUBSET Nat
  <2>1. PICK s \in NearOf(k) : TRUE
    OBVIOUS
  <2>2. Len(k) - CommonLength(s, k) \in T
    BY <1>3, <1>4
  <2> QED BY <2>2
<1>6. PICK m \in T : \A n \in T : m <= n
  BY <1>5, LeastNatural
<1>7. PICK s \in NearOf(k) : m = Len(k) - CommonLength(s, k)
  OBVIOUS
<1>8. s \in BestOf(k)
  <2>1. ASSUME NEW t \in NearOf(k) PROVE CommonLength(t, k) <= CommonLength(s, k)
    <3>1. Len(k) - CommonLength(t, k) \in T
      BY <1>3, <1>4
    <3>2. /\ CommonLength(t, k) \in Nat /\ CommonLength(s, k) \in Nat
          /\ Len(k) - CommonLength(s, k) <= Len(k) - CommonLength(t, k)
      BY <1>3, <1>6, <1>7, <3>1
    <3> QED BY <1>4, <3>2
  <2> QED BY <2>1 DEF BestOf
<1>9. NearestOf(k) \in BestOf(k)
  BY <1>8 DEF NearestOf
<1> QED BY <1>1, <1>9 DEF BestOf

\* fetch() serves a sequence from an entry of which it has the beginning.
LEMMA MatchSound ==
  ASSUME EntriesInv, NEW k \in CacheKeys
  PROVE  MatchFor(k).from = <<>> \/ (MatchFor(k).from \in CacheKeys /\ Serves(MatchFor(k), k))
<1> DEFINE m == MatchFor(k)
<1>1. CacheKeys \subseteq Seq(Nat)
  <2>1. Seq(Nat \ {0}) \subseteq Seq(Nat)
    OBVIOUS
  <2> QED BY <2>1, MemoryAssumption
<1>2. k \in Seq(Nat) /\ Len(k) \in Nat /\ sortedKeys \subseteq CacheKeys /\ sortedKeys \in SUBSET Seq(Nat) /\ IsFiniteSet(sortedKeys)
  BY <1>1 DEF EntriesInv
<1>3. CASE k \in DOMAIN kvOf
  <2>1. m = [from |-> k, cut |-> 0, done |-> Len(k), rest |-> FALSE]
    BY <1>3 DEF MatchFor
  <2>2. Len(k) \in 0..Len(k) /\ 0 = Len(k) - Len(k)
    BY <1>2
  <2> QED BY <2>1, <2>2 DEF Serves
<1>4. CASE k \notin DOMAIN kvOf /\ StoredExtensions(k) # {} /\ ~Hybrid
  <2> DEFINE s == LongestOf(StoredExtensions(k))
  <2>1. m = [from |-> s, cut |-> Len(s) - Len(k), done |-> Len(k), rest |-> FALSE]
    BY <1>4 DEF MatchFor
  <2>2. s \in StoredExtensions(k)
    <3>1. StoredExtensions(k) \in SUBSET Seq(Nat) /\ IsFiniteSet(StoredExtensions(k))
      <4>1. StoredExtensions(k) \subseteq sortedKeys
        BY DEF StoredExtensions
      <4> QED BY <1>2, <4>1, FS_Subset
    <3> QED BY <1>4, <3>1, LongestFound
  <2> HIDE DEF s
  <2>3. s \in CacheKeys /\ s \in Seq(Nat) /\ IsPrefix(k, s)
    BY <1>2, <2>2 DEF StoredExtensions
  <2>4. Len(k) \in 0..Len(s) /\ SubSeq(s, 1, Len(k)) = SubSeq(k, 1, Len(k))
    BY <1>2, <2>3 DEF IsPrefix
  <2>5. Serves(m, k)
    <3>1. m.from = s /\ m.cut = Len(s) - Len(k) /\ m.done = Len(k)
      BY <2>1
    <3> HIDE DEF m
    <3> QED BY <1>2, <2>4, <3>1, SMTT(30) DEF Serves
  <2> QED BY <2>1, <2>3, <2>5
<1>5. CASE k \notin DOMAIN kvOf /\ (StoredExtensions(k) = {} \/ Hybrid) /\ StoredPrefixes(k) # {}
  <2> DEFINE s == LongestOf(StoredPrefixes(k))
  <2>1. m = [from |-> s, cut |-> 0, done |-> Len(s), rest |-> TRUE]
    BY <1>5 DEF MatchFor
  <2>2. s \in StoredPrefixes(k)
    <3>1. StoredPrefixes(k) \in SUBSET Seq(Nat) /\ IsFiniteSet(StoredPrefixes(k))
      <4>1. StoredPrefixes(k) \subseteq sortedKeys
        BY DEF StoredPrefixes
      <4> QED BY <1>2, <4>1, FS_Subset
    <3> QED BY <1>5, <3>1, LongestFound
  <2> HIDE DEF s
  <2>3. s \in CacheKeys /\ s \in Seq(Nat) /\ IsPrefix(s, k)
    BY <1>2, <2>2 DEF StoredPrefixes, IsStrictPrefix
  <2>4. Len(s) \in 0..Len(s) /\ Len(s) <= Len(k) /\ SubSeq(s, 1, Len(s)) = SubSeq(k, 1, Len(s)) /\ 0 = Len(s) - Len(s)
    BY <1>2, <2>3 DEF IsPrefix
  <2>5. Serves(m, k)
    <3>1. m.from = s /\ m.cut = 0 /\ m.done = Len(s)
      BY <2>1
    <3> HIDE DEF m
    <3> QED BY <1>2, <2>4, <3>1 DEF Serves
  <2> QED BY <2>1, <2>3, <2>5
<1>6. CASE /\ k \notin DOMAIN kvOf
           /\ ~(StoredExtensions(k) # {} /\ ~Hybrid)
           /\ StoredPrefixes(k) = {}
  <2> DEFINE s == NearestOf(k)
             n == CommonLength(s, k)
  <2>1. m = IF NearOf(k) = {} \/ Hybrid THEN [from |-> <<>>]
            ELSE [from |-> s, cut |-> Len(s) - n, done |-> n, rest |-> TRUE]
    BY <1>6 DEF MatchFor, NearOf, BestOf, NearestOf
  <2>2. CASE NearOf(k) = {} \/ Hybrid
    BY <2>1, <2>2
  <2>3. CASE ~(NearOf(k) = {} \/ Hybrid)
    <3>1. m.from = s /\ m.cut = Len(s) - n /\ m.done = n
      BY <2>1, <2>3
    <3>2. s \in CacheKeys /\ s \in Seq(Nat)
      BY <1>1, <2>3, NearestFound
    <3> HIDE DEF s
    <3>3. n \in 0..Len(s) /\ n <= Len(k) /\ SubSeq(s, 1, n) = SubSeq(k, 1, n)
      BY <1>2, <3>2, CommonBeginning
    <3> HIDE DEF m, n
    <3>4. Serves(m, k)
      BY <3>1, <3>3 DEF Serves
    <3> QED BY <3>1, <3>2, <3>4 DEF m
  <2> QED BY <2>2, <2>3
<1> QED BY <1>3, <1>4, <1>5, <1>6

\* fetch() looks an entry up: what it finds covers a beginning of what is asked.
LEMMA FetchLooksStep ==
  ASSUME EntriesInv, FetchInv, NEW k \in CacheKeys, FetchLooks(k)
  PROVE  FetchInv'
<1> DEFINE m == MatchFor(k)
<1>1. CASE fetching' = [at |-> "raised", want |-> k]
  BY <1>1 DEF FetchInv
<1>2. CASE fetching' = [at |-> "miss", want |-> k]
  BY <1>2 DEF FetchInv
<1>3. CASE /\ k \in DOMAIN kvOf \/ Looked(k) \subseteq DOMAIN kvOf
           /\ m.from # <<>>
           /\ fetching' = [at |-> "found", want |-> k, from |-> m.from, done |-> m.done,
                           rest |-> m.rest, kv |-> TrimmedKv(kvOf[m.from], m.cut)]
  <2>1. m.from \in CacheKeys /\ Serves(m, k)
    BY <1>3, MatchSound
  <2>2. m.from \in DOMAIN kvOf
    <3>1. CASE k \in DOMAIN kvOf
      BY <3>1 DEF MatchFor
    <3>2. CASE Looked(k) \subseteq DOMAIN kvOf
      <4>1. m.from \in Looked(k)
        BY <1>3 DEF Looked
      <4> QED BY <3>2, <4>1
    <3> QED BY <1>3, <3>1, <3>2
  <2>3. kvOf[m.from] \in KvFor(m.from)
    BY <2>2 DEF EntriesInv
  <2>4. fetching'.kv = TrimmedKv(kvOf[m.from], m.cut) /\ fetching'.want = k /\ fetching'.done = m.done /\ fetching'.at = "found" /\ "at" \in DOMAIN fetching'
    BY <1>3
  <2> HIDE DEF m
  <2>5. PICK n \in 0..Len(m.from) :
          /\ n <= Len(k) /\ SubSeq(m.from, 1, n) = SubSeq(k, 1, n)
          /\ m.cut = Len(m.from) - n /\ m.done = n
    BY <2>1 DEF Serves
  <2>6. m.from \in Seq(Nat \ {0}) /\ k \in Seq(Nat \ {0})
    BY <2>1, MemoryAssumption
  <2>7. HitFits(TrimmedKv(kvOf[m.from], Len(m.from) - n), k, n)
    BY <2>3, <2>5, <2>6, TrimmedFits
  <2>8. HitFits(fetching'.kv, fetching'.want, fetching'.done)
    BY <2>4, <2>5, <2>7
  <2> QED BY <2>4, <2>8 DEF FetchInv
<1> QED BY <1>1, <1>2, <1>3 DEF FetchLooks

\* A key goes to the end of the list of entries, or an entry goes.
LEMMA KeyMoves ==
  ASSUME EntriesInv, NEW k, k \in ToSet(lru)
  PROVE  /\ MovedIn(lru, k) \in Seq(CacheKeys) /\ IsInjective(MovedIn(lru, k))
         /\ ToSet(MovedIn(lru, k)) = ToSet(lru) /\ Len(MovedIn(lru, k)) = Len(lru)
<1>1. lru \in Seq(CacheKeys) /\ IsInjective(lru)
  BY DEF EntriesInv
<1>2. k \in CacheKeys
  BY <1>1 DEF ToSet
<1>3. /\ MovedIn(lru, k) \in Seq(CacheKeys) /\ IsInjective(MovedIn(lru, k))
      /\ ToSet(MovedIn(lru, k)) = ToSet(lru) \cup {k} /\ Len(MovedIn(lru, k)) = Len(lru)
  BY <1>1, <1>2, MovedToEnd
<1> QED BY <1>3

\* A key is taken out of the order of use.
LEMMA KeyLeaves ==
  ASSUME EntriesInv, NEW k, k \in DOMAIN kvOf
  PROVE  /\ LruWithout(k) \in Seq(CacheKeys) /\ IsInjective(LruWithout(k))
         /\ ToSet(LruWithout(k)) = DOMAIN kvOf \ {k}
         /\ Len(LruWithout(k)) = Len(lru) - 1 /\ Len(lru) \in Nat
         /\ k \in CacheKeys /\ IsFiniteSet(DOMAIN kvOf)
<1>1. lru \in Seq(CacheKeys) /\ IsInjective(lru) /\ DOMAIN kvOf = ToSet(lru)
  BY DEF EntriesInv
<1>2. k \in CacheKeys /\ Len(lru) \in Nat
  BY <1>1 DEF ToSet
<1> DEFINE u == LruWithout(k)
<1>3. u \in Seq(CacheKeys) /\ IsInjective(u) /\ ToSet(u) = ToSet(lru) \ {k}
  BY <1>1, SelectedQueue DEF LruWithout
<1> HIDE DEF u
<1>4. IsFiniteSet(ToSet(lru)) /\ Cardinality(ToSet(lru)) = Len(lru) /\ Cardinality(ToSet(u)) = Len(u)
  BY <1>1, <1>3, QueueLength
<1>5. Cardinality(ToSet(lru) \ {k}) = Cardinality(ToSet(lru)) - 1
  BY <1>1, <1>4, OneLess
<1> QED BY <1>1, <1>2, <1>3, <1>4, <1>5 DEF u

\* Steps on the entries leave the files alone.
LEMMA FilesKept ==
  ASSUME SaveInv, life = "serving", UNCHANGED <<life, saved, saving>>, memTorn => memTorn'
  PROVE  SaveInv'
BY DEF SaveInv

\* A store is under way only while the engine serves.
LEMMA StoresServe ==
  ASSUME StoreInv, storing.at # "idle"
  PROVE  life = "serving"
BY DEF StoreInv, MemIdle

\* What is held for a key is as large as it has positions.
LEMMA KvSizes ==
  ASSUME NEW k \in CacheKeys, NEW kv \in KvFor(k)
  PROVE  KvCost(kv) = kv.off /\ kv.off \in Nat /\ kv.off <= MemMax /\ kv.off <= Len(k) /\ kv.of = k
         /\ Len(k) \in Nat /\ k \in Seq(Nat \ {0})
<1>1. k \in Seq(Nat \ {0}) /\ Len(k) \in Nat
  BY MemoryAssumption
<1> QED BY <1>1 DEF KvFor, KvCost

\* Without entries nothing is held.
LEMMA HeldByEmpty ==
  ASSUME NEW m, DOMAIN m = {}
  PROVE  HeldBy(m) = 0
<1> DEFINE g == CostsOf(m)
<1>1. DOMAIN g = {}
  BY DEF CostsOf
<1>2. HeldBy(m) = SumFunctionOnSet(g, {})
  BY <1>1 DEF HeldBy, SumFunction
<1> QED BY <1>2, FS_EmptySet, SumTaken

\* An entry that was there is moved to the end.
LEMMA EntryMoves ==
  ASSUME EntriesInv, NEW k, k \in DOMAIN kvOf, MoveToEnd(k), UNCHANGED <<kvOf, memory, sortedKeys, spillQueue>>
  PROVE  EntriesInv' /\ Len(lru') = Len(lru)
<1>1. k \in ToSet(lru) /\ lru' = MovedIn(lru, k)
  BY DEF EntriesInv, MoveToEnd, LruWithout, MovedIn
<1>2. /\ lru' \in Seq(CacheKeys) /\ IsInjective(lru') /\ ToSet(lru') = ToSet(lru) /\ Len(lru') = Len(lru)
  BY <1>1, KeyMoves
<1> QED BY <1>2 DEF EntriesInv

\* fetch() moves what it found to the end of the order, if it is still there.
LEMMA FetchReturnsStep ==
  ASSUME MemParts, FetchReturns
  PROVE  MemParts'
<1>0. life = "serving" /\ UNCHANGED <<kvOf, memory, sortedKeys, storing, spillQueue, saveVars, memClears, memTorn>>
  BY DEF MemParts, StoreInv, FetchReturns
<1>1. EntriesInv' /\ Len(lru') = Len(lru)
  <2>1. CASE fetching.from \in ToSet(lru) /\ MoveToEnd(fetching.from)
    BY <1>0, <2>1, EntryMoves DEF MemParts, EntriesInv
  <2>2. CASE UNCHANGED lru
    BY <1>0, <2>2 DEF MemParts, EntriesInv
  <2> QED BY <2>1, <2>2 DEF FetchReturns
<1>2. FetchInv'
  <2>1. CASE fetching' = [fetching EXCEPT !.at = "hit"]
    <3>1. "at" \in DOMAIN fetching /\ fetching.at = "found" /\ HitFits(fetching.kv, fetching.want, fetching.done)
      BY DEF MemParts, FetchInv, FetchReturns
    <3>2. /\ "at" \in DOMAIN fetching' /\ fetching'.at = "hit" /\ fetching'.kv = fetching.kv
          /\ fetching'.want = fetching.want /\ fetching'.done = fetching.done
      BY <2>1, <3>1
    <3> QED BY <3>1, <3>2 DEF FetchInv
  <2>2. CASE fetching' = [at |-> "raised", want |-> fetching.want]
    BY <2>2 DEF FetchInv
  <2> QED BY <2>1, <2>2 DEF FetchReturns
<1>3. StoreInv'
  <2>1. UNCHANGED <<life, storing, kvOf>>
    BY <1>0 DEF saveVars
  <2> QED BY <1>0, <2>1 DEF MemParts, StoreInv
<1>4. SaveInv'
  BY <1>0, FilesKept DEF MemParts, saveVars
<1>5. AccountInv'
  BY <1>0, <1>1 DEF MemParts, AccountInv
<1> QED BY <1>1, <1>2, <1>3, <1>4, <1>5 DEF MemParts

\* What store() is given for a sequence.
LEMMA StoredHere ==
  ASSUME NEW k \in CacheKeys, NEW kv, kv.of = k, kv.off \in 0..Len(k), DOMAIN kv = {"of", "off"}, kv = [of |-> kv.of, off |-> kv.off],
         ~TooLarge(kv)
  PROVE  kv \in KvFor(k)
<1>1. kv.off <= MemMax
  BY MemoryAssumption DEF TooLarge, KvCost
<1> QED BY <1>1 DEF KvFor

\* store() begins: an entry that is there is moved to the end, another is trimmed.
LEMMA StoreBeginsStep ==
  ASSUME MemParts, NEW k \in CacheKeys, NEW kind \in StoreKinds, StoreBegins(k, kind)
  PROVE  MemParts'
<1>0. /\ life = "serving" /\ storing = MemIdle
      /\ UNCHANGED <<kvOf, memory, sortedKeys, fetching, spillQueue, saveVars, memClears, memTorn>>
  BY DEF StoreBegins
<1>1. CASE Known(k) /\ MoveToEnd(k) /\ UNCHANGED storing
  <2>1. EntriesInv' /\ Len(lru') = Len(lru)
    BY <1>0, <1>1, EntryMoves DEF MemParts, Known
  <2>2. FetchInv' /\ StoreInv'
    BY <1>0, <1>1 DEF MemParts, FetchInv, StoreInv, saveVars
  <2>3. SaveInv'
    BY <1>0, FilesKept DEF MemParts, saveVars
  <2>4. AccountInv'
    BY <1>0, <1>1, <2>1 DEF MemParts, AccountInv
  <2> QED BY <2>1, <2>2, <2>3, <2>4 DEF MemParts
<1>2. CASE /\ ~Known(k) /\ ~TooLarge(HeldKv(k, kind)) /\ UNCHANGED lru
           /\ storing'.at = "prefixes" /\ storing'.key = k /\ storing'.kv = HeldKv(k, kind) /\ "at" \in DOMAIN storing'
  <2>1. HeldKv(k, kind) \in KvFor(k)
    <3>1. k \in Seq(Nat \ {0}) /\ k # <<>>
      BY MemoryAssumption
    <3>2. Len(k) \in Nat /\ Len(k) # 0
      BY <3>1
    <3>3. HeldKv(k, kind).off \in 0..Len(k)
      BY <3>2 DEF HeldKv
    <3> QED BY <1>2, <3>3, StoredHere DEF HeldKv
  <2>2. EntriesInv' /\ FetchInv'
    BY <1>0, <1>2 DEF MemParts, EntriesInv, FetchInv
  <2>3. StoreInv'
    BY <1>0, <1>2, <2>1 DEF MemParts, StoreInv, saveVars, Known, Promoting
  <2>4. SaveInv'
    BY <1>0, FilesKept DEF MemParts, saveVars
  <2>5. AccountInv'
    BY <1>0, <1>2 DEF MemParts, AccountInv, MemIdle, Promoting
  <2> QED BY <2>2, <2>3, <2>4, <2>5 DEF MemParts
<1> QED BY <1>1, <1>2 DEF StoreBegins, StoreEntry

\* What remains when an entry leaves.
LEMMA EntryLeaves ==
  ASSUME EntriesInv, NEW k, k \in DOMAIN kvOf, lru' = LruWithout(k), UnsetEntry(k),
         memory' = memory - KvCost(kvOf[k]), UNCHANGED <<sortedKeys, spillQueue>>
  PROVE  /\ EntriesInv' /\ DOMAIN kvOf' = DOMAIN kvOf \ {k}
         /\ HeldBy(kvOf') = HeldBy(kvOf) - kvOf[k].off /\ HeldBy(kvOf) \in Int
         /\ Len(lru') = Len(lru) - 1 /\ Len(lru) \in Nat
         /\ memory' = memory - kvOf[k].off /\ memory \in Int
         /\ k \in CacheKeys /\ kvOf[k] \in KvFor(k) /\ kvOf[k].off \in Nat
<1>1. /\ LruWithout(k) \in Seq(CacheKeys) /\ IsInjective(LruWithout(k))
      /\ ToSet(LruWithout(k)) = DOMAIN kvOf \ {k}
      /\ Len(LruWithout(k)) = Len(lru) - 1 /\ Len(lru) \in Nat
      /\ k \in CacheKeys /\ IsFiniteSet(DOMAIN kvOf)
  BY KeyLeaves
<1>2. \A x \in DOMAIN kvOf : kvOf[x] \in KvFor(x) /\ KvCost(kvOf[x]) \in Int /\ KvCost(kvOf[x]) = kvOf[x].off /\ kvOf[x].off \in Nat
  <2> SUFFICES ASSUME NEW x \in DOMAIN kvOf
               PROVE  kvOf[x] \in KvFor(x) /\ KvCost(kvOf[x]) \in Int /\ KvCost(kvOf[x]) = kvOf[x].off /\ kvOf[x].off \in Nat
    OBVIOUS
  <2>1. x \in CacheKeys
    BY DEF EntriesInv, ToSet
  <2>2. kvOf[x] \in KvFor(x)
    BY DEF EntriesInv
  <2> QED BY <2>1, <2>2, KvSizes
<1>3. kvOf' = WithoutEntry(kvOf, k)
  BY DEF UnsetEntry, WithoutEntry
<1>4. HeldBy(kvOf') = HeldBy(kvOf) - KvCost(kvOf[k]) /\ HeldBy(kvOf) \in Int
  BY <1>1, <1>2, <1>3, HeldWithout
<1>5. DOMAIN kvOf' = DOMAIN kvOf \ {k} /\ \A x \in DOMAIN kvOf \ {k} : kvOf'[x] = kvOf[x]
  BY <1>3 DEF WithoutEntry
<1>6. memory \in Int /\ memory' \in Int
  BY <1>2 DEF EntriesInv
<1>7. EntriesInv'
  BY <1>1, <1>2, <1>5, <1>6 DEF EntriesInv
<1> QED BY <1>1, <1>2, <1>4, <1>5, <1>6, <1>7

\* The worker drops an entry, and comes to the index next.
LEMMA PopStep ==
  ASSUME MemParts, life = "serving", storing.at \in {"idle", "prefixes"},
         NEW k, k \in DOMAIN kvOf, lru' = LruWithout(k), UnsetEntry(k),
         memory' = memory - KvCost(kvOf[k]),
         "at" \in DOMAIN storing', storing'.at = "unindex", storing'.victim = k, storing'.spill \in Seq(Spills),
         storing'.key \in CacheKeys, storing'.kv.off = -1 \/ storing'.kv \in KvFor(storing'.key),
         storing'.key \notin DOMAIN kvOf \ {k},
         UNCHANGED <<sortedKeys, fetching, spillQueue, saveVars, memClears, memTorn>>
  PROVE  MemParts'
<1>1. /\ EntriesInv' /\ DOMAIN kvOf' = DOMAIN kvOf \ {k}
      /\ HeldBy(kvOf') = HeldBy(kvOf) - kvOf[k].off /\ HeldBy(kvOf) \in Int
      /\ Len(lru') = Len(lru) - 1 /\ Len(lru) \in Nat
      /\ memory' = memory - kvOf[k].off /\ memory \in Int
      /\ k \in CacheKeys /\ kvOf[k] \in KvFor(k) /\ kvOf[k].off \in Nat
  BY EntryLeaves DEF MemParts
<1>2. FetchInv' /\ StoreInv'
  BY <1>1 DEF MemParts, FetchInv, StoreInv, saveVars, Promoting
<1>3. SaveInv'
  BY FilesKept DEF MemParts, saveVars
<1>4. AccountInv'
  <2> SUFFICES ASSUME ~memTorn
               PROVE  /\ Len(lru') <= MemEntries /\ HeldBy(kvOf') \in Int
                      /\ memory' = HeldBy(kvOf') /\ memory' <= MemMax /\ HeldBy(kvOf') <= MemMax
                      /\ sortedKeys' = DOMAIN kvOf' \cup {k}
    BY DEF AccountInv, Promoting
  <2>1. /\ Len(lru) <= MemEntries /\ memory = HeldBy(kvOf) /\ memory <= MemMax
        /\ sortedKeys = DOMAIN kvOf
    BY DEF MemParts, AccountInv
  <2>2. MemEntries \in Nat /\ MemMax \in Nat
    BY MemoryAssumption
  <2>3. sortedKeys' = DOMAIN kvOf' \cup {k}
    BY <1>1, <2>1
  <2>4. HeldBy(kvOf') \in Int /\ memory' = HeldBy(kvOf')
    BY <1>1, <2>1
  <2>5. memory' <= MemMax /\ Len(lru') <= MemEntries
    BY <1>1, <2>1, <2>2
  <2> QED BY <2>3, <2>4, <2>5
<1> QED BY <1>1, <1>2, <1>3, <1>4 DEF MemParts

\* store() drops an entry that is a prefix of the new one.
LEMMA StoreDropsPrefixStep ==
  ASSUME MemParts, StoreDropsPrefix
  PROVE  MemParts'
<1>0. /\ life = "serving" /\ storing.at = "prefixes" /\ storing.key \in CacheKeys
      /\ storing.kv \in KvFor(storing.key) /\ storing.key \notin DOMAIN kvOf
      /\ UNCHANGED <<sortedKeys, fetching, spillQueue, saveVars, memClears, memTorn>>
  BY StoresServe DEF MemParts, StoreInv, StoreDropsPrefix
<1>1. PICK k : \/ k \in DOMAIN kvOf /\ PopEntry(k, Popped(k, <<>>, storing.doomed \ {k}))
               \/ storing' = MemIdle /\ UNCHANGED ramVars
  BY DEF StoreDropsPrefix
<1>2. CASE k \in DOMAIN kvOf /\ PopEntry(k, Popped(k, <<>>, storing.doomed \ {k}))
  <2>1. /\ lru' = LruWithout(k) /\ UnsetEntry(k) /\ memory' = memory - KvCost(kvOf[k])
        /\ storing' = Popped(k, <<>>, storing.doomed \ {k})
    BY <1>2 DEF PopEntry
  <2>2. /\ "at" \in DOMAIN storing' /\ storing'.at = "unindex" /\ storing'.victim = k
        /\ storing'.spill = <<>> /\ storing'.key = storing.key /\ storing'.kv = storing.kv
    BY <2>1 DEF Popped
  <2>3. <<>> \in Seq(Spills)
    OBVIOUS
  <2> QED BY <1>0, <1>2, <2>1, <2>2, <2>3, PopStep
<1>3. CASE storing' = MemIdle /\ UNCHANGED ramVars
  <2>1. EntriesInv' /\ FetchInv'
    BY <1>0, <1>3 DEF MemParts, EntriesInv, FetchInv, ramVars
  <2>2. StoreInv'
    BY <1>0, <1>3 DEF MemParts, StoreInv, MemIdle, saveVars, Promoting
  <2>3. SaveInv'
    BY <1>0, FilesKept DEF MemParts, saveVars
  <2>4. AccountInv'
    BY <1>0, <1>3 DEF MemParts, AccountInv, MemIdle, Promoting, ramVars
  <2> QED BY <2>1, <2>2, <2>3, <2>4 DEF MemParts
<1> QED BY <1>1, <1>2, <1>3

\* A queue of one spilled entry.
LEMMA SpillOfOne ==
  ASSUME NEW k \in CacheKeys, NEW kv \in KvFor(k)
  PROVE  <<[key |-> k, kv |-> kv]>> \in Seq(Spills)
<1>1. [key |-> k, kv |-> kv] \in Spills
  BY DEF Spills
<1> QED BY <1>1

\* store() takes the least recently used entry out, with what it holds.
LEMMA StoreEvictsStep ==
  ASSUME MemParts, StoreEvicts
  PROVE  MemParts'
<1>0. /\ life = "serving" /\ storing.at = "prefixes" /\ storing.key \in CacheKeys
      /\ storing.kv \in KvFor(storing.key) /\ storing.key \notin DOMAIN kvOf /\ lru # <<>>
      /\ UNCHANGED <<sortedKeys, fetching, spillQueue, saveVars, memClears, memTorn>>
  BY StoresServe DEF MemParts, StoreInv, StoreEvicts
<1>1. Head(lru) \in DOMAIN kvOf /\ Head(lru) \in CacheKeys
  BY <1>0, TailOfQueue DEF MemParts, EntriesInv
<1>2. PICK k : k = Head(lru)
  OBVIOUS
<1>3. PopEntry(k, Popped(k, <<[key |-> k, kv |-> kvOf[k]]>>, {}))
  BY <1>2 DEF StoreEvicts
<1>4. /\ lru' = LruWithout(k) /\ UnsetEntry(k) /\ memory' = memory - KvCost(kvOf[k])
      /\ storing' = Popped(k, <<[key |-> k, kv |-> kvOf[k]]>>, {})
  BY <1>3 DEF PopEntry
<1>5. /\ "at" \in DOMAIN storing' /\ storing'.at = "unindex" /\ storing'.victim = k
      /\ storing'.spill = <<[key |-> k, kv |-> kvOf[k]]>> /\ storing'.key = storing.key /\ storing'.kv = storing.kv
  BY <1>4 DEF Popped
<1>6. kvOf[k] \in KvFor(k)
  BY <1>1, <1>2 DEF MemParts, EntriesInv
<1>7. <<[key |-> k, kv |-> kvOf[k]]>> \in Seq(Spills)
  BY <1>1, <1>2, <1>6, SpillOfOne
<1> QED BY <1>0, <1>1, <1>2, <1>4, <1>5, <1>7, PopStep

\* An entry is removed from outside, on the event loop.
LEMMA RemoveEntryStep ==
  ASSUME MemParts, NEW k \in CacheKeys, RemoveEntry(k)
  PROVE  MemParts'
<1>0. /\ life = "serving" /\ storing = MemIdle /\ k \in DOMAIN kvOf
      /\ UNCHANGED <<sortedKeys, fetching, spillQueue, saveVars, memClears, memTorn>>
  BY DEF RemoveEntry
<1>1. /\ lru' = LruWithout(k) /\ UnsetEntry(k) /\ memory' = memory - KvCost(kvOf[k])
      /\ storing' = [at |-> "unindex", victim |-> k, spill |-> <<>>, doomed |-> {},
                     key |-> k, kv |-> [of |-> k, off |-> -1]]
  BY DEF RemoveEntry, PopEntry
<1>2. /\ "at" \in DOMAIN storing' /\ storing'.at = "unindex" /\ storing'.victim = k
      /\ storing'.spill = <<>> /\ storing'.key = k /\ storing'.kv.off = -1
  BY <1>1
<1>3. <<>> \in Seq(Spills)
  OBVIOUS
<1>4. storing.at = "idle"
  BY <1>0 DEF MemIdle
<1> QED BY <1>0, <1>1, <1>2, <1>3, <1>4, PopStep

\* The key of the evicted entry leaves the sorted keys.
LEMMA StoreUnindexesStep ==
  ASSUME MemParts, StoreUnindexes
  PROVE  MemParts'
<1>0. /\ life = "serving" /\ storing.at = "unindex" /\ storing.key \in CacheKeys /\ storing.victim \in CacheKeys
      /\ storing.kv.off = -1 \/ storing.kv \in KvFor(storing.key)
      /\ storing.key \notin DOMAIN kvOf /\ storing.victim \notin DOMAIN kvOf /\ storing.spill \in Seq(Spills)
      /\ sortedKeys' = sortedKeys \ {storing.victim}
      /\ UNCHANGED <<lru, kvOf, memory, fetching, saveVars, memClears, memTorn>>
  BY StoresServe DEF MemParts, StoreInv, StoreUnindexes, Unindexed
<1>1. /\ "at" \in DOMAIN storing'
      /\ storing' = MemIdle \/ /\ storing'.at = "prefixes" /\ storing'.key = storing.key /\ storing'.kv = storing.kv
                               /\ storing.kv.off # -1
  BY DEF StoreUnindexes, MemIdle
<1>2. spillQueue' \in Seq(Spills)
  <2>1. spillQueue' = spillQueue \/ spillQueue' = spillQueue \o storing.spill
    BY DEF StoreUnindexes, EnqueueSpill
  <2>2. spillQueue \in Seq(Spills) /\ storing.spill \in Seq(Spills)
    BY <1>0 DEF MemParts, EntriesInv
  <2>3. spillQueue \o storing.spill \in Seq(Spills)
    BY <2>2
  <2> QED BY <2>1, <2>2, <2>3
<1>3. EntriesInv'
  <2>1. IsFiniteSet(sortedKeys')
    BY <1>0, FS_Subset DEF MemParts, EntriesInv
  <2> QED BY <1>0, <1>2, <2>1 DEF MemParts, EntriesInv
<1>4. FetchInv'
  BY <1>0 DEF MemParts, FetchInv
<1>5. StoreInv'
  <2>1. CASE storing' = MemIdle
    BY <1>0, <2>1 DEF MemParts, StoreInv, MemIdle, saveVars, Promoting
  <2>2. CASE storing' # MemIdle
    BY <1>0, <1>1, <2>2 DEF MemParts, StoreInv, saveVars, Promoting
  <2> QED BY <2>1, <2>2
<1>6. SaveInv'
  BY <1>0, FilesKept DEF MemParts, saveVars
<1>7. AccountInv'
  <2> SUFFICES ASSUME ~memTorn
               PROVE  /\ Len(lru') <= MemEntries /\ HeldBy(kvOf') \in Int
                      /\ memory' = HeldBy(kvOf') /\ memory' <= MemMax /\ HeldBy(kvOf') <= MemMax
                      /\ sortedKeys' = DOMAIN kvOf'
    BY <1>0, <1>1 DEF AccountInv, Promoting, MemIdle
  <2>1. /\ Len(lru) <= MemEntries /\ memory = HeldBy(kvOf) /\ memory <= MemMax /\ HeldBy(kvOf) \in Int
        /\ sortedKeys = DOMAIN kvOf \cup {storing.victim}
    BY <1>0 DEF MemParts, AccountInv
  <2> QED BY <1>0, <2>1
<1> QED BY <1>3, <1>4, <1>5, <1>6, <1>7 DEF MemParts

\* store() puts the entry in.
LEMMA StoreInsertsStep ==
  ASSUME MemParts, StoreInserts
  PROVE  MemParts'
<1> DEFINE k == storing.key
           kv == storing.kv
<1>0. /\ life = "serving" /\ storing.at = "prefixes" /\ k \in CacheKeys /\ kv \in KvFor(k) /\ k \notin DOMAIN kvOf
      /\ "at" \in DOMAIN storing
      /\ SetEntry(k, kv) /\ lru' = Append(lru, k) /\ ~(NeedsRoom /\ lru # <<>>)
      /\ storing' = [storing EXCEPT !.at = "account"]
      /\ UNCHANGED <<memory, sortedKeys, fetching, spillQueue, saveVars, memClears, memTorn>>
  BY StoresServe DEF MemParts, StoreInv, StoreInserts
<1>1. "at" \in DOMAIN storing' /\ storing'.at = "account" /\ storing'.key = k /\ storing'.kv = kv
  BY <1>0
<1>2. kvOf' = WithEntry(kvOf, k, kv)
  BY <1>0 DEF SetEntry, WithEntry
<1>3. DOMAIN kvOf' = DOMAIN kvOf \cup {k} /\ kvOf'[k] = kv /\ \A x \in DOMAIN kvOf : kvOf'[x] = kvOf[x]
  BY <1>0, <1>2 DEF WithEntry
<1>4. KvCost(kv) = kv.off /\ kv.off \in Nat /\ kv.off <= MemMax
  BY <1>0, KvSizes
<1>5. k \notin ToSet(lru) /\ lru \in Seq(CacheKeys) /\ IsInjective(lru)
  BY <1>0 DEF MemParts, EntriesInv
<1> HIDE DEF k, kv
<1>6. /\ lru' \in Seq(CacheKeys) /\ IsInjective(lru') /\ ToSet(lru') = ToSet(lru) \cup {k}
  BY <1>0, <1>5, AppendToQueue
<1>7. Len(lru') = Len(lru) + 1 /\ Len(lru) \in Nat
  BY <1>0, <1>5
<1>8. \A x \in DOMAIN kvOf : x \in CacheKeys /\ kvOf[x] \in KvFor(x) /\ KvCost(kvOf[x]) \in Int
  <2> SUFFICES ASSUME NEW x \in DOMAIN kvOf PROVE x \in CacheKeys /\ kvOf[x] \in KvFor(x) /\ KvCost(kvOf[x]) \in Int
    OBVIOUS
  <2>1. x \in CacheKeys
    BY DEF MemParts, EntriesInv, ToSet
  <2>2. kvOf[x] \in KvFor(x)
    BY DEF MemParts, EntriesInv
  <2> QED BY <2>1, <2>2, KvSizes
<1>9. HeldBy(kvOf') = HeldBy(kvOf) + kv.off /\ HeldBy(kvOf) \in Int
  <2>1. IsFiniteSet(DOMAIN kvOf)
    BY <1>5, QueueLength DEF MemParts, EntriesInv
  <2>2. HeldBy(kvOf') = HeldBy(kvOf) + KvCost(kv) /\ HeldBy(kvOf) \in Int
    BY <1>0, <1>2, <1>4, <1>8, <2>1, HeldWith
  <2> QED BY <1>4, <2>2
<1>10. EntriesInv'
  BY <1>0, <1>3, <1>6, <1>8 DEF MemParts, EntriesInv
<1>11. FetchInv'
  BY <1>0 DEF MemParts, FetchInv
<1>12. StoreInv'
  BY <1>0, <1>1 DEF MemParts, StoreInv, saveVars, Promoting
<1>13. SaveInv'
  BY <1>0, FilesKept DEF MemParts, saveVars
<1>14. AccountInv'
  <2> SUFFICES ASSUME ~memTorn
               PROVE  /\ Len(lru') <= MemEntries /\ HeldBy(kvOf') \in Int
                      /\ memory + kv.off = HeldBy(kvOf') /\ memory <= MemMax /\ HeldBy(kvOf') <= MemMax
                      /\ k \in DOMAIN kvOf' /\ sortedKeys = DOMAIN kvOf' \ {k}
    BY <1>0, <1>1 DEF AccountInv, Promoting
  <2>1. /\ Len(lru) <= MemEntries /\ memory = HeldBy(kvOf) /\ memory <= MemMax /\ sortedKeys = DOMAIN kvOf
    BY <1>0 DEF MemParts, AccountInv
  <2>2. MemEntries \in Nat /\ MemEntries # 0 /\ MemMax \in Nat
    BY MemoryAssumption
  <2>3. CASE lru = <<>>
    <3>1. DOMAIN kvOf = {} /\ Len(lru) = 0
      BY <2>3 DEF MemParts, EntriesInv, ToSet
    <3>2. HeldBy(kvOf) = 0
      BY <3>1, HeldByEmpty
    <3> QED BY <1>0, <1>3, <1>4, <1>7, <1>9, <2>1, <2>2, <3>1, <3>2
  <2>4. CASE ~NeedsRoom
    <3>1. memory + kv.off <= MemMax /\ Len(lru) < MemEntries
      <4>1. ~(memory + KvCost(kv) > MemMax) /\ ~(Len(lru) >= MemEntries)
        BY <2>4 DEF NeedsRoom, kv
      <4>2. memory \in Int
        BY DEF MemParts, EntriesInv
      <4> QED BY <1>4, <1>7, <2>2, <4>1, <4>2
    <3>2. memory + kv.off = HeldBy(kvOf') /\ HeldBy(kvOf') \in Int
      BY <1>4, <1>9, <2>1
    <3>3. Len(lru') <= MemEntries
      BY <1>7, <2>2, <3>1
    <3>4. k \in DOMAIN kvOf' /\ sortedKeys = DOMAIN kvOf' \ {k}
      BY <1>0, <1>3, <2>1 DEF k
    <3> QED BY <2>1, <3>1, <3>2, <3>3, <3>4
  <2> QED BY <1>0, <2>3, <2>4
<1> QED BY <1>10, <1>11, <1>12, <1>13, <1>14 DEF MemParts

\* store() counts the entry.
LEMMA StoreAccountsStep ==
  ASSUME MemParts, StoreAccounts
  PROVE  MemParts'
<1>0. /\ life = "serving" /\ storing.at = "account" /\ "at" \in DOMAIN storing
      /\ storing.key \in CacheKeys /\ storing.kv \in KvFor(storing.key)
      /\ memory' = memory + KvCost(storing.kv) /\ storing' = [storing EXCEPT !.at = "index"]
      /\ UNCHANGED <<lru, kvOf, sortedKeys, fetching, spillQueue, saveVars, memClears, memTorn>>
  BY StoresServe DEF MemParts, StoreInv, StoreAccounts
<1>1. "at" \in DOMAIN storing' /\ storing'.at = "index" /\ storing'.key = storing.key /\ storing'.kv = storing.kv
  BY <1>0
<1>2. KvCost(storing.kv) = storing.kv.off /\ storing.kv.off \in Nat
  BY <1>0, KvSizes
<1>3. EntriesInv' /\ FetchInv'
  BY <1>0, <1>2 DEF MemParts, EntriesInv, FetchInv
<1>4. StoreInv'
  BY <1>0, <1>1 DEF MemParts, StoreInv, saveVars, Promoting
<1>5. SaveInv'
  BY <1>0, FilesKept DEF MemParts, saveVars
<1>6. AccountInv'
  BY <1>0, <1>1, <1>2 DEF MemParts, AccountInv, Promoting
<1> QED BY <1>3, <1>4, <1>5, <1>6 DEF MemParts

\* store() puts the key among the sorted ones.
LEMMA StoreIndexesStep ==
  ASSUME MemParts, StoreIndexes
  PROVE  MemParts'
<1>0. /\ life = "serving" /\ storing.at = "index" /\ storing.key \in CacheKeys
      /\ sortedKeys' = sortedKeys \cup {storing.key} /\ storing' = MemIdle
      /\ UNCHANGED <<lru, kvOf, memory, fetching, spillQueue, saveVars, memClears, memTorn>>
  BY StoresServe DEF MemParts, StoreInv, StoreIndexes
<1>1. IsFiniteSet(sortedKeys')
  BY <1>0, FS_AddElement DEF MemParts, EntriesInv
<1>2. EntriesInv' /\ FetchInv'
  BY <1>0, <1>1 DEF MemParts, EntriesInv, FetchInv
<1>3. StoreInv'
  BY <1>0 DEF MemParts, StoreInv, MemIdle, saveVars, Promoting
<1>4. SaveInv'
  BY <1>0, FilesKept DEF MemParts, saveVars
<1>5. AccountInv'
  BY <1>0 DEF MemParts, AccountInv, MemIdle, Promoting
<1> QED BY <1>2, <1>3, <1>4, <1>5 DEF MemParts

\* The cache is empty after a clear, a crash and at the start.
EmptyRam == lru = <<>> /\ kvOf = <<>> /\ memory = 0 /\ sortedKeys = {}

\* A cache without entries is in order.
LEMMA EmptyCache ==
  ASSUME EmptyRam
  PROVE  /\ spillQueue \in Seq(Spills) => EntriesInv
         /\ storing = MemIdle => AccountInv
         /\ DOMAIN kvOf = {}
<1>1. /\ lru \in Seq(CacheKeys) /\ IsInjective(lru) /\ DOMAIN kvOf = {} /\ ToSet(lru) = {} /\ Len(lru) = 0
  BY DEF EmptyRam, IsInjective, ToSet
<1>2. HeldBy(kvOf) = 0
  BY <1>1, HeldByEmpty
<1>3. MemMax \in Nat /\ MemEntries \in Nat
  BY MemoryAssumption
<1>4. IsFiniteSet({})
  BY FS_EmptySet
<1> QED BY <1>1, <1>2, <1>3, <1>4 DEF EmptyRam, EntriesInv, AccountInv, MemIdle, Promoting

\* The same after a step.
LEMMA EmptiedCache ==
  ASSUME EmptyRam'
  PROVE  /\ spillQueue' \in Seq(Spills) => EntriesInv'
         /\ storing' = MemIdle => AccountInv'
         /\ DOMAIN kvOf' = {}
<1>1. /\ lru' \in Seq(CacheKeys) /\ IsInjective(lru') /\ DOMAIN kvOf' = {} /\ ToSet(lru') = {} /\ Len(lru') = 0
  BY DEF EmptyRam, IsInjective, ToSet
<1>2. HeldBy(kvOf') = 0
  BY <1>1, HeldByEmpty
<1>3. MemMax \in Nat /\ MemEntries \in Nat
  BY MemoryAssumption
<1>4. IsFiniteSet({})
  BY FS_EmptySet
<1> QED BY <1>1, <1>2, <1>3, <1>4 DEF EmptyRam, EntriesInv, AccountInv, MemIdle, Promoting

\* clear(), while a store may be under way.
LEMMA ClearMemoryStep ==
  ASSUME MemParts, ClearMemory
  PROVE  MemParts'
<1>0. /\ life = "serving" /\ EmptyRam' /\ memTorn' = (memTorn \/ storing # MemIdle)
      /\ UNCHANGED <<fetching, storing, spillQueue, saveVars>>
  BY DEF ClearMemory, EmptyRam
<1>1. /\ spillQueue' \in Seq(Spills) => EntriesInv'
      /\ storing' = MemIdle => AccountInv'
      /\ DOMAIN kvOf' = {}
  BY <1>0, EmptiedCache
<1>2. EntriesInv' /\ FetchInv'
  BY <1>0, <1>1 DEF MemParts, EntriesInv, FetchInv
<1>3. StoreInv'
  BY <1>0, <1>1 DEF MemParts, StoreInv, saveVars
<1>4. SaveInv'
  BY <1>0, FilesKept DEF MemParts, saveVars
<1>5. AccountInv'
  BY <1>0, <1>1 DEF AccountInv
<1> QED BY <1>2, <1>3, <1>4, <1>5 DEF MemParts

--------------------------------------------------------------------------------
(* Save, stop, restart and load.                                             *)

\* A file is written in its place among the others.
LEMMA PutThere ==
  ASSUME NEW s, Len(s) \in Nat, NEW i \in Nat \ {0}, NEW x
  PROVE  /\ Len(PutAt(s, i, x)) \in Nat /\ Len(PutAt(s, i, x)) >= i /\ Len(PutAt(s, i, x)) >= Len(s)
         /\ PutAt(s, i, x)[i] = x
         /\ \A j \in 1..Len(s) : j # i => PutAt(s, i, x)[j] = s[j]
<1> DEFINE n == IF i > Len(s) THEN i ELSE Len(s)
           f(j) == IF j = i THEN x ELSE s[j]
           p == [j \in 1..n |-> f(j)]
<1>1. n \in Nat /\ n >= i /\ n >= Len(s) /\ i \in 1..n
  OBVIOUS
<1>2. PutAt(s, i, x) = p
  BY DEF PutAt
<1> HIDE DEF n, f
<1>3. Len(p) = n /\ \A j \in 1..n : p[j] = f(j)
  BY <1>1
<1> HIDE DEF p
<1>4. p[i] = x
  BY <1>1, <1>3 DEF f
<1>5. \A j \in 1..Len(s) : j \in 1..n
  BY <1>1
<1>6. \A j \in 1..Len(s) : j # i => p[j] = s[j]
  BY <1>3, <1>5 DEF f
<1> QED BY <1>1, <1>2, <1>3, <1>4, <1>6

\* The engine stops: the save begins.
LEMMA StopBeginsStep ==
  ASSUME MemParts, StopBegins
  PROVE  MemParts'
<1>0. /\ life = "serving" /\ storing = MemIdle /\ fetching' = MemIdle
      /\ \/ life' = "down" /\ UNCHANGED saving
         \/ life' = "saving" /\ saving' = 1 /\ lru # <<>>
      /\ UNCHANGED <<ramVars, storing, spillQueue, lives, saved, hasTier, saveTorn, memClears, memTorn>>
  BY DEF StopBegins
<1>1. EntriesInv' /\ FetchInv'
  BY <1>0 DEF MemParts, EntriesInv, FetchInv, MemIdle, ramVars
<1>2. StoreInv'
  BY <1>0 DEF MemParts, StoreInv, MemIdle, ramVars, Promoting
<1>3. SaveInv'
  <2>1. CASE life' = "down"
    BY <1>0, <2>1 DEF MemParts, SaveInv
  <2>2. CASE life' = "saving" /\ saving' = 1
    <3>1. Len(lru) \in Nat /\ lru' = lru /\ Len(saved.kvs) \in Nat /\ Len(saved.tokens) \in Nat /\ saved' = saved
      BY <1>0 DEF MemParts, EntriesInv, SaveInv, ramVars
    <3>2. saving' \in 1..(Len(lru') + 1) /\ saving' - 1 = 0
      BY <2>2, <3>1
    <3>3. SavedUpTo(0, 0)'
      BY <3>1 DEF SavedUpTo
    <3>4. DOMAIN saved' = {"kvs", "tokens", "index"} /\ Len(saved'.kvs) \in Nat /\ Len(saved'.tokens) \in Nat
      BY <3>1 DEF MemParts, SaveInv
    <3> QED BY <2>2, <3>2, <3>3, <3>4 DEF SaveInv
  <2> QED BY <1>0, <2>1, <2>2
<1>4. AccountInv'
  BY <1>0 DEF MemParts, AccountInv, ramVars
<1> QED BY <1>1, <1>2, <1>3, <1>4 DEF MemParts

\* A step of the save: the entries are as they were.
LEMMA SavingKeeps ==
  ASSUME MemParts, life = "saving", life' \in {"saving", "down"},
         UNCHANGED <<ramVars, fetching, storing, spillQueue, memTorn>>
  PROVE  EntriesInv' /\ FetchInv' /\ StoreInv' /\ AccountInv'
<1>1. EntriesInv' /\ FetchInv'
  BY DEF MemParts, EntriesInv, FetchInv, ramVars
<1>2. StoreInv'
  BY DEF MemParts, StoreInv, ramVars
<1>3. AccountInv'
  BY DEF MemParts, AccountInv, ramVars
<1> QED BY <1>1, <1>2, <1>3

\* The file with the keys and values of the next entry.
LEMMA SaveKvStep ==
  ASSUME MemParts, SaveKv
  PROVE  MemParts'
<1>0. /\ life = "saving" /\ saving \in 1..Len(lru) /\ saving' = -saving /\ life' = life
      /\ saved' = [saved EXCEPT !.kvs = PutAt(@, saving, kvOf[lru[saving]])]
      /\ UNCHANGED <<ramVars, fetching, storing, spillQueue, memTorn>>
  BY DEF SaveKv
<1>1. EntriesInv' /\ FetchInv' /\ StoreInv' /\ AccountInv'
  BY <1>0, SavingKeeps
<1>2. /\ DOMAIN saved = {"kvs", "tokens", "index"} /\ Len(saved.kvs) \in Nat /\ Len(saved.tokens) \in Nat
      /\ Len(lru) \in Nat /\ lru' = lru /\ kvOf' = kvOf
  BY <1>0 DEF MemParts, SaveInv, EntriesInv, ramVars
<1>3. saving \in Nat \ {0} /\ saving <= Len(lru) /\ -saving \notin 1..Len(lru)
  BY <1>0, <1>2
<1>4. SavedUpTo(saving - 1, saving - 1)
  BY <1>0, <1>3 DEF MemParts, SaveInv
<1> DEFINE new == PutAt(saved.kvs, saving, kvOf[lru[saving]])
<1>5. /\ Len(new) \in Nat /\ Len(new) >= saving /\ new[saving] = kvOf[lru[saving]]
      /\ \A j \in 1..Len(saved.kvs) : j # saving => new[j] = saved.kvs[j]
  BY <1>2, <1>3, PutThere
<1>6. DOMAIN saved' = {"kvs", "tokens", "index"} /\ saved'.kvs = new /\ saved'.tokens = saved.tokens
  BY <1>0, <1>2
<1> HIDE DEF new
<1>7. \A i \in 1..saving : new[i] = kvOf[lru[i]]
  <2> SUFFICES ASSUME NEW i \in 1..saving PROVE new[i] = kvOf[lru[i]]
    OBVIOUS
  <2>1. CASE i = saving
    BY <1>5, <2>1
  <2>2. CASE i # saving
    <3>1. i \in 1..(saving - 1) /\ i \in 1..Len(saved.kvs)
      BY <1>2, <1>3, <1>4, <2>2 DEF SavedUpTo
    <3> QED BY <1>4, <1>5, <2>2, <3>1 DEF SavedUpTo
  <2> QED BY <2>1, <2>2
<1>8. -saving' = saving /\ -saving' - 1 = saving - 1 /\ -saving' \in 1..Len(lru')
  BY <1>0, <1>2, <1>3
<1>9. SavedUpTo(-saving, -saving - 1)'
  BY <1>2, <1>4, <1>5, <1>6, <1>7, <1>8 DEF SavedUpTo
<1>10. SaveInv'
  BY <1>0, <1>2, <1>5, <1>6, <1>8, <1>9 DEF SaveInv
<1> QED BY <1>1, <1>10 DEF MemParts

\* The file with its tokens.
LEMMA SaveTokensStep ==
  ASSUME MemParts, SaveTokens
  PROVE  MemParts'
<1> DEFINE n == -saving
<1>0. /\ life = "saving" /\ saving < 0 /\ saving' = 1 - saving /\ life' = life
      /\ saved' = [saved EXCEPT !.tokens = PutAt(@, -saving, lru[-saving])]
      /\ UNCHANGED <<ramVars, fetching, storing, spillQueue, memTorn>>
  BY DEF SaveTokens
<1>1. EntriesInv' /\ FetchInv' /\ StoreInv' /\ AccountInv'
  BY <1>0, SavingKeeps
<1>2. /\ DOMAIN saved = {"kvs", "tokens", "index"} /\ Len(saved.kvs) \in Nat /\ Len(saved.tokens) \in Nat
      /\ Len(lru) \in Nat /\ lru' = lru /\ kvOf' = kvOf
  BY <1>0 DEF MemParts, SaveInv, EntriesInv, ramVars
<1>3. n \in 1..Len(lru) /\ SavedUpTo(n, n - 1)
  <2>1. saving \notin 1..(Len(lru) + 1)
    BY <1>0, <1>2
  <2> QED BY <1>0, <2>1 DEF MemParts, SaveInv
<1>4. saving' = n + 1
  <2>1. saving \in Int
    BY DEF MemParts, SaveInv
  <2> QED BY <1>0, <2>1
<1>5. saved' = [saved EXCEPT !.tokens = PutAt(@, n, lru[n])]
  BY <1>0
<1> HIDE DEF n
<1> DEFINE new == PutAt(saved.tokens, n, lru[n])
<1>6. n \in Nat \ {0} /\ n <= Len(lru)
  BY <1>2, <1>3
<1>7. /\ Len(new) \in Nat /\ Len(new) >= n /\ new[n] = lru[n]
      /\ \A j \in 1..Len(saved.tokens) : j # n => new[j] = saved.tokens[j]
  BY <1>2, <1>6, PutThere
<1>8. DOMAIN saved' = {"kvs", "tokens", "index"} /\ saved'.kvs = saved.kvs /\ saved'.tokens = new
  BY <1>2, <1>5
<1> HIDE DEF new
<1>9. \A i \in 1..n : new[i] = lru[i]
  <2> SUFFICES ASSUME NEW i \in 1..n PROVE new[i] = lru[i]
    OBVIOUS
  <2>1. CASE i = n
    BY <1>7, <2>1
  <2>2. CASE i # n
    <3>1. i \in 1..(n - 1) /\ i \in 1..Len(saved.tokens)
      BY <1>2, <1>6, <1>3, <2>2 DEF SavedUpTo
    <3> QED BY <1>3, <1>7, <2>2, <3>1 DEF SavedUpTo
  <2> QED BY <2>1, <2>2
<1>10. saving' \in 1..(Len(lru') + 1) /\ saving' - 1 = n
  BY <1>2, <1>4, <1>6
<1>11. SavedUpTo(saving - 1, saving - 1)'
  BY <1>2, <1>3, <1>7, <1>8, <1>9, <1>10, ZenonT(30) DEF SavedUpTo
<1>12. SaveInv'
  BY <1>0, <1>2, <1>7, <1>8, <1>10, <1>11 DEF SaveInv
<1> QED BY <1>1, <1>12 DEF MemParts

\* The index, at the end of the save.
LEMMA SaveIndexStep ==
  ASSUME MemParts, SaveIndex
  PROVE  MemParts'
<1>0. /\ life = "saving" /\ saving > Len(lru) /\ saving' = 0 /\ life' = "down"
      /\ saved' = [saved EXCEPT !.index = [i \in DOMAIN lru |-> Len(lru[i])]]
      /\ UNCHANGED <<ramVars, fetching, storing, spillQueue, memTorn>>
  BY DEF SaveIndex
<1>1. EntriesInv' /\ FetchInv' /\ StoreInv' /\ AccountInv'
  BY <1>0, SavingKeeps
<1>2. /\ DOMAIN saved = {"kvs", "tokens", "index"} /\ Len(saved.kvs) \in Nat /\ Len(saved.tokens) \in Nat
      /\ Len(lru) \in Nat /\ lru \in Seq(CacheKeys) /\ IsInjective(lru) /\ lru' = lru /\ kvOf' = kvOf /\ DOMAIN lru = 1..Len(lru)
  BY <1>0 DEF MemParts, SaveInv, EntriesInv, ramVars
<1>3. saving = Len(lru) + 1 /\ SavedUpTo(saving - 1, saving - 1)
  <2>1. -saving \notin 1..Len(lru)
    <3>1. saving \in Int
      BY DEF MemParts, SaveInv
    <3> QED BY <1>0, <1>2, <3>1
  <2>2. saving \in 1..(Len(lru) + 1) /\ SavedUpTo(saving - 1, saving - 1)
    BY <1>0, <2>1 DEF MemParts, SaveInv
  <2> QED BY <1>0, <1>2, <2>2
<1>4. saving - 1 = Len(lru)
  BY <1>2, <1>3
<1>5. \A i \in 1..Len(lru) : saved.kvs[i] = kvOf[lru[i]] /\ saved.tokens[i] = lru[i]
  BY <1>3, <1>4 DEF SavedUpTo
<1> DEFINE new == [i \in DOMAIN lru |-> Len(lru[i])]
<1>6. \A i \in 1..Len(lru) : lru[i] \in CacheKeys /\ Len(lru[i]) \in Nat /\ kvOf[lru[i]] \in KvFor(lru[i])
  <2> SUFFICES ASSUME NEW i \in 1..Len(lru) PROVE lru[i] \in CacheKeys /\ Len(lru[i]) \in Nat /\ kvOf[lru[i]] \in KvFor(lru[i])
    OBVIOUS
  <2>1. lru[i] \in CacheKeys /\ lru[i] \in ToSet(lru)
    BY <1>2 DEF ToSet
  <2>2. Len(lru[i]) \in Nat
    BY <2>1, MemoryAssumption
  <2> QED BY <2>1, <2>2 DEF MemParts, EntriesInv
<1>7. new \in Seq(Nat) /\ Len(new) = Len(lru) /\ DOMAIN new = 1..Len(lru) /\ \A i \in 1..Len(lru) : new[i] = Len(lru[i])
  BY <1>2, <1>6
<1>8. DOMAIN saved' = {"kvs", "tokens", "index"} /\ saved'.kvs = saved.kvs /\ saved'.tokens = saved.tokens /\ saved'.index = new
  BY <1>0, <1>2
<1> HIDE DEF new
<1>9. \A i, j \in 1..Len(lru) : lru[i] = lru[j] => i = j
  BY <1>2 DEF IsInjective
<1>10. ~memTorn' => Len(lru) <= MemEntries
  BY <1>0 DEF MemParts, AccountInv
<1>11. SaveInv'
  <2>1. /\ life' = "down" /\ saving' = 0 /\ Len(saved'.kvs) \in Nat /\ Len(saved'.tokens) \in Nat
    BY <1>0, <1>2, <1>8
  <2>2. \A i \in DOMAIN new : /\ saved'.tokens[i] = lru[i] /\ saved'.kvs[i] = kvOf[lru[i]]
    BY <1>5, <1>7, <1>8
  <2>3. \A i \in DOMAIN saved'.index :
          /\ saved'.tokens[i] \in CacheKeys /\ Len(saved'.tokens[i]) = saved'.index[i]
          /\ saved'.kvs[i] \in KvFor(saved'.tokens[i])
    BY <1>6, <1>7, <1>8, <2>2
  <2>4. \A i, j \in DOMAIN saved'.index : saved'.tokens[i] = saved'.tokens[j] => i = j
    BY <1>7, <1>8, <1>9, <2>2
  <2>5. ~memTorn' => Len(saved'.index) <= MemEntries
    BY <1>7, <1>8, <1>10
  <2> QED BY <1>7, <1>8, <2>1, <2>3, <2>4, <2>5 DEF SaveInv
<1> QED BY <1>1, <1>11 DEF MemParts

\* The process dies in the middle of the first save.
LEMMA DiesSavingStep ==
  ASSUME MemParts, DiesSaving, ~saveTorn'
  PROVE  MemParts'
<1>0. /\ life = "saving" /\ life' = "down" /\ saved.index = <<>>
      /\ UNCHANGED <<ramVars, fetching, storing, spillQueue, saved, memTorn>>
  BY DEF DiesSaving
<1>1. EntriesInv' /\ FetchInv' /\ StoreInv' /\ AccountInv'
  BY <1>0, SavingKeeps
<1>2. MemEntries \in Nat
  BY MemoryAssumption
<1>3. \A s : s = <<>> => s \in Seq(Nat) /\ Len(s) = 0 /\ DOMAIN s = {}
  OBVIOUS
<1>4. SaveInv'
  <2>1. saving' = 0 /\ saved' = saved
    BY <1>0 DEF DiesSaving
  <2>2. DOMAIN saved = {"kvs", "tokens", "index"} /\ Len(saved.kvs) \in Nat /\ Len(saved.tokens) \in Nat
    BY DEF MemParts, SaveInv
  <2>3. saved'.index \in Seq(Nat) /\ Len(saved'.index) <= MemEntries /\ DOMAIN saved'.index = {}
    <3>1. saved'.index = <<>>
      BY <1>0, <2>1
    <3>2. saved'.index \in Seq(Nat) /\ Len(saved'.index) = 0 /\ DOMAIN saved'.index = {}
      BY <1>3, <3>1
    <3> QED BY <1>2, <3>2
  <2>4. life' = "down" /\ saving' = 0
    BY <1>0, <2>1
  <2> QED BY <2>1, <2>2, <2>3, <2>4 DEF SaveInv
<1> QED BY <1>1, <1>4 DEF MemParts

\* A new process begins with an empty cache and the files.
LEMMA MemRestartsStep ==
  ASSUME MemParts, MemRestarts
  PROVE  MemParts'
<1>0. /\ life = "down" /\ life' = "starting" /\ EmptyRam' /\ spillQueue' = <<>>
      /\ UNCHANGED <<fetching, storing, saved, saving, memTorn>>
  BY DEF MemRestarts, EmptyRam
<1>1. storing = MemIdle /\ fetching.at # "found"
  BY <1>0 DEF MemParts, StoreInv
<1>2. /\ spillQueue' \in Seq(Spills) => EntriesInv'
      /\ storing' = MemIdle => AccountInv'
      /\ DOMAIN kvOf' = {}
  BY <1>0, EmptiedCache
<1>3. EntriesInv' /\ AccountInv' /\ FetchInv'
  BY <1>0, <1>1, <1>2 DEF MemParts, FetchInv
<1>4. StoreInv'
  BY <1>0, <1>1 DEF MemParts, StoreInv, MemIdle, Promoting
<1>5. SaveInv'
  BY <1>0 DEF MemParts, SaveInv
<1> QED BY <1>3, <1>4, <1>5 DEF MemParts

\* The entries that are taken until one does not fit fit together.
LEMMA TakenFit ==
  ASSUME NEW n \in Nat, NEW c, \A i \in 1..n : c[i] \in Nat, NEW M \in Nat, NEW fit \in SUBSET (1..n),
         \A i \in 1..n : i \in fit <=> SumFunctionOnSet(c, 1..i) <= M
  PROVE  SumFunctionOnSet(c, fit) \in Nat /\ SumFunctionOnSet(c, fit) <= M
<1>1. CASE fit = {}
  <2>1. SumFunctionOnSet(c, {}) = 0
    BY FS_EmptySet, SumTaken
  <2> QED BY <1>1, <2>1
<1>2. CASE fit # {}
  <2> DEFINE T == {m \in Nat : \E i \in fit : m = n - i}
  <2>1. T # {} /\ T \in SUBSET Nat
    <3>1. PICK i \in fit : TRUE
      BY <1>2
    <3>2. n - i \in Nat
      OBVIOUS
    <3> QED BY <3>2
  <2>2. PICK m \in T : \A k \in T : m <= k
    BY <2>1, LeastNatural
  <2>3. PICK l \in fit : m = n - l
    OBVIOUS
  <2>4. l \in 1..n /\ \A i \in fit : i <= l
    <3>1. l \in 1..n
      OBVIOUS
    <3>2. ASSUME NEW i \in fit PROVE i <= l
      <4>1. i \in 1..n /\ n - i \in T
        OBVIOUS
      <4>2. m <= n - i
        BY <2>2, <4>1
      <4> QED BY <2>3, <3>1, <4>1, <4>2
    <3> QED BY <3>1, <3>2
  <2>5. IsFiniteSet(1..l) /\ \A i \in 1..l : i \in 1..n /\ c[i] \in Nat
    <3>1. IsFiniteSet(1..l)
      BY <2>4, Places
    <3>2. \A i \in 1..l : i \in 1..n
      BY <2>4
    <3> QED BY <3>1, <3>2
  <2>6. fit = 1..l
    <3>1. fit \subseteq 1..l
      BY <2>4
    <3>2. ASSUME NEW i \in 1..l PROVE i \in fit
      <4>1. 1..i \in SUBSET (1..l)
        BY <2>4
      <4>2. /\ SumFunctionOnSet(c, 1..i) \in Nat /\ SumFunctionOnSet(c, 1..l) \in Nat
            /\ SumFunctionOnSet(c, 1..i) <= SumFunctionOnSet(c, 1..l)
        BY <2>5, <4>1, SumGrows
      <4>3. SumFunctionOnSet(c, 1..l) <= M
        BY <2>3, <2>4
      <4>4. SumFunctionOnSet(c, 1..i) <= M
        BY <4>2, <4>3
      <4> QED BY <2>5, <4>4
    <3> QED BY <3>1, <3>2
  <2>7. SumFunctionOnSet(c, 1..l) \in Nat
    BY <2>5, SumGrows
  <2> QED BY <2>3, <2>4, <2>6, <2>7
<1> QED BY <1>1, <1>2

Fit == {i \in Loadable : SumFunctionOnSet(LoadCosts, 1..i \cap Loadable) <= MemMax}
FirstOfKey == {i \in Fit : \A j \in Fit : LoadKey(j) = LoadKey(i) => i <= j}
LastOfKey == {i \in Fit : \A j \in Fit : LoadKey(j) = LoadKey(i) => j <= i}
Loaded == Selected([i \in DOMAIN saved.index |-> i], FirstOfKey)

\* What load_from_disk finds in the files of one save.
LEMMA FilesTell ==
  ASSUME SaveInv, life = "starting", NEW n, n = Len(saved.index)
  PROVE  /\ n \in Nat /\ DOMAIN saved.index = 1..n
         /\ \A i \in 1..n : /\ LoadKey(i) \in CacheKeys /\ saved.kvs[i] \in KvFor(LoadKey(i))
                            /\ LoadCosts[i] = saved.kvs[i].off /\ LoadCosts[i] \in Nat
         /\ Fit \in SUBSET (1..n) /\ FirstOfKey = Fit /\ LastOfKey = Fit
         /\ \A i, j \in 1..n : LoadKey(i) = LoadKey(j) => i = j
         /\ \A i \in 1..n : i \in Fit <=> SumFunctionOnSet(LoadCosts, 1..i) <= MemMax
         /\ ~memTorn => n <= MemEntries
<1>1. /\ saved.index \in Seq(Nat) /\ n \in Nat /\ DOMAIN saved.index = 1..n
      /\ \A i \in 1..n :
           /\ saved.tokens[i] \in CacheKeys /\ Len(saved.tokens[i]) = saved.index[i]
           /\ saved.kvs[i] \in KvFor(saved.tokens[i])
      /\ \A i, j \in 1..n : saved.tokens[i] = saved.tokens[j] => i = j
      /\ ~memTorn => n <= MemEntries
  <2>1. /\ saved.index \in Seq(Nat)
        /\ \A i \in DOMAIN saved.index :
             /\ saved.tokens[i] \in CacheKeys /\ Len(saved.tokens[i]) = saved.index[i]
             /\ saved.kvs[i] \in KvFor(saved.tokens[i])
        /\ \A i, j \in DOMAIN saved.index : saved.tokens[i] = saved.tokens[j] => i = j
        /\ ~memTorn => Len(saved.index) <= MemEntries
    BY DEF SaveInv
  <2>2. n \in Nat /\ DOMAIN saved.index = 1..n
    BY <2>1
  <2> QED BY <2>1, <2>2
<1>2. \A i \in 1..n : LoadKey(i) = saved.tokens[i]
  <2> SUFFICES ASSUME NEW i \in 1..n PROVE LoadKey(i) = saved.tokens[i]
    OBVIOUS
  <2>1. saved.tokens[i] \in Seq(Nat \ {0}) /\ Len(saved.tokens[i]) = saved.index[i]
    BY <1>1, MemoryAssumption
  <2>2. \A s \in Seq(Nat \ {0}) : SubSeq(s, 1, Len(s)) = s
    OBVIOUS
  <2> QED BY <2>1, <2>2 DEF LoadKey
<1>3. \A i \in 1..n : LoadCosts[i] = saved.kvs[i].off /\ LoadCosts[i] \in Nat
  <2> SUFFICES ASSUME NEW i \in 1..n PROVE LoadCosts[i] = saved.kvs[i].off /\ LoadCosts[i] \in Nat
    OBVIOUS
  <2>1. KvCost(saved.kvs[i]) = saved.kvs[i].off /\ saved.kvs[i].off \in Nat
    BY <1>1, KvSizes
  <2> QED BY <1>1, <2>1 DEF LoadCosts
<1>4. Loadable = 1..n
  <2>1. \A i \in 1..n : saved.index[i] \in Nat /\ Len(saved.tokens[i]) = saved.index[i]
    BY <1>1
  <2>2. \A i \in 1..n : Len(saved.tokens[i]) >= saved.index[i]
    BY <2>1
  <2> QED BY <1>1, <2>2 DEF Loadable
<1>5. \A i \in 1..n : 1..i \cap Loadable = 1..i
  BY <1>1, <1>4
<1>6. Fit \in SUBSET (1..n) /\ \A i \in 1..n : i \in Fit <=> SumFunctionOnSet(LoadCosts, 1..i) <= MemMax
  BY <1>4, <1>5 DEF Fit
<1>7. \A i, j \in 1..n : LoadKey(i) = LoadKey(j) => i = j
  <2> SUFFICES ASSUME NEW i \in 1..n, NEW j \in 1..n, LoadKey(i) = LoadKey(j) PROVE i = j
    OBVIOUS
  <2>1. saved.tokens[i] = saved.tokens[j]
    BY <1>2
  <2> QED BY <1>1, <2>1
<1>8. FirstOfKey = Fit /\ LastOfKey = Fit
  <2>1. \A i \in Fit : i \in Nat /\ i <= i
    BY <1>1, <1>6
  <2>2. \A i, j \in Fit : LoadKey(j) = LoadKey(i) => i <= j /\ j <= i
    BY <1>6, <1>7, <2>1
  <2> QED BY <2>2 DEF FirstOfKey, LastOfKey
<1> QED BY <1>1, <1>2, <1>3, <1>6, <1>7, <1>8

\* load(): what is taken in is of the files, within the budget, one entry for a key.
LEMMA LoadDiskStep ==
  ASSUME MemParts, LoadDisk
  PROVE  MemParts'
<1>0. /\ life = "starting" /\ life' = "serving"
      /\ UNCHANGED <<fetching, storing, spillQueue, saved, saving, memTorn>>
  BY DEF LoadDisk
<1>1. PICK n : n = Len(saved.index)
  OBVIOUS
<1>2. /\ n \in Nat /\ DOMAIN saved.index = 1..n
      /\ \A i \in 1..n : /\ LoadKey(i) \in CacheKeys /\ saved.kvs[i] \in KvFor(LoadKey(i))
                         /\ LoadCosts[i] = saved.kvs[i].off /\ LoadCosts[i] \in Nat
      /\ Fit \in SUBSET (1..n) /\ FirstOfKey = Fit /\ LastOfKey = Fit
      /\ \A i, j \in 1..n : LoadKey(i) = LoadKey(j) => i = j
      /\ \A i \in 1..n : i \in Fit <=> SumFunctionOnSet(LoadCosts, 1..i) <= MemMax
      /\ ~memTorn => n <= MemEntries
  BY <1>0, <1>1, FilesTell DEF MemParts
<1> DEFINE keys == {LoadKey(i) : i \in Fit}
<1>3. /\ lru' = [j \in DOMAIN Loaded |-> LoadKey(Loaded[j])]
      /\ kvOf' = [k \in keys |-> saved.kvs[CHOOSE i \in LastOfKey : LoadKey(i) = k]]
      /\ sortedKeys' = keys
      /\ memory' = SumFunctionOnSet(LoadCosts, Fit)
  BY DEF LoadDisk, Loaded, Fit, FirstOfKey, LastOfKey
<1>4. Loaded \in Seq(1..n) /\ ToSet(Loaded) = Fit /\ IsInjective(Loaded) /\ Len(Loaded) <= n /\ Len(Loaded) \in Nat
  <2> DEFINE ids == [i \in DOMAIN saved.index |-> i]
  <2>1. ids \in Seq(1..n) /\ Len(ids) = n /\ DOMAIN ids = 1..n /\ \A i \in 1..n : ids[i] = i
    BY <1>2
  <2>2. ToSet(ids) = 1..n /\ IsInjective(ids)
    BY <2>1 DEF ToSet, IsInjective
  <2>3. Loaded = Selected(ids, Fit)
    BY <1>2 DEF Loaded
  <2> HIDE DEF ids
  <2>4. /\ Selected(ids, Fit) \in Seq(1..n) /\ ToSet(Selected(ids, Fit)) = ToSet(ids) \cap Fit
        /\ Len(Selected(ids, Fit)) <= Len(ids) /\ IsInjective(Selected(ids, Fit))
    BY <2>1, <2>2, SelectedQueue
  <2>5. Len(Selected(ids, Fit)) \in Nat
    BY <2>4
  <2> QED BY <1>2, <2>1, <2>2, <2>3, <2>4, <2>5
<1>5. /\ lru' \in Seq(CacheKeys) /\ Len(lru') = Len(Loaded) /\ DOMAIN lru' = 1..Len(Loaded)
      /\ \A j \in 1..Len(Loaded) : lru'[j] = LoadKey(Loaded[j]) /\ Loaded[j] \in Fit /\ Loaded[j] \in 1..n
  <2>1. DOMAIN Loaded = 1..Len(Loaded) /\ \A j \in 1..Len(Loaded) : Loaded[j] \in Fit /\ Loaded[j] \in 1..n
    <3>1. DOMAIN Loaded = 1..Len(Loaded) /\ \A j \in 1..Len(Loaded) : Loaded[j] \in 1..n
      <4>1. \A S : \A s \in Seq(S) : DOMAIN s = 1..Len(s) /\ \A j \in 1..Len(s) : s[j] \in S
        OBVIOUS
      <4> QED BY <1>4, <4>1
    <3>2. \A j \in DOMAIN Loaded : Loaded[j] \in ToSet(Loaded)
      BY DEF ToSet
    <3> QED BY <1>4, <3>1, <3>2
  <2>2. \A j \in DOMAIN Loaded : LoadKey(Loaded[j]) \in CacheKeys
    BY <1>2, <2>1
  <2> QED BY <1>3, <1>4, <2>1, <2>2
<1>6. ToSet(lru') = keys
  <2>1. \A i \in Fit : \E j \in 1..Len(Loaded) : Loaded[j] = i
    BY <1>4 DEF ToSet
  <2>2. ASSUME NEW k \in keys PROVE k \in ToSet(lru')
    <3>1. PICK i \in Fit : k = LoadKey(i)
      OBVIOUS
    <3>2. PICK j \in 1..Len(Loaded) : Loaded[j] = i
      BY <2>1
    <3>3. lru'[j] = k
      BY <1>5, <3>1, <3>2
    <3> QED BY <1>5, <3>3 DEF ToSet
  <2>3. ASSUME NEW k \in ToSet(lru') PROVE k \in keys
    <3>1. PICK j \in 1..Len(Loaded) : lru'[j] = k
      BY <1>5 DEF ToSet
    <3> QED BY <1>5, <3>1
  <2> HIDE DEF keys
  <2> QED BY <2>2, <2>3
<1>7. IsInjective(lru')
  <2>1. \A a, b \in 1..Len(Loaded) : Loaded[a] = Loaded[b] => a = b
    BY <1>4 DEF IsInjective
  <2>2. ASSUME NEW a \in 1..Len(Loaded), NEW b \in 1..Len(Loaded), lru'[a] = lru'[b] PROVE a = b
    <3>1. Loaded[a] = Loaded[b]
      BY <1>2, <1>5, <2>2
    <3> QED BY <2>1, <3>1
  <2> QED BY <1>5, <2>2 DEF IsInjective
<1>8. \A i \in Fit : LoadKey(i) \in keys /\ kvOf'[LoadKey(i)] = saved.kvs[i] /\ kvOf'[LoadKey(i)] \in KvFor(LoadKey(i))
  <2> SUFFICES ASSUME NEW i \in Fit
               PROVE  LoadKey(i) \in keys /\ kvOf'[LoadKey(i)] = saved.kvs[i] /\ kvOf'[LoadKey(i)] \in KvFor(LoadKey(i))
    OBVIOUS
  <2>1. (CHOOSE h \in LastOfKey : LoadKey(h) = LoadKey(i)) = i
    BY <1>2
  <2>2. LoadKey(i) \in keys
    OBVIOUS
  <2>3. kvOf'[LoadKey(i)] = saved.kvs[i]
    BY <1>3, <2>1, <2>2
  <2> QED BY <1>2, <2>2, <2>3
<1>9. DOMAIN kvOf' = keys
  BY <1>3
<1>10. HeldBy(kvOf') = SumFunctionOnSet(LoadCosts, Fit)
  <2> DEFINE g == CostsOf(kvOf')
             p == [i \in Fit |-> LoadKey(i)]
  <2>1. DOMAIN g = keys /\ \A k \in keys : g[k] = KvCost(kvOf'[k])
    BY <1>9 DEF CostsOf
  <2>2. HeldBy(kvOf') = SumFunctionOnSet(g, keys)
    BY <2>1 DEF HeldBy, SumFunction
  <2>3. \A i \in Fit : p[i] = LoadKey(i)
    OBVIOUS
  <2>4. \A i \in Fit : LoadCosts[i] \in Int /\ LoadCosts[i] = g[p[i]]
    <3> SUFFICES ASSUME NEW i \in Fit PROVE LoadCosts[i] \in Int /\ LoadCosts[i] = g[p[i]]
      OBVIOUS
    <3>1. g[LoadKey(i)] = KvCost(saved.kvs[i])
      BY <1>8, <2>1
    <3>2. i \in 1..n
      BY <1>2
    <3>3. LoadCosts[i] = saved.kvs[i].off /\ LoadCosts[i] \in Nat
      BY <1>2, <3>2
    <3> QED BY <2>3, <3>1, <3>3 DEF KvCost
  <2>5. \A i, j \in Fit : p[i] = p[j] => i = j
    BY <1>2
  <2>6. IsFiniteSet(Fit)
    BY <1>2, Places, FS_Subset
  <2>7. AreAt(p, Fit) = keys
    BY <2>3 DEF AreAt
  <2> HIDE DEF g, p, keys
  <2>8. SumFunctionOnSet(LoadCosts, Fit) = SumFunctionOnSet(g, AreAt(p, Fit))
    BY <2>4, <2>5, <2>6, SumMoved
  <2> QED BY <2>2, <2>7, <2>8
<1>11. SumFunctionOnSet(LoadCosts, Fit) \in Nat /\ SumFunctionOnSet(LoadCosts, Fit) <= MemMax
  <2>1. MemMax \in Nat /\ \A i \in 1..n : LoadCosts[i] \in Nat
    BY <1>2, MemoryAssumption
  <2> QED BY <1>2, <2>1, TakenFit
<1>12. EntriesInv'
  <2>1. IsFiniteSet(keys) /\ keys \subseteq CacheKeys
    <3>1. IsFiniteSet(ToSet(lru'))
      BY <1>5, <1>7, QueueLength
    <3> QED BY <1>2, <1>6, <3>1
  <2>2. \A k \in keys : kvOf'[k] \in KvFor(k)
    BY <1>8
  <2>3. memory' \in Int /\ spillQueue' \in Seq(Spills)
    BY <1>0, <1>3, <1>11 DEF MemParts, EntriesInv
  <2> HIDE DEF keys
  <2> QED BY <1>3, <1>5, <1>6, <1>7, <1>9, <2>1, <2>2, <2>3 DEF EntriesInv
<1>13. storing = MemIdle /\ fetching.at # "found"
  BY <1>0 DEF MemParts, StoreInv
<1>14. FetchInv'
  BY <1>0 DEF MemParts, FetchInv
<1>15. StoreInv'
  BY <1>0, <1>13 DEF MemParts, StoreInv, MemIdle, Promoting
<1>16. SaveInv'
  BY <1>0 DEF MemParts, SaveInv
<1>17. AccountInv'
  <2> SUFFICES ASSUME ~memTorn
               PROVE  /\ Len(lru') <= MemEntries /\ HeldBy(kvOf') \in Int
                      /\ memory' = HeldBy(kvOf') /\ memory' <= MemMax /\ HeldBy(kvOf') <= MemMax
                      /\ sortedKeys' = DOMAIN kvOf'
    BY <1>0, <1>13 DEF AccountInv, Promoting, MemIdle
  <2>1. Len(lru') <= MemEntries
    <3>1. n <= MemEntries /\ MemEntries \in Nat
      BY <1>2, MemoryAssumption
    <3> QED BY <1>2, <1>4, <1>5, <3>1
  <2> HIDE DEF keys
  <2> QED BY <1>3, <1>9, <1>10, <1>11, <2>1
<1> QED BY <1>12, <1>14, <1>15, <1>16, <1>17 DEF MemParts

--------------------------------------------------------------------------------
(* The memory cache.                                                         *)

\* The same of every fetch, whether it finds something or not.
LEMMA FetchStep ==
  ASSUME MemParts, NEW k \in CacheKeys, FetchLooks(k)
  PROVE  MemParts'
<1>0. life = "serving" /\ UNCHANGED <<ramVars, storing, spillQueue, saveVars, memClears, memTorn>>
  BY DEF FetchLooks
<1>1. FetchInv'
  BY FetchLooksStep DEF MemParts
<1>2. EntriesInv'
  BY <1>0 DEF MemParts, EntriesInv, ramVars
<1>3. StoreInv'
  BY <1>0 DEF MemParts, StoreInv, ramVars, saveVars
<1>4. SaveInv'
  BY <1>0, FilesKept DEF MemParts, saveVars
<1>5. AccountInv'
  BY <1>0 DEF MemParts, AccountInv, ramVars
<1> QED BY <1>1, <1>2, <1>3, <1>4, <1>5 DEF MemParts

\* What the memory cache does by itself keeps what is said of it.
LEMMA RamStep ==
  ASSUME MemParts, MemorySteps
  PROVE  MemParts' /\ saveTorn' = saveTorn
<1>1. CASE \E k \in CacheKeys : FetchLooks(k) \/ RemoveEntry(k)
  BY <1>1, FetchStep, RemoveEntryStep DEF FetchLooks, RemoveEntry, saveVars
<1>2. CASE \E k \in CacheKeys, kind \in StoreKinds : StoreBegins(k, kind)
  BY <1>2, StoreBeginsStep DEF StoreBegins, saveVars
<1>3. CASE FetchReturns
  BY <1>3, FetchReturnsStep DEF FetchReturns, saveVars
<1>4. CASE StoreDropsPrefix
  BY <1>4, StoreDropsPrefixStep DEF StoreDropsPrefix, saveVars
<1>5. CASE StoreEvicts
  BY <1>5, StoreEvictsStep DEF StoreEvicts, saveVars
<1>6. CASE StoreUnindexes
  BY <1>6, StoreUnindexesStep DEF StoreUnindexes, saveVars
<1>7. CASE StoreInserts
  BY <1>7, StoreInsertsStep DEF StoreInserts, saveVars
<1>8. CASE StoreAccounts
  BY <1>8, StoreAccountsStep DEF StoreAccounts, saveVars
<1>9. CASE StoreIndexes
  BY <1>9, StoreIndexesStep DEF StoreIndexes, saveVars
<1>10. CASE ClearMemory
  BY <1>10, ClearMemoryStep DEF ClearMemory, saveVars
<1>11. CASE SaveKv
  BY <1>11, SaveKvStep DEF SaveKv
<1>12. CASE SaveTokens
  BY <1>12, SaveTokensStep DEF SaveTokens
<1>13. CASE SaveIndex
  BY <1>13, SaveIndexStep DEF SaveIndex
<1>14. CASE LoadDisk
  BY <1>14, LoadDiskStep DEF LoadDisk
<1> QED BY <1>1, <1>2, <1>3, <1>4, <1>5, <1>6, <1>7, <1>8, <1>9, <1>10, <1>11, <1>12, <1>13, <1>14 DEF MemorySteps

\* The memory cache at the start.
LEMMA MemPartsInit ==
  ASSUME MemoryInit
  PROVE  MemParts
<1>1. EmptyRam /\ storing = MemIdle /\ fetching = MemIdle /\ spillQueue = <<>> /\ life = "starting" /\ saving = 0
  BY DEF MemoryInit, EmptyRam
<1>2. saved = [kvs |-> <<>>, tokens |-> <<>>, index |-> <<>>]
  BY DEF MemoryInit, NoDisk
<1>3. EntriesInv /\ AccountInv
  BY <1>1, EmptyCache
<1>4. FetchInv /\ StoreInv
  BY <1>1 DEF FetchInv, StoreInv, MemIdle, Promoting
<1>5. SaveInv
  <2>1. \A s : s = <<>> => s \in Seq(Nat) /\ Len(s) = 0 /\ DOMAIN s = {}
    OBVIOUS
  <2>2. DOMAIN saved = {"kvs", "tokens", "index"} /\ saved.kvs = <<>> /\ saved.tokens = <<>> /\ saved.index = <<>>
    BY <1>2
  <2>3. /\ Len(saved.kvs) = 0 /\ Len(saved.tokens) = 0 /\ saved.index \in Seq(Nat)
        /\ Len(saved.index) = 0 /\ DOMAIN saved.index = {}
    BY <2>1, <2>2
  <2>4. MemEntries \in Nat
    BY MemoryAssumption
  <2> QED BY <1>1, <2>2, <2>3, <2>4 DEF SaveInv
<1> QED BY <1>3, <1>4, <1>5 DEF MemParts

\* The invariant implies what the runs check.
LEMMA MemPartsTell ==
  ASSUME MemInv
  PROVE  MemorySound
<1>1. CASE saveTorn
  BY <1>1 DEF MemorySound, RamAgrees, FetchFits, EntriesFit
<1>2. CASE ~saveTorn
  <2>0. EntriesInv /\ FetchInv /\ AccountInv
    BY <1>2 DEF MemInv, MemParts
  <2>1. RamAgrees
    <3> SUFFICES ASSUME ~memTorn, storing = MemIdle
                 PROVE  /\ sortedKeys = DOMAIN kvOf
                        /\ memory = SumFunction([k \in DOMAIN kvOf |-> KvCost(kvOf[k])])
                        /\ memory <= MemMax /\ Len(lru) <= MemEntries
      BY DEF RamAgrees
    <3>1. sortedKeys = DOMAIN kvOf /\ memory = HeldBy(kvOf) /\ memory <= MemMax /\ Len(lru) <= MemEntries
      BY <2>0 DEF AccountInv, MemIdle
    <3> QED BY <3>1 DEF HeldBy, CostsOf
  <2>2. FetchFits
    BY <2>0 DEF FetchFits, FetchInv, HitFits
  <2>3. EntriesFit
    <3> SUFFICES ASSUME NEW k \in DOMAIN kvOf PROVE IsPrefix(KvCovered(kvOf[k]), k)
      BY DEF EntriesFit
    <3>1. k \in CacheKeys /\ kvOf[k] \in KvFor(k)
      BY <2>0 DEF EntriesInv, ToSet
    <3>2. kvOf[k].of = k /\ kvOf[k].off \in Nat /\ kvOf[k].off <= Len(k) /\ k \in Seq(Nat \ {0}) /\ Len(k) \in Nat
      BY <3>1, KvSizes
    <3>3. \A s \in Seq(Nat \ {0}) : \A n \in Nat : n <= Len(s) => IsPrefix(SubSeq(s, 1, n), s)
      <4> SUFFICES ASSUME NEW s \in Seq(Nat \ {0}), NEW n \in Nat, n <= Len(s) PROVE IsPrefix(SubSeq(s, 1, n), s)
        OBVIOUS
      <4> DEFINE u == SubSeq(s, 1, n)
      <4>1. u \in Seq(Nat \ {0}) /\ Len(u) = n /\ \A i \in 1..n : u[i] = s[i]
        OBVIOUS
      <4> HIDE DEF u
      <4>2. IsPrefix(u, s)
        BY <4>1, PrefixPlaces
      <4> QED BY <4>2 DEF u
    <3> QED BY <3>2, <3>3 DEF KvCovered
  <2> QED BY <2>1, <2>2, <2>3 DEF MemorySound
<1> QED BY <1>1, <1>2

\* Whatever fetches, stores, clears, stops and loads interleave with: what a request is
\* given covers a beginning of its prompt, each entry holds no more than its own key's
\* positions, and between stores the sorted keys, the dictionary and the sum of bytes agree
\* and respect the limits (memory_cache.py, MemoryAwarePrefixCache), unless the process
\* died between two files of a save or the cache was cleared within a store.
THEOREM MemoryServes == MemorySpec => []MemorySound
<1>1. MemoryInit => MemInv
  BY MemPartsInit DEF MemInv, MemParts
<1>2. MemInv /\ [MemoryNext]_memoryVars => MemInv'
  <2> SUFFICES ASSUME MemInv, [MemoryNext]_memoryVars, ~saveTorn' PROVE MemParts'
    BY DEF MemInv, MemParts
  <2>1. CASE UNCHANGED memoryVars
    BY <2>1 DEF memoryVars, ramVars, saveVars, MemInv, MemParts, EntriesInv, FetchInv, StoreInv, SaveInv, SavedUpTo, AccountInv
  <2>2. CASE ~saveTorn
    <3>1. MemParts
      BY <2>2 DEF MemInv, MemParts
    <3>2. CASE MemorySteps
      BY <3>1, <3>2, RamStep
    <3>3. CASE StopBegins
      BY <3>1, <3>3, StopBeginsStep
    <3>4. CASE DiesSaving
      BY <3>1, <3>4, DiesSavingStep
    <3>5. CASE MemRestarts
      BY <3>1, <3>5, MemRestartsStep
    <3> QED BY <2>1, <3>2, <3>3, <3>4, <3>5 DEF MemoryNext, MemorySteps
  <2>3. CASE saveTorn /\ MemoryNext
    BY <2>3 DEF MemoryNext, FetchLooks, RemoveEntry, StoreBegins, FetchReturns, StoreDropsPrefix, StoreEvicts, StoreUnindexes,
       StoreInserts, StoreAccounts, StoreIndexes, ClearMemory, StopBegins, SaveKv, SaveTokens, SaveIndex, DiesSaving,
       MemRestarts, LoadDisk, saveVars
  <2> QED BY <2>1, <2>2, <2>3
<1>3. MemInv => MemorySound
  BY MemPartsTell
<1> QED BY <1>1, <1>2, <1>3, PTL DEF MemorySpec

--------------------------------------------------------------------------------
(* Each step of the tier: what is written and promoted.                      *)

\* The memory cache never starts a promotion.
LEMMA StoringKept ==
  ASSUME "at" \in DOMAIN storing, MemorySteps
  PROVE  "at" \in DOMAIN storing' /\ (storing' = storing \/ storing'.at \notin Promoting)
<1>1. CASE \E k \in CacheKeys : FetchLooks(k) \/ RemoveEntry(k)
  BY <1>1 DEF FetchLooks, RemoveEntry, PopEntry, Promoting
<1>2. CASE \E k \in CacheKeys, kind \in StoreKinds : StoreBegins(k, kind)
  BY <1>2 DEF StoreBegins, StoreEntry, Promoting
<1>3. CASE FetchReturns
  BY <1>3 DEF FetchReturns
<1>4. CASE StoreDropsPrefix
  BY <1>4 DEF StoreDropsPrefix, PopEntry, Popped, MemIdle, Promoting
<1>5. CASE StoreEvicts
  BY <1>5 DEF StoreEvicts, PopEntry, Popped, Promoting
<1>6. CASE StoreUnindexes
  BY <1>6 DEF StoreUnindexes, MemIdle, Promoting
<1>7. CASE StoreInserts
  BY <1>7 DEF StoreInserts, Promoting
<1>8. CASE StoreAccounts
  BY <1>8 DEF StoreAccounts, Promoting
<1>9. CASE StoreIndexes
  BY <1>9 DEF StoreIndexes, MemIdle, Promoting
<1>10. CASE ClearMemory
  BY <1>10 DEF ClearMemory
<1>11. CASE SaveKv
  BY <1>11 DEF SaveKv
<1>12. CASE SaveTokens
  BY <1>12 DEF SaveTokens
<1>13. CASE SaveIndex
  BY <1>13 DEF SaveIndex
<1>14. CASE LoadDisk
  BY <1>14 DEF LoadDisk
<1> QED BY <1>1, <1>2, <1>3, <1>4, <1>5, <1>6, <1>7, <1>8, <1>9, <1>10, <1>11, <1>12, <1>13, <1>14 DEF MemorySteps

\* A directory goes, comes, or is half removed.
LEMMA DirChanges ==
  ASSUME DirsInv, NEW k
  PROVE  /\ NoDir(k) => DirsInv' /\ DOMAIN dirs' = DOMAIN dirs \ {k}
         /\ \A d \in DirFor(k) : k \in CacheKeys /\ SetDir(k, d) => DirsInv'
         /\ k \in DOMAIN dirs => [dirs[k] EXCEPT !.whole = FALSE] \in DirFor(k)
<1>1. ASSUME NoDir(k) PROVE DirsInv' /\ DOMAIN dirs' = DOMAIN dirs \ {k}
  BY <1>1 DEF NoDir, DirsInv
<1>2. ASSUME NEW d \in DirFor(k), k \in CacheKeys, SetDir(k, d) PROVE DirsInv'
  BY <1>2 DEF SetDir, DirsInv
<1>3. ASSUME k \in DOMAIN dirs PROVE [dirs[k] EXCEPT !.whole = FALSE] \in DirFor(k)
  BY <1>3 DEF DirsInv, DirFor
<1> QED BY <1>1, <1>2, <1>3

\* The writer takes an entry from the queue.
LEMMA WriterTakesStep ==
  ASSUME MemParts, TierParts, WriterTakes
  PROVE  MemParts' /\ TierParts'
<1>0. /\ spillQueue # <<>> /\ writer' = [at |-> "tmp", key |-> Head(spillQueue).key, kv |-> Head(spillQueue).kv]
      /\ spillQueue' = Tail(spillQueue)
      /\ UNCHANGED <<ramVars, fetching, storing, saveVars, memClears, memTorn, dirs, rows,
                     candidate, quarantined, ssdFaults>>
  BY DEF WriterTakes
<1>1. Head(spillQueue) \in Spills /\ Tail(spillQueue) \in Seq(Spills)
  BY <1>0, TailOfQueue DEF MemParts, EntriesInv
<1>2. Head(spillQueue).key \in CacheKeys /\ Head(spillQueue).kv \in KvFor(Head(spillQueue).key)
  BY <1>1 DEF Spills
<1>3. MemParts'
  BY <1>0, <1>1 DEF MemParts, EntriesInv, FetchInv, StoreInv, SaveInv, SavedUpTo, AccountInv, ramVars, saveVars
<1>4. TierParts'
  BY <1>0, <1>2 DEF TierParts, DirsInv, WriterInv, PromoteInv
<1> QED BY <1>3, <1>4

\* Nothing of the memory cache changes.
LEMMA MemKept ==
  ASSUME MemParts, UNCHANGED memoryVars
  PROVE  MemParts'
BY DEF memoryVars, ramVars, saveVars, MemParts, EntriesInv, FetchInv, StoreInv, SaveInv, SavedUpTo, AccountInv

\* The writer fails, or finds the connection closed.
LEMMA WriterFailsStep ==
  ASSUME MemParts, TierParts, WriterFails \/ WriterLeaves
  PROVE  MemParts' /\ TierParts'
<1>1. MemParts'
  BY MemKept DEF WriterFails, WriterLeaves
<1>2. TierParts'
  BY DEF WriterFails, WriterLeaves, WriterWaits, memoryVars, diskVars, TierParts, DirsInv, WriterInv, PromoteInv
<1> QED BY <1>1, <1>2

\* The writer removes what an earlier spill left.
LEMMA WriterClearsOldStep ==
  ASSUME MemParts, TierParts, WriterClearsOld
  PROVE  MemParts' /\ TierParts'
<1>1. MemParts'
  BY MemKept DEF WriterClearsOld
<1>2. DirsInv'
  <2>1. writer.key \in CacheKeys /\ writer.key \in DOMAIN dirs
    BY DEF WriterClearsOld, TierParts, DirsInv
  <2> QED BY <2>1, DirChanges DEF WriterClearsOld, TierParts
<1>3. WriterInv' /\ PromoteInv'
  BY DEF WriterClearsOld, memoryVars, TierParts, WriterInv, PromoteInv
<1> QED BY <1>1, <1>2, <1>3 DEF TierParts

\* The directory gets its name.
LEMMA WriterRenamesStep ==
  ASSUME MemParts, TierParts, WriterRenames
  PROVE  MemParts' /\ TierParts'
<1>1. MemParts'
  BY MemKept DEF WriterRenames
<1>2. DirsInv'
  <2>1. writer.key \in CacheKeys /\ writer.kv \in KvFor(writer.key)
    BY DEF WriterRenames, TierParts, WriterInv
  <2>2. [kv |-> writer.kv, whole |-> TRUE] \in DirFor(writer.key)
    BY <2>1 DEF DirFor
  <2> QED BY <2>1, <2>2, DirChanges DEF WriterRenames, TierParts
<1>3. WriterInv' /\ PromoteInv'
  BY DEF WriterRenames, memoryVars, TierParts, WriterInv, PromoteInv
<1> QED BY <1>1, <1>2, <1>3 DEF TierParts

\* Rows are of sequences.
LEMMA RowsChange ==
  ASSUME rows \in Seq(CacheKeys), NEW k \in CacheKeys
  PROVE  RowsWith(k) \in Seq(CacheKeys) /\ RowsWithout(k) \in Seq(CacheKeys)
<1>1. RowsWithout(k) \in Seq(CacheKeys)
  BY SelectedQueue DEF RowsWithout
<1> QED BY <1>1 DEF RowsWith

\* The row is written.
LEMMA WriterIndexesStep ==
  ASSUME MemParts, TierParts, WriterIndexes
  PROVE  MemParts' /\ TierParts'
<1>1. MemParts'
  BY MemKept DEF WriterIndexes
<1>2. DirsInv' /\ PromoteInv'
  BY DEF WriterIndexes, memoryVars, TierParts, DirsInv, PromoteInv
<1>3. WriterInv'
  <2>1. writer.key \in CacheKeys /\ rows \in Seq(CacheKeys)
    BY DEF WriterIndexes, TierParts, WriterInv
  <2>2. rows' \in Seq(CacheKeys)
    BY <2>1, RowsChange DEF WriterIndexes
  <2>3. "at" \in DOMAIN writer' /\ writer'.at \in {"get", "evict"}
    BY DEF WriterIndexes, WriterWaits
  <2> QED BY <2>2, <2>3 DEF WriterInv
<1> QED BY <1>1, <1>2, <1>3 DEF TierParts

\* The writer enforces the limit on entries.
LEMMA WriterEvictsStep ==
  ASSUME MemParts, TierParts, WriterEvicts
  PROVE  MemParts' /\ TierParts'
<1>0. PICK k : k = Head(rows)
  OBVIOUS
<1>1. MemParts'
  BY MemKept DEF WriterEvicts
<1>2. \/ dirs' = dirs \/ NoDir(k)
      \/ k \in DOMAIN dirs /\ SetDir(k, [dirs[k] EXCEPT !.whole = FALSE])
  BY <1>0 DEF WriterEvicts
<1>3. DirsInv'
  <2>1. CASE dirs' = dirs
    BY <2>1 DEF TierParts, DirsInv
  <2>2. CASE NoDir(k)
    BY <2>2, DirChanges DEF TierParts
  <2>3. CASE k \in DOMAIN dirs /\ SetDir(k, [dirs[k] EXCEPT !.whole = FALSE])
    BY <2>3, DirChanges DEF TierParts, DirsInv
  <2> QED BY <1>2, <2>1, <2>2, <2>3
<1>4. PromoteInv'
  BY DEF WriterEvicts, memoryVars, TierParts, PromoteInv
<1>5. WriterInv'
  <2>1. rows \in Seq(CacheKeys) /\ Len(rows) \in Nat
    BY DEF TierParts, WriterInv
  <2>2. rows' = rows \/ (OverCapacity /\ rows' = Tail(rows))
    BY DEF WriterEvicts
  <2>3. OverCapacity => rows # <<>>
    BY <2>1, SsdAssumption DEF OverCapacity
  <2>4. rows' \in Seq(CacheKeys)
    BY <2>1, <2>2, <2>3, TailOfQueue
  <2>5. writer' = writer \/ writer' = WriterWaits
    BY DEF WriterEvicts
  <2>6. "at" \in DOMAIN writer' /\ writer'.at \in {"get", "evict"}
    BY <2>5 DEF WriterEvicts, WriterWaits, TierParts, WriterInv
  <2> QED BY <2>4, <2>6 DEF WriterInv
<1> QED BY <1>1, <1>3, <1>4, <1>5 DEF TierParts

\* A prompt has a longest stored prefix when it has one.
LEMMA LongestPrefix ==
  ASSUME NEW want \in CacheKeys, NEW S \in SUBSET CacheKeys, S # {}, \A k \in S : IsPrefix(k, want)
  PROVE  \E x \in S : \A y \in S : Len(y) <= Len(x)
<1> DEFINE T == {n \in Nat : \E k \in S : n = Len(want) - Len(k)}
<1>1. Len(want) \in Nat /\ \A k \in S : Len(k) \in Nat /\ Len(k) <= Len(want)
  <2>1. CacheKeys \subseteq Seq(Nat \ {0})
    BY MemoryAssumption
  <2>2. \A s \in CacheKeys : Len(s) \in Nat
    BY <2>1
  <2> QED BY <2>2 DEF IsPrefix
<1>2. T # {} /\ T \in SUBSET Nat
  <2>1. PICK k \in S : TRUE
    OBVIOUS
  <2>2. Len(want) - Len(k) \in T
    BY <1>1
  <2> QED BY <2>2
<1>3. PICK m \in T : \A n \in T : m <= n
  BY <1>2, LeastNatural
<1>4. PICK x \in S : m = Len(want) - Len(x)
  OBVIOUS
<1>5. ASSUME NEW y \in S PROVE Len(y) <= Len(x)
  <2>1. Len(want) - Len(y) \in T
    BY <1>1
  <2>2. Len(want) - Len(x) <= Len(want) - Len(y) /\ Len(x) \in Nat /\ Len(y) \in Nat
    BY <1>1, <1>3, <1>4, <2>1
  <2> QED BY <1>1, <2>2
<1> QED BY <1>5

\* check_ssd() finds a row for a prefix of the prompt.
LEMMA CheckSsdStep ==
  ASSUME MemParts, TierParts, CheckSsd
  PROVE  MemParts' /\ TierParts'
<1> DEFINE S == {k \in ToSet(rows) : IsPrefix(k, fetching.want)}
<1>0. /\ fetching.at = "miss" /\ candidate = NoCandidate /\ S # {} /\ fetching' = MemIdle
      /\ candidate' = [at |-> "pending", want |-> fetching.want, key |-> CHOOSE x \in S : \A y \in S : Len(y) <= Len(x)]
      /\ UNCHANGED <<ramVars, storing, spillQueue, saveVars, memClears, memTorn, diskVars,
                     writer, quarantined, ssdFaults>>
  BY DEF CheckSsd
<1>1. fetching.want \in CacheKeys /\ S \in SUBSET CacheKeys /\ \A k \in S : IsPrefix(k, fetching.want)
  BY <1>0 DEF MemParts, FetchInv, TierParts, WriterInv, ToSet
<1>2. MemParts'
  BY <1>0 DEF MemParts, EntriesInv, FetchInv, StoreInv, SaveInv, SavedUpTo, AccountInv, ramVars, saveVars, MemIdle
<1>3. DirsInv' /\ WriterInv'
  BY <1>0 DEF TierParts, DirsInv, WriterInv, diskVars
<1> DEFINE k == CHOOSE x \in S : \A y \in S : Len(y) <= Len(x)
<1>4. k \in S
  <2>1. \E x \in S : \A y \in S : Len(y) <= Len(x)
    BY <1>0, <1>1, LongestPrefix
  <2> HIDE DEF S
  <2> QED BY <2>1
<1>5. k \in CacheKeys /\ IsPrefix(k, fetching.want)
  BY <1>1, <1>4
<1>6. candidate'.at = "pending" /\ candidate'.want = fetching.want /\ candidate'.key = k
  BY <1>0
<1>7. storing.at \notin Promoting
  BY <1>0 DEF TierParts, PromoteInv, NoCandidate
<1> HIDE DEF k, S
<1>8. PromoteInv'
  BY <1>0, <1>1, <1>5, <1>6, <1>7 DEF PromoteInv, Promoting
<1> QED BY <1>2, <1>3, <1>8 DEF TierParts

\* The promotion reserves the bytes.
LEMMA PromoteReservesStep ==
  ASSUME MemParts, TierParts, PromoteReserves
  PROVE  MemParts' /\ TierParts'
<1> DEFINE n == RowCost(candidate)
<1>0. /\ life = "serving" /\ storing = MemIdle /\ candidate.at = "pending"
      /\ \/ candidate' = NoCandidate /\ UNCHANGED <<memory, storing>>
         \/ /\ ~(memory + n > MemMax) /\ memory' = memory + n /\ storing' = [at |-> "manifest", n |-> n]
            /\ UNCHANGED candidate
      /\ UNCHANGED <<lru, kvOf, sortedKeys, fetching, spillQueue, saveVars, memClears, memTorn,
                     diskVars, writer, quarantined, ssdFaults>>
  BY DEF PromoteReserves
<1>1. n \in Nat
  <2>1. candidate.key \in CacheKeys
    BY <1>0 DEF TierParts, PromoteInv
  <2>2. Len(candidate.key) \in Nat
    BY <2>1, MemoryAssumption
  <2>3. candidate.key \in DOMAIN dirs => KvCost(dirs[candidate.key].kv) \in Nat
    BY <2>1, KvSizes DEF TierParts, DirsInv, DirFor
  <2> QED BY <2>2, <2>3 DEF RowCost
<1> HIDE DEF n
<1>2. DirsInv' /\ WriterInv'
  BY <1>0 DEF TierParts, DirsInv, WriterInv, diskVars
<1>3. CASE candidate' = NoCandidate /\ UNCHANGED <<memory, storing>>
  <2>1. MemParts'
    BY <1>0, <1>3 DEF MemParts, EntriesInv, FetchInv, StoreInv, SaveInv, SavedUpTo, AccountInv, saveVars
  <2>2. PromoteInv'
    BY <1>0, <1>3 DEF PromoteInv, NoCandidate, MemIdle, Promoting
  <2> QED BY <1>2, <2>1, <2>2 DEF TierParts
<1>4. CASE /\ ~(memory + n > MemMax) /\ memory' = memory + n /\ storing' = [at |-> "manifest", n |-> n]
           /\ UNCHANGED candidate
  <2>1. "at" \in DOMAIN storing' /\ storing'.at = "manifest" /\ storing'.n = n /\ storing'.at \in Promoting
    BY <1>4 DEF Promoting
  <2>2. memory \in Int /\ MemMax \in Nat
    BY MemoryAssumption DEF MemParts, EntriesInv
  <2>3. EntriesInv' /\ FetchInv'
    BY <1>0, <1>1, <1>4, <2>2 DEF MemParts, EntriesInv, FetchInv
  <2>4. StoreInv'
    BY <1>0, <1>1, <2>1 DEF MemParts, StoreInv, saveVars
  <2>5. SaveInv'
    BY <1>0, FilesKept DEF MemParts, saveVars
  <2>6. AccountInv'
    <3> SUFFICES ASSUME ~memTorn
                 PROVE  /\ Len(lru') <= MemEntries /\ HeldBy(kvOf') \in Int
                        /\ memory' = HeldBy(kvOf') + n /\ memory' <= MemMax /\ HeldBy(kvOf') <= MemMax
                        /\ sortedKeys' = DOMAIN kvOf'
      BY <1>0, <2>1 DEF AccountInv
    <3>1. Len(lru) <= MemEntries /\ HeldBy(kvOf) \in Int /\ memory = HeldBy(kvOf) /\ memory <= MemMax /\ sortedKeys = DOMAIN kvOf
      BY <1>0 DEF MemParts, AccountInv, MemIdle
    <3> QED BY <1>0, <1>1, <1>4, <2>2, <3>1
  <2>7. PromoteInv'
    BY <1>0, <1>4, <2>1 DEF TierParts, PromoteInv
  <2> QED BY <1>2, <2>3, <2>4, <2>5, <2>6, <2>7 DEF MemParts, TierParts
<1> QED BY <1>0, <1>3, <1>4

\* A step of the promotion that touches neither the entries nor their sum.
LEMMA PromotionGoesOn ==
  ASSUME MemParts, storing.at \in Promoting, "at" \in DOMAIN storing', storing'.at \in Promoting, storing'.n = storing.n,
         UNCHANGED <<ramVars, fetching, spillQueue, saveVars, memTorn>>
  PROVE  MemParts'
<1>0. life = "serving"
  BY StoresServe DEF MemParts, Promoting
<1>1. EntriesInv' /\ FetchInv'
  BY DEF MemParts, EntriesInv, FetchInv, ramVars
<1>2. StoreInv'
  BY <1>0 DEF MemParts, StoreInv, saveVars, Promoting
<1>3. SaveInv'
  BY <1>0, FilesKept DEF MemParts, saveVars
<1>4. AccountInv'
  BY DEF MemParts, AccountInv, ramVars, Promoting
<1> QED BY <1>1, <1>2, <1>3, <1>4 DEF MemParts

\* The promotion reads the manifest, then the layers.
LEMMA PromoteReadsStep ==
  ASSUME MemParts, TierParts, PromoteReads
  PROVE  MemParts' /\ TierParts'
<1>0. /\ storing.at \in {"manifest", "layers"} /\ storing.at \in Promoting
      /\ UNCHANGED <<ramVars, fetching, spillQueue, saveVars, memClears, memTorn, tierVars>>
  BY DEF PromoteReads, Promoting
<1>1. /\ "at" \in DOMAIN storing' /\ storing'.at \in Promoting /\ storing'.n = storing.n
      /\ storing'.at = "read" => candidate.key \in DOMAIN dirs /\ storing'.kv = dirs[candidate.key].kv
  BY DEF PromoteReads, Promoting
<1>2. MemParts'
  BY <1>0, <1>1, PromotionGoesOn
<1>3. DirsInv' /\ WriterInv'
  BY <1>0 DEF TierParts, DirsInv, WriterInv, tierVars, diskVars
<1>4. candidate.key \in DOMAIN dirs => dirs[candidate.key].kv \in KvFor(candidate.key)
  BY DEF TierParts, DirsInv, DirFor
<1>5. PromoteInv'
  BY <1>0, <1>1, <1>4 DEF TierParts, PromoteInv, tierVars
<1> QED BY <1>2, <1>3, <1>5 DEF TierParts

\* A broken directory is moved away.
LEMMA QuarantineMovesStep ==
  ASSUME MemParts, TierParts, QuarantineMoves
  PROVE  MemParts' /\ TierParts'
<1>0. /\ storing.at = "quarantine" /\ storing.at \in Promoting /\ NoDir(candidate.key)
      /\ storing' = [storing EXCEPT !.at = "forget"]
      /\ UNCHANGED <<ramVars, fetching, spillQueue, saveVars, memClears, memTorn, rows, writer, candidate, ssdFaults>>
  BY DEF QuarantineMoves, Promoting
<1>1. "at" \in DOMAIN storing
  BY DEF MemParts, StoreInv
<1>2. "at" \in DOMAIN storing' /\ storing'.at = "forget" /\ storing'.at \in Promoting /\ storing'.n = storing.n
  BY <1>0, <1>1 DEF Promoting
<1>3. MemParts'
  BY <1>0, <1>2, PromotionGoesOn
<1>4. DirsInv' /\ WriterInv'
  BY <1>0, DirChanges DEF TierParts, WriterInv
<1>5. PromoteInv'
  BY <1>0, <1>2 DEF TierParts, PromoteInv
<1> QED BY <1>3, <1>4, <1>5 DEF TierParts

\* Its row is deleted and the bytes go back.
LEMMA QuarantineForgetsStep ==
  ASSUME MemParts, TierParts, QuarantineForgets
  PROVE  MemParts' /\ TierParts'
<1>0. /\ life = "serving" /\ storing.at = "forget" /\ storing.at \in Promoting /\ rows' = RowsWithout(candidate.key)
      /\ memory' = memory - storing.n /\ storing' = MemIdle /\ candidate' = NoCandidate
      /\ UNCHANGED <<lru, kvOf, sortedKeys, fetching, spillQueue, saveVars, memClears, memTorn,
                     dirs, writer, quarantined, ssdFaults>>
  BY StoresServe DEF MemParts, QuarantineForgets, BudgetBack, Promoting
<1>1. storing.n \in Nat /\ memory \in Int
  BY <1>0 DEF MemParts, StoreInv, EntriesInv
<1>2. EntriesInv' /\ FetchInv'
  BY <1>0, <1>1 DEF MemParts, EntriesInv, FetchInv
<1>3. StoreInv'
  BY <1>0 DEF MemParts, StoreInv, saveVars, MemIdle, Promoting
<1>4. SaveInv'
  BY <1>0, FilesKept DEF MemParts, saveVars
<1>5. AccountInv'
  <2> SUFFICES ASSUME ~memTorn
               PROVE  /\ Len(lru') <= MemEntries /\ HeldBy(kvOf') \in Int
                      /\ memory' = HeldBy(kvOf') /\ memory' <= MemMax /\ HeldBy(kvOf') <= MemMax
                      /\ sortedKeys' = DOMAIN kvOf'
    BY <1>0 DEF AccountInv, MemIdle, Promoting
  <2>1. /\ Len(lru) <= MemEntries /\ HeldBy(kvOf) \in Int /\ memory = HeldBy(kvOf) + storing.n
        /\ HeldBy(kvOf) <= MemMax /\ sortedKeys = DOMAIN kvOf
    BY <1>0 DEF MemParts, AccountInv, Promoting
  <2> QED BY <1>0, <1>1, <2>1
<1>6. DirsInv' /\ PromoteInv'
  BY <1>0 DEF TierParts, DirsInv, PromoteInv, NoCandidate, MemIdle, Promoting
<1>7. WriterInv'
  <2>1. candidate.key \in CacheKeys /\ rows \in Seq(CacheKeys)
    BY <1>0 DEF TierParts, PromoteInv, WriterInv
  <2>2. rows' \in Seq(CacheKeys)
    BY <1>0, <2>1, RowsChange
  <2> QED BY <1>0, <2>2 DEF TierParts, WriterInv
<1> QED BY <1>2, <1>3, <1>4, <1>5, <1>6, <1>7 DEF MemParts, TierParts

\* What was read for the stored prefix fits the prompt.
LEMMA CandidateTells ==
  ASSUME TierParts, storing.at = "read"
  PROVE  /\ MatchedTokens(candidate) = candidate.key /\ candidate.key \in CacheKeys
         /\ storing.kv \in KvFor(candidate.key)
         /\ HitFits(storing.kv, candidate.want, Len(candidate.key))
         /\ Len(candidate.key) <= Len(candidate.want)
         /\ storing.kv.of = SubSeq(candidate.want, 1, Len(candidate.key))
<1> DEFINE k == candidate.key
           w == candidate.want
           kv == storing.kv
<1>1. /\ k \in CacheKeys /\ w \in CacheKeys /\ IsPrefix(k, w) /\ kv \in KvFor(k)
  BY DEF TierParts, PromoteInv, Promoting
<1> HIDE DEF k, w, kv
<1>2. k \in Seq(Nat \ {0}) /\ w \in Seq(Nat \ {0})
  BY <1>1, MemoryAssumption
<1>3. Len(k) <= Len(w) /\ k = SubSeq(w, 1, Len(k)) /\ \A i \in 1..Len(k) : k[i] = w[i]
  BY <1>1, <1>2, PrefixPlaces
<1>4. kv.of = k /\ kv.off \in Nat /\ kv.off <= Len(k) /\ Len(k) \in Nat
  BY <1>1, KvSizes
<1>5. IsPrefix(KvCovered(kv), w)
  <2> DEFINE o == kv.off
             u == SubSeq(k, 1, o)
  <2>1. o \in Nat /\ o <= Len(k) /\ Len(w) \in Nat
    BY <1>2, <1>4
  <2> HIDE DEF o
  <2>2. u \in Seq(Nat \ {0}) /\ Len(u) = o /\ \A i \in 1..o : u[i] = k[i]
    BY <1>2, <2>1
  <2>3. \A i \in 1..o : i \in 1..Len(k)
    BY <1>4, <2>1
  <2> HIDE DEF u
  <2>4. Len(u) <= Len(w) /\ \A i \in 1..Len(u) : u[i] = w[i]
    BY <1>3, <1>4, <2>1, <2>2, <2>3
  <2>5. IsPrefix(u, w)
    BY <1>2, <2>2, <2>4, PrefixPlaces
  <2>6. KvCovered(kv) = u
    BY <1>4 DEF KvCovered, u, o
  <2> QED BY <2>5, <2>6
<1>6. MatchedTokens(candidate) = k
  BY <1>3 DEF MatchedTokens, k, w
<1> QED BY <1>1, <1>3, <1>4, <1>5, <1>6 DEF HitFits, k, w, kv

\* The bytes go back, the entry is stored and the request gets it.
LEMMA PromoteStoresStep ==
  ASSUME MemParts, TierParts, PromoteStores
  PROVE  MemParts' /\ TierParts'
<1>0. /\ life = "serving" /\ storing.at = "read" /\ storing.at \in Promoting
      /\ memory' = memory - storing.n
      /\ UNCHANGED <<kvOf, sortedKeys, fetching, spillQueue, saveVars, memClears, memTorn,
                     dirs, writer, quarantined, ssdFaults>>
  BY StoresServe DEF MemParts, PromoteStores, Promoting
<1>1. PICK t : t = MatchedTokens(candidate)
  OBVIOUS
<1>2. /\ t = candidate.key /\ t \in CacheKeys /\ storing.kv \in KvFor(t)
      /\ HitFits(storing.kv, candidate.want, Len(t))
      /\ Len(t) <= Len(candidate.want) /\ storing.kv.of = SubSeq(candidate.want, 1, Len(t))
  BY <1>0, <1>1, CandidateTells
<1>3. /\ \/ Known(t) /\ MoveToEnd(t) /\ storing' = MemIdle
         \/ ~Known(t) /\ storing' = [at |-> "prefixes", key |-> t, kv |-> storing.kv, doomed |-> {}] /\ UNCHANGED lru
      /\ candidate' = [at |-> "hit", want |-> candidate.want, done |-> Len(t), kv |-> storing.kv]
      /\ rows' = IF t \in ToSet(rows) THEN Append(RowsWithout(t), t) ELSE rows
  BY <1>1 DEF PromoteStores
<1>4. storing.n \in Nat /\ memory \in Int /\ memory' \in Int
  BY <1>0 DEF MemParts, StoreInv, EntriesInv
<1>5. EntriesInv' /\ Len(lru') = Len(lru)
  <2>1. CASE Known(t) /\ MoveToEnd(t)
    <3>1. t \in ToSet(lru) /\ lru' = MovedIn(lru, t) /\ EntriesInv
      BY <2>1 DEF MemParts, EntriesInv, MoveToEnd, LruWithout, MovedIn, Known
    <3>2. /\ lru' \in Seq(CacheKeys) /\ IsInjective(lru') /\ ToSet(lru') = ToSet(lru) /\ Len(lru') = Len(lru)
      BY <3>1, KeyMoves
    <3> QED BY <1>0, <1>4, <3>1, <3>2 DEF EntriesInv
  <2>2. CASE UNCHANGED lru
    BY <1>0, <1>4, <2>2 DEF MemParts, EntriesInv
  <2> QED BY <1>3, <2>1, <2>2
<1>6. FetchInv'
  BY <1>0 DEF MemParts, FetchInv
<1>7. /\ "at" \in DOMAIN storing' /\ storing'.at \in {"idle", "prefixes"} /\ (storing'.at = "idle" => storing' = MemIdle)
      /\ storing'.at = "prefixes" => storing'.key = t /\ storing'.kv = storing.kv /\ t \notin DOMAIN kvOf
  BY <1>3 DEF MemIdle, Known
<1>8. StoreInv'
  BY <1>0, <1>2, <1>7 DEF StoreInv, saveVars, Promoting
<1>9. SaveInv'
  BY <1>0, FilesKept DEF MemParts, saveVars
<1>10. AccountInv'
  <2> SUFFICES ASSUME ~memTorn
               PROVE  /\ Len(lru') <= MemEntries /\ HeldBy(kvOf') \in Int
                      /\ memory' = HeldBy(kvOf') /\ memory' <= MemMax /\ HeldBy(kvOf') <= MemMax
                      /\ sortedKeys' = DOMAIN kvOf'
    BY <1>0, <1>7 DEF AccountInv, Promoting
  <2>1. /\ Len(lru) <= MemEntries /\ HeldBy(kvOf) \in Int /\ memory = HeldBy(kvOf) + storing.n
        /\ HeldBy(kvOf) <= MemMax /\ sortedKeys = DOMAIN kvOf
    BY <1>0 DEF MemParts, AccountInv, Promoting
  <2> QED BY <1>0, <1>4, <1>5, <2>1
<1>11. DirsInv'
  BY <1>0 DEF TierParts, DirsInv
<1>12. WriterInv'
  <2>1. rows \in Seq(CacheKeys)
    BY DEF TierParts, WriterInv
  <2>2. rows' \in Seq(CacheKeys)
    BY <1>2, <1>3, <2>1, RowsChange DEF RowsWith
  <2> QED BY <1>0, <2>2 DEF TierParts, WriterInv
<1>13. PromoteInv'
  <2>1. /\ candidate'.at = "hit" /\ candidate'.want = candidate.want /\ candidate'.done = Len(t)
        /\ candidate'.kv = storing.kv
    BY <1>3
  <2>2. PromotedIs(candidate')
    BY <1>2, <2>1 DEF PromotedIs
  <2> QED BY <1>7, <2>1, <2>2 DEF PromoteInv, Promoting
<1> QED BY <1>5, <1>6, <1>8, <1>9, <1>10, <1>11, <1>12, <1>13 DEF MemParts, TierParts

\* The request goes on with what it was given.
LEMMA PromotedStep ==
  ASSUME MemParts, TierParts, Promoted
  PROVE  MemParts' /\ TierParts'
<1>1. MemParts'
  BY MemKept DEF Promoted
<1>2. TierParts'
  BY DEF Promoted, memoryVars, diskVars, TierParts, DirsInv, WriterInv, PromoteInv, NoCandidate, Promoting
<1> QED BY <1>1, <1>2

\* The process dies, not between two files of a save.
LEMMA CrashStep ==
  ASSUME MemParts, TierParts, Crash, ~saveTorn'
  PROVE  MemParts' /\ TierParts'
<1>0. /\ life \in {"serving", "saving"} /\ life' = "down" /\ saving' = 0
      /\ life = "saving" => saved.index = <<>>
      /\ writer' = WriterWaits /\ fetching' = MemIdle /\ storing' = MemIdle
      /\ spillQueue' = <<>> /\ candidate' = NoCandidate /\ EmptyRam'
      /\ UNCHANGED <<saved, memTorn, diskVars>>
  BY DEF Crash, EmptyRam
<1>1. /\ spillQueue' \in Seq(Spills) => EntriesInv'
      /\ storing' = MemIdle => AccountInv'
      /\ DOMAIN kvOf' = {}
  BY <1>0, EmptiedCache
<1>2. EntriesInv' /\ AccountInv'
  BY <1>0, <1>1
<1>3. FetchInv' /\ StoreInv'
  BY <1>0 DEF FetchInv, StoreInv, MemIdle, Promoting
<1>4. SaveInv'
  <2>1. CASE life = "serving"
    BY <1>0, <2>1 DEF MemParts, SaveInv
  <2>2. CASE life = "saving"
    <3>1. \A s : s = <<>> => s \in Seq(Nat) /\ Len(s) = 0 /\ DOMAIN s = {}
      OBVIOUS
    <3>2. saved' = saved /\ saved'.index = <<>>
      BY <1>0, <2>2
    <3>3. saved'.index \in Seq(Nat) /\ Len(saved'.index) = 0 /\ DOMAIN saved'.index = {}
      BY <3>1, <3>2
    <3>4. MemEntries \in Nat
      BY MemoryAssumption
    <3>5. DOMAIN saved = {"kvs", "tokens", "index"} /\ Len(saved.kvs) \in Nat /\ Len(saved.tokens) \in Nat
      BY DEF MemParts, SaveInv
    <3> QED BY <1>0, <3>2, <3>3, <3>4, <3>5 DEF SaveInv
  <2> QED BY <1>0, <2>1, <2>2
<1>5. TierParts'
  BY <1>0 DEF TierParts, DirsInv, WriterInv, PromoteInv, WriterWaits, NoCandidate, MemIdle, Promoting, diskVars
<1> QED BY <1>2, <1>3, <1>4, <1>5 DEF MemParts

\* A new process reconciles rows and directories.
LEMMA SsdRestartsStep ==
  ASSUME MemParts, TierParts, SsdRestarts
  PROVE  MemParts' /\ TierParts'
<1>1. MemParts'
  BY MemRestartsStep DEF SsdRestarts
<1>2. storing' = storing /\ UNCHANGED <<writer, candidate>>
  BY DEF SsdRestarts, MemRestarts
<1>3. PromoteInv'
  BY <1>2 DEF TierParts, PromoteInv
<1>4. DirsInv'
  BY DEF SsdRestarts, TierParts, DirsInv
<1>5. WriterInv'
  <2>1. PICK torn : rows' = Selected(rows, DOMAIN dirs \ torn)
    BY DEF SsdRestarts
  <2>2. rows' \in Seq(CacheKeys)
    BY <2>1, SelectedQueue DEF TierParts, WriterInv
  <2> QED BY <1>2, <2>2 DEF TierParts, WriterInv
<1> QED BY <1>1, <1>3, <1>4, <1>5 DEF TierParts

\* The engine stops, with the tier.
LEMMA SsdStopsStep ==
  ASSUME MemParts, TierParts, SsdStops
  PROVE  MemParts' /\ TierParts'
<1>1. MemParts'
  BY StopBeginsStep DEF SsdStops
<1>2. storing' = storing /\ storing = MemIdle /\ candidate' = NoCandidate /\ UNCHANGED <<diskVars, writer>>
  BY DEF SsdStops, StopBegins
<1>3. TierParts'
  BY <1>2 DEF TierParts, DirsInv, WriterInv, PromoteInv, NoCandidate, MemIdle, Promoting, diskVars
<1> QED BY <1>1, <1>3

\* A step of the memory cache by itself.
LEMMA TierMemoryStep ==
  ASSUME MemParts, TierParts, MemorySteps, UNCHANGED tierVars
  PROVE  MemParts' /\ TierParts'
<1>1. MemParts'
  BY RamStep
<1>2. storing' = storing \/ storing'.at \notin Promoting
  BY StoringKept DEF MemParts, StoreInv
<1>3. DirsInv' /\ WriterInv'
  BY DEF TierParts, DirsInv, WriterInv, tierVars, diskVars
<1>4. PromoteInv'
  BY <1>2 DEF TierParts, PromoteInv, tierVars, Promoting
<1> QED BY <1>1, <1>3, <1>4 DEF TierParts

--------------------------------------------------------------------------------
(* Each step of the tier: the disk.                                          *)

\* Rows come, go and move.
LEMMA RowQueue ==
  ASSUME rows \in Seq(ToSet(rows)), IsInjective(rows), NEW k
  PROVE  /\ RowsWith(k) \in Seq(ToSet(RowsWith(k))) /\ IsInjective(RowsWith(k))
         /\ ToSet(RowsWith(k)) = ToSet(rows) \cup {k}
         /\ Len(RowsWith(k)) \in Nat /\ Len(RowsWith(k)) <= Len(rows) + 1 /\ Len(rows) \in Nat
         /\ k \in ToSet(rows) => Len(RowsWith(k)) = Len(rows)
<1>1. RowsWith(k) = MovedIn(rows, k)
  BY DEF RowsWith, RowsWithout, MovedIn
<1> QED BY <1>1, QueueReordered

\* Some of the rows are kept.
LEMMA RowsLeft ==
  ASSUME rows \in Seq(ToSet(rows)), IsInjective(rows), NEW T
  PROVE  /\ Selected(rows, T) \in Seq(ToSet(Selected(rows, T))) /\ IsInjective(Selected(rows, T))
         /\ ToSet(Selected(rows, T)) = ToSet(rows) \cap T
         /\ Len(Selected(rows, T)) \in Nat /\ Len(Selected(rows, T)) <= Len(rows) /\ Len(rows) \in Nat
<1>1. /\ Selected(rows, T) \in Seq(ToSet(rows)) /\ ToSet(Selected(rows, T)) = ToSet(rows) \cap T
      /\ Len(Selected(rows, T)) <= Len(rows) /\ IsInjective(Selected(rows, T))
  BY SelectedQueue
<1>2. Len(Selected(rows, T)) \in Nat /\ Len(rows) \in Nat
  BY <1>1
<1>3. Selected(rows, T) \in Seq(ToSet(Selected(rows, T)))
  BY <1>1, OwnElements
<1> QED BY <1>1, <1>2, <1>3

\* The least recently used row goes.
LEMMA RowsHead ==
  ASSUME rows \in Seq(ToSet(rows)), IsInjective(rows), rows # <<>>
  PROVE  /\ Tail(rows) \in Seq(ToSet(Tail(rows))) /\ IsInjective(Tail(rows))
         /\ ToSet(rows) = ToSet(Tail(rows)) \cup {Head(rows)}
         /\ Len(Tail(rows)) = Len(rows) - 1 /\ Len(rows) \in Nat
<1>1. /\ Tail(rows) \in Seq(ToSet(rows)) /\ Head(rows) \in ToSet(rows)
      /\ ToSet(Tail(rows)) \subseteq ToSet(rows)
      /\ ToSet(rows) \subseteq ToSet(Tail(rows)) \cup {Head(rows)}
      /\ IsInjective(Tail(rows))
  BY TailOfQueue
<1>2. Tail(rows) \in Seq(ToSet(Tail(rows)))
  BY <1>1, OwnElements
<1>3. Len(Tail(rows)) = Len(rows) - 1 /\ Len(rows) \in Nat
  OBVIOUS
<1> QED BY <1>1, <1>2, <1>3

\* A step that leaves disk and writer alone.
LEMMA DiskKept ==
  ASSUME DiskInv, UNCHANGED <<diskVars, writer, quarantined, ssdFaults>>, "at" \in DOMAIN storing',
         storing'.at = "forget" => storing.at = "forget",
         life = "down" => life' = "down"
  PROVE  DiskInv'
BY DEF DiskInv, diskVars, Orphans

\* The memory cache leaves disk and writer alone.
LEMMA DiskMemoryStep ==
  ASSUME DiskInv, MemorySteps, UNCHANGED tierVars
  PROVE  DiskInv'
<1>1. "at" \in DOMAIN storing' /\ (storing'.at = "forget" => storing.at = "forget")
  BY StoringKept DEF DiskInv, Promoting
<1>2. life = "down" => life' = "down"
  BY DEF MemorySteps, FetchLooks, RemoveEntry, StoreBegins, FetchReturns, StoreDropsPrefix, StoreEvicts, StoreUnindexes,
       StoreInserts, StoreAccounts, StoreIndexes, ClearMemory, SaveKv, SaveTokens, SaveIndex, LoadDisk, saveVars
<1> QED BY <1>1, <1>2, DiskKept DEF tierVars

\* A conjunct of the invariant for each state of the writer, for what is used here.
LEMMA DiskTells ==
  ASSUME DiskInv
  PROVE  /\ Len(rows) \in Nat /\ SsdEntries \in Nat /\ SsdEntries >= 1 /\ ssdFaults \in Nat
         /\ \E k : ~quarantined => Orphans \subseteq {k}
         /\ ~quarantined => Len(rows) <= SsdEntries + ssdFaults + 1
<1>1. Len(rows) \in Nat /\ SsdEntries \in Nat /\ SsdEntries >= 1 /\ ssdFaults \in Nat
  BY SsdAssumption DEF DiskInv
<1>2. \E k : ~quarantined => Orphans \subseteq {k}
  <2>1. CASE quarantined
    BY <2>1
  <2>2. CASE ~quarantined /\ writer.at = "get"
    BY <2>2 DEF DiskInv
  <2>3. CASE ~quarantined /\ writer.at = "index"
    BY <2>3 DEF DiskInv
  <2>4. CASE ~quarantined /\ writer.at \in {"tmp", "evict"}
    BY <2>4 DEF DiskInv
  <2> QED BY <2>1, <2>2, <2>3, <2>4 DEF DiskInv
<1>3. ~quarantined => Len(rows) <= SsdEntries + ssdFaults + 1
  BY <1>1 DEF DiskInv
<1> QED BY <1>1, <1>2, <1>3

\* Before a write every directory has its row.
LEMMA WriterTakesDisk ==
  ASSUME DiskInv, WriterTakes
  PROVE  DiskInv'
<1>1. /\ writer.at = "get" /\ life # "down" /\ writer'.at = "tmp" /\ "at" \in DOMAIN writer'
      /\ UNCHANGED <<dirs, rows, storing, quarantined, ssdFaults, life>>
  BY DEF WriterTakes, WriterWaits, saveVars
<1> QED BY <1>1 DEF DiskInv, Orphans

\* A write that fails, or a limit that is not enforced, counts as a fault.
LEMMA WriterFailsDisk ==
  ASSUME DiskInv, WriterFails \/ WriterLeaves
  PROVE  DiskInv'
<1>1. /\ writer.at \in {"tmp", "evict"} /\ writer' = WriterWaits /\ ssdFaults' = ssdFaults + 1
      /\ writer'.at = "get" /\ "at" \in DOMAIN writer'
      /\ UNCHANGED <<dirs, rows, storing, quarantined>>
  BY DEF WriterFails, WriterLeaves, WriterWaits, memoryVars, diskVars
<1>2. Orphans' = Orphans /\ (~quarantined => Orphans = {})
  BY <1>1 DEF DiskInv, Orphans
<1>3. ~quarantined => Len(rows) <= SsdEntries + ssdFaults'
  BY <1>1, DiskTells
<1>4. ssdFaults' \in Nat
  BY <1>1, DiskTells
<1> QED BY <1>1, <1>2, <1>3, <1>4 DEF DiskInv

\* Directories go, none comes.
LEMMA WriterClearsOldDisk ==
  ASSUME DiskInv, WriterClearsOld
  PROVE  DiskInv'
<1>1. /\ writer.at = "tmp" /\ UNCHANGED <<rows, writer, storing, quarantined, ssdFaults, life>>
  BY DEF WriterClearsOld, memoryVars, saveVars
<1>2. DOMAIN dirs' \subseteq DOMAIN dirs
  BY DEF WriterClearsOld, SetDir, NoDir
<1>3. ~quarantined => Orphans = {} /\ Orphans' = {}
  BY <1>1, <1>2 DEF DiskInv, Orphans
<1> QED BY <1>1, <1>3 DEF DiskInv

\* The directory that is written has no row yet, the others have theirs.
LEMMA WriterRenamesDisk ==
  ASSUME DiskInv, WriterRenames
  PROVE  DiskInv'
<1>1. /\ writer.at = "tmp" /\ UNCHANGED <<rows, storing, quarantined, ssdFaults, life>>
      /\ DOMAIN dirs' = DOMAIN dirs \cup {writer.key}
  BY DEF WriterRenames, SetDir, memoryVars, saveVars
<1>2. writer'.at = "index" /\ "at" \in DOMAIN writer' /\ writer'.key = writer.key
  BY DEF WriterRenames, DiskInv
<1>3. ~quarantined => Orphans' \subseteq {writer'.key}
  BY <1>1, <1>2 DEF DiskInv, Orphans
<1> QED BY <1>1, <1>2, <1>3 DEF DiskInv

\* With the row every directory has one; the limit is enforced next.
LEMMA WriterIndexesDisk ==
  ASSUME DiskInv, WriterIndexes
  PROVE  DiskInv'
<1>1. writer.at = "index" /\ UNCHANGED <<dirs, storing, quarantined, ssdFaults, life>>
  BY DEF WriterIndexes, memoryVars, saveVars
<1>2. CASE life = "down"
  <2>1. rows' = rows /\ writer' = WriterWaits /\ writer'.at = "get" /\ "at" \in DOMAIN writer'
    BY <1>2 DEF WriterIndexes, WriterWaits
  <2>2. Orphans' = Orphans
    BY <1>1, <2>1 DEF Orphans
  <2> QED BY <1>1, <1>2, <2>1, <2>2 DEF DiskInv
<1>3. CASE life # "down"
  <2> DEFINE k == writer.key
  <2>1. rows' = RowsWith(k) /\ writer'.at = "evict" /\ "at" \in DOMAIN writer'
    BY <1>3 DEF WriterIndexes
  <2> HIDE DEF k
  <2>2. /\ rows' \in Seq(ToSet(rows')) /\ IsInjective(rows') /\ ToSet(rows') = ToSet(rows) \cup {k}
        /\ Len(rows') \in Nat /\ Len(rows') <= Len(rows) + 1 /\ Len(rows) \in Nat
    BY <2>1, RowQueue DEF DiskInv
  <2>3. ~quarantined => Orphans' = {}
    BY <1>1, <2>2 DEF DiskInv, Orphans, k
  <2>4. ~quarantined => Len(rows') <= SsdEntries + ssdFaults + 1
    <3>1. ~quarantined => Len(rows) <= SsdEntries + ssdFaults
      BY <1>1 DEF DiskInv
    <3> QED BY <2>2, <3>1, DiskTells
  <2> QED BY <1>1, <2>1, <2>2, <2>3, <2>4 DEF DiskInv
<1> QED BY <1>2, <1>3

\* A row goes when its directory is gone, until the limit is kept.
LEMMA WriterEvictsDisk ==
  ASSUME DiskInv, WriterEvicts
  PROVE  DiskInv'
<1>1. writer.at = "evict" /\ UNCHANGED <<storing, quarantined, ssdFaults, life>>
  BY DEF WriterEvicts, memoryVars, saveVars
<1>2. CASE ~OverCapacity
  <2>1. writer' = WriterWaits /\ UNCHANGED <<dirs, rows>> /\ writer'.at = "get" /\ "at" \in DOMAIN writer'
    BY <1>2 DEF WriterEvicts, WriterWaits
  <2>2. Len(rows) <= SsdEntries + ssdFaults
    BY <1>2, DiskTells DEF OverCapacity
  <2>3. Orphans' = Orphans
    BY <2>1 DEF Orphans
  <2> QED BY <1>1, <2>1, <2>2, <2>3 DEF DiskInv
<1>3. CASE OverCapacity /\ Head(rows) \in DOMAIN dirs
  <2>1. UNCHANGED <<rows, writer>>
    BY <1>3 DEF WriterEvicts
  <2>2. DOMAIN dirs' \subseteq DOMAIN dirs
    BY <1>3 DEF WriterEvicts, SetDir, NoDir
  <2>3. ~quarantined => Orphans' = {}
    BY <1>1, <2>1, <2>2 DEF DiskInv, Orphans
  <2> QED BY <1>1, <2>1, <2>3 DEF DiskInv
<1>4. CASE OverCapacity /\ Head(rows) \notin DOMAIN dirs
  <2>1. rows' = Tail(rows) /\ UNCHANGED <<dirs, writer>>
    BY <1>4 DEF WriterEvicts
  <2>2. rows # <<>>
    <3>1. \A s : s = <<>> => Len(s) = 0
      OBVIOUS
    <3> QED BY <1>4, <3>1, DiskTells DEF OverCapacity
  <2>3. /\ rows' \in Seq(ToSet(rows')) /\ IsInjective(rows')
        /\ ToSet(rows) = ToSet(rows') \cup {Head(rows)}
        /\ Len(rows') = Len(rows) - 1 /\ Len(rows) \in Nat
    BY <2>1, <2>2, RowsHead DEF DiskInv
  <2>4. ~quarantined => Orphans' = {}
    BY <1>1, <1>4, <2>1, <2>3 DEF DiskInv, Orphans
  <2>5. ~quarantined => Len(rows') <= SsdEntries + ssdFaults + 1
    BY <2>3, DiskTells
  <2> QED BY <1>1, <2>1, <2>3, <2>4, <2>5 DEF DiskInv
<1> QED BY <1>2, <1>3, <1>4

\* What the readers do to neither rows nor directories.
LEMMA ReaderDisk ==
  ASSUME DiskInv, CheckSsd \/ PromoteReserves \/ PromoteReads \/ Promoted \/ SsdStops
  PROVE  DiskInv'
<1>1. UNCHANGED <<diskVars, writer, quarantined, ssdFaults>>
  BY DEF CheckSsd, PromoteReserves, PromoteReads, Promoted, SsdStops, tierVars, diskVars
<1>2. "at" \in DOMAIN storing' /\ (storing'.at = "forget" => storing.at = "forget")
  BY DEF CheckSsd, PromoteReserves, PromoteReads, Promoted, SsdStops, StopBegins, memoryVars, DiskInv
<1>3. life = "down" => life' = "down"
  BY DEF CheckSsd, PromoteReserves, PromoteReads, Promoted, SsdStops, StopBegins, memoryVars, saveVars
<1> QED BY <1>1, <1>2, <1>3, DiskKept

\* From the first quarantine on nothing is promised.
LEMMA QuarantineDisk ==
  ASSUME DiskInv, QuarantineMoves \/ QuarantineForgets
  PROVE  DiskInv'
<1>1. CASE QuarantineMoves
  <2>1. /\ quarantined' = TRUE /\ UNCHANGED <<rows, writer, ssdFaults>> /\ "at" \in DOMAIN storing'
    BY <1>1 DEF QuarantineMoves, DiskInv
  <2> QED BY <2>1 DEF DiskInv
<1>2. CASE QuarantineForgets
  <2>1. /\ quarantined /\ quarantined' = quarantined /\ UNCHANGED <<writer, ssdFaults>>
        /\ storing' = MemIdle /\ "at" \in DOMAIN storing' /\ storing'.at = "idle"
    BY <1>2 DEF QuarantineForgets, DiskInv, MemIdle
  <2>2. rows' \in Seq(ToSet(rows')) /\ IsInjective(rows')
    BY <1>2, RowsLeft DEF QuarantineForgets, RowsWithout, DiskInv
  <2> QED BY <2>1, <2>2 DEF DiskInv
<1> QED BY <1>1, <1>2

\* A row that is touched stays one row.
LEMMA PromoteStoresDisk ==
  ASSUME DiskInv, PromoteStores
  PROVE  DiskInv'
<1> DEFINE t == MatchedTokens(candidate)
<1>1. UNCHANGED <<dirs, writer, quarantined, ssdFaults, life>>
  BY DEF PromoteStores, saveVars
<1>2. "at" \in DOMAIN storing' /\ storing'.at # "forget"
  BY DEF PromoteStores, MemIdle
<1>3. rows' = IF t \in ToSet(rows) THEN Append(RowsWithout(t), t) ELSE rows
  BY DEF PromoteStores
<1> HIDE DEF t
<1>4. /\ rows' \in Seq(ToSet(rows')) /\ IsInjective(rows') /\ ToSet(rows') = ToSet(rows) /\ Len(rows') = Len(rows)
  <2>1. CASE t \notin ToSet(rows)
    BY <1>3, <2>1 DEF DiskInv
  <2>2. CASE t \in ToSet(rows)
    <3>1. rows' = RowsWith(t)
      BY <1>3, <2>2 DEF RowsWith
    <3> QED BY <2>2, <3>1, RowQueue, ZenonT(30) DEF DiskInv
  <2> QED BY <2>1, <2>2
<1>5. Orphans' = Orphans
  BY <1>1, <1>4 DEF Orphans
<1> QED BY <1>1, <1>2, <1>4, <1>5 DEF DiskInv

\* A crash leaves one directory without its row at most, or one row too many.
LEMMA CrashDisk ==
  ASSUME DiskInv, Crash
  PROVE  DiskInv'
<1>1. /\ writer' = WriterWaits /\ ssdFaults' = ssdFaults + 1 /\ writer'.at = "get" /\ "at" \in DOMAIN writer'
      /\ storing' = MemIdle /\ "at" \in DOMAIN storing' /\ storing'.at = "idle" /\ life' = "down"
      /\ UNCHANGED <<dirs, rows, quarantined>>
  BY DEF Crash, WriterWaits, MemIdle, diskVars
<1>2. ssdFaults' \in Nat /\ (~quarantined => Len(rows) <= SsdEntries + ssdFaults')
  BY <1>1, DiskTells
<1>3. Orphans' = Orphans
  BY <1>1 DEF Orphans
<1>4. ~quarantined => \E k : Orphans \subseteq {k}
  BY DiskTells
<1> QED BY <1>1, <1>2, <1>3, <1>4 DEF DiskInv

\* After reconcile() every directory has a row.
LEMMA SsdRestartsDisk ==
  ASSUME DiskInv, SsdRestarts
  PROVE  DiskInv'
<1>1. writer = WriterWaits /\ UNCHANGED <<writer, storing, quarantined, ssdFaults>>
  BY DEF SsdRestarts, MemRestarts
<1>2. PICK T : rows' = Selected(rows, T)
  BY DEF SsdRestarts
<1>3. /\ rows' \in Seq(ToSet(rows')) /\ IsInjective(rows')
      /\ Len(rows') \in Nat /\ Len(rows') <= Len(rows) /\ Len(rows) \in Nat
  BY <1>2, RowsLeft DEF DiskInv
<1>4. Orphans' = {}
  BY DEF SsdRestarts, Orphans
<1>5. ~quarantined => Len(rows') <= SsdEntries + ssdFaults
  <2>1. writer.at = "get"
    BY <1>1 DEF WriterWaits
  <2>2. ~quarantined => Len(rows) <= SsdEntries + ssdFaults
    BY <2>1 DEF DiskInv
  <2> QED BY <1>3, <2>2, DiskTells
<1>6. writer.at = "get"
  BY <1>1 DEF WriterWaits
<1> QED BY <1>1, <1>3, <1>4, <1>5, <1>6 DEF DiskInv

\* Rows and the directory without one bound the directories.
LEMMA DiskTellsBound ==
  ASSUME DiskInv
  PROVE  DiskBounded
<1> SUFFICES ASSUME ~quarantined PROVE Cardinality(DOMAIN dirs) <= SsdEntries + 1 + ssdFaults
  BY DEF DiskBounded
<1> DEFINE R == ToSet(rows)
<1>1. /\ IsFiniteSet(R) /\ Cardinality(R) = Len(rows) /\ Len(rows) \in Nat
      /\ SsdEntries \in Nat /\ ssdFaults \in Nat
  <2>1. rows \in Seq(R) /\ IsInjective(rows)
    BY DEF DiskInv
  <2>2. IsFiniteSet(ToSet(rows)) /\ Cardinality(ToSet(rows)) = Len(rows)
    BY <2>1, QueueLength
  <2> QED BY <2>2, DiskTells
<1> HIDE DEF R
<1>2. CASE Orphans = {}
  <2>1. DOMAIN dirs \subseteq R
    BY <1>2 DEF Orphans, R
  <2>2. Cardinality(DOMAIN dirs) \in Nat /\ Cardinality(DOMAIN dirs) <= Cardinality(R)
    BY <1>1, <2>1, FS_Subset, FS_CardinalityType
  <2> QED BY <1>1, <2>2, DiskTells
<1>3. CASE Orphans # {}
  <2>1. writer.at \in {"get", "index"}
    BY <1>3 DEF DiskInv
  <2>2. Len(rows) <= SsdEntries + ssdFaults
    BY <2>1 DEF DiskInv
  <2>3. PICK k : Orphans \subseteq {k}
    BY DiskTells
  <2>4. DOMAIN dirs \subseteq R \cup {k}
    BY <2>3 DEF Orphans, R
  <2>5. IsFiniteSet(R \cup {k}) /\ Cardinality(R \cup {k}) \in Nat /\ Cardinality(R \cup {k}) <= Cardinality(R) + 1
    <3>1. /\ IsFiniteSet(R \cup {k})
          /\ Cardinality(R \cup {k}) = IF k \in R THEN Cardinality(R) ELSE Cardinality(R) + 1
      BY <1>1, FS_AddElement
    <3> QED BY <1>1, <3>1
  <2>6. Cardinality(DOMAIN dirs) \in Nat /\ Cardinality(DOMAIN dirs) <= Cardinality(R \cup {k})
    BY <2>4, <2>5, FS_Subset, FS_CardinalityType
  <2> QED BY <1>1, <2>2, <2>5, <2>6
<1> QED BY <1>2, <1>3

\* No step fills the disk.
LEMMA DiskStep ==
  ASSUME DiskInv, [SsdNext]_ssdVars
  PROVE  DiskInv'
<1>1. CASE UNCHANGED ssdVars
  BY <1>1, DiskKept DEF ssdVars, tierVars, memoryVars, saveVars, DiskInv
<1>2. CASE MemorySteps /\ UNCHANGED tierVars
  BY <1>2, DiskMemoryStep
<1>3. CASE WriterTakes
  BY <1>3, WriterTakesDisk
<1>4. CASE WriterFails \/ WriterLeaves
  BY <1>4, WriterFailsDisk
<1>5. CASE WriterClearsOld
  BY <1>5, WriterClearsOldDisk
<1>6. CASE WriterRenames
  BY <1>6, WriterRenamesDisk
<1>7. CASE WriterIndexes
  BY <1>7, WriterIndexesDisk
<1>8. CASE WriterEvicts
  BY <1>8, WriterEvictsDisk
<1>9. CASE CheckSsd \/ PromoteReserves \/ PromoteReads \/ Promoted \/ SsdStops
  BY <1>9, ReaderDisk
<1>10. CASE QuarantineMoves \/ QuarantineForgets
  BY <1>10, QuarantineDisk
<1>11. CASE PromoteStores
  BY <1>11, PromoteStoresDisk
<1>12. CASE Crash
  BY <1>12, CrashDisk
<1>13. CASE SsdRestarts
  BY <1>13, SsdRestartsDisk
<1> QED BY <1>1, <1>2, <1>3, <1>4, <1>5, <1>6, <1>7, <1>8, <1>9, <1>10, <1>11, <1>12, <1>13 DEF SsdNext

--------------------------------------------------------------------------------
(* The tier.                                                                 *)

\* The tier, unless the process died in a save; the disk in any case.
SsdInv == (~saveTorn => MemParts /\ TierParts) /\ DiskInv

\* The tier at the start.
LEMMA SsdInvInit ==
  ASSUME SsdInit
  PROVE  SsdInv
<1>1. MemParts
  BY MemPartsInit DEF SsdInit
<1>2. /\ dirs = <<>> /\ rows = <<>> /\ writer = WriterWaits /\ candidate = NoCandidate
      /\ quarantined = FALSE /\ ssdFaults = 0 /\ storing = MemIdle
  BY DEF SsdInit, TierInit, MemoryInit
<1>3. \A s : s = <<>> => /\ \A S : s \in Seq(S) 
                         /\ Len(s) = 0 /\ DOMAIN s = {} /\ IsInjective(s) /\ ToSet(s) = {}
  BY DEF IsInjective, ToSet
<1>4. /\ rows \in Seq(CacheKeys) /\ rows \in Seq(ToSet(rows)) /\ IsInjective(rows) /\ Len(rows) = 0
      /\ DOMAIN dirs = {}
  BY <1>2, <1>3
<1>5. TierParts
  BY <1>2, <1>4 DEF TierParts, DirsInv, WriterInv, PromoteInv, WriterWaits, NoCandidate, MemIdle, Promoting
<1>6. DiskInv
  <2>1. Orphans = {}
    BY <1>4 DEF Orphans
  <2>2. SsdEntries \in Nat /\ writer.at = "get" /\ "at" \in DOMAIN writer /\ "at" \in DOMAIN storing /\ storing.at = "idle"
    BY <1>2, SsdAssumption DEF WriterWaits, MemIdle
  <2> QED BY <1>2, <1>4, <2>1, <2>2 DEF DiskInv
<1> QED BY <1>1, <1>5, <1>6 DEF SsdInv

\* What is torn stays torn.
LEMMA TornStays ==
  ASSUME [SsdNext]_ssdVars, saveTorn
  PROVE  saveTorn'
<1>1. CASE UNCHANGED ssdVars
  BY <1>1 DEF ssdVars, memoryVars, saveVars
<1>2. CASE MemorySteps
  BY <1>2 DEF MemorySteps, FetchLooks, RemoveEntry, StoreBegins, FetchReturns, StoreDropsPrefix, StoreEvicts, StoreUnindexes,
       StoreInserts, StoreAccounts, StoreIndexes, ClearMemory, SaveKv, SaveTokens, SaveIndex, LoadDisk, saveVars
<1>3. CASE WriterTakes \/ WriterFails \/ WriterClearsOld \/ WriterRenames \/ WriterIndexes \/ WriterEvicts \/ WriterLeaves
  BY <1>3 DEF WriterTakes, WriterFails, WriterClearsOld, WriterRenames, WriterIndexes, WriterEvicts, WriterLeaves,
       memoryVars, saveVars
<1>4. CASE \/ CheckSsd \/ PromoteReserves \/ PromoteReads \/ QuarantineMoves \/ QuarantineForgets
           \/ PromoteStores \/ Promoted
  BY <1>4 DEF CheckSsd, PromoteReserves, PromoteReads, QuarantineMoves, QuarantineForgets, PromoteStores, Promoted,
       memoryVars, saveVars
<1>5. CASE Crash \/ SsdRestarts \/ SsdStops
  BY <1>5 DEF Crash, SsdRestarts, MemRestarts, SsdStops, StopBegins
<1> QED BY <1>1, <1>2, <1>3, <1>4, <1>5 DEF SsdNext

\* Every step of the cache with its tier.
LEMMA SsdInvStep ==
  ASSUME SsdInv, [SsdNext]_ssdVars
  PROVE  SsdInv'
<1>1. DiskInv'
  BY DiskStep DEF SsdInv
<1>2. ASSUME ~saveTorn' PROVE MemParts' /\ TierParts'
  <2>0. MemParts /\ TierParts
    BY <1>2, TornStays DEF SsdInv
  <2>1. CASE UNCHANGED ssdVars
    <3>1. MemParts'
      BY <2>0, <2>1, MemKept DEF ssdVars
    <3>2. TierParts'
      BY <2>0, <2>1 DEF ssdVars, memoryVars, tierVars, diskVars, TierParts, DirsInv, WriterInv, PromoteInv
    <3> QED BY <3>1, <3>2
  <2>2. CASE MemorySteps /\ UNCHANGED tierVars
    BY <2>0, <2>2, TierMemoryStep
  <2>3. CASE WriterTakes
    BY <2>0, <2>3, WriterTakesStep
  <2>4. CASE WriterFails \/ WriterLeaves
    BY <2>0, <2>4, WriterFailsStep
  <2>5. CASE WriterClearsOld
    BY <2>0, <2>5, WriterClearsOldStep
  <2>6. CASE WriterRenames
    BY <2>0, <2>6, WriterRenamesStep
  <2>7. CASE WriterIndexes
    BY <2>0, <2>7, WriterIndexesStep
  <2>8. CASE WriterEvicts
    BY <2>0, <2>8, WriterEvictsStep
  <2>9. CASE CheckSsd
    BY <2>0, <2>9, CheckSsdStep
  <2>10. CASE PromoteReserves
    BY <2>0, <2>10, PromoteReservesStep
  <2>11. CASE PromoteReads
    BY <2>0, <2>11, PromoteReadsStep
  <2>12. CASE QuarantineMoves
    BY <2>0, <2>12, QuarantineMovesStep
  <2>13. CASE QuarantineForgets
    BY <2>0, <2>13, QuarantineForgetsStep
  <2>14. CASE PromoteStores
    BY <2>0, <2>14, PromoteStoresStep
  <2>15. CASE Promoted
    BY <2>0, <2>15, PromotedStep
  <2>16. CASE Crash
    BY <1>2, <2>0, <2>16, CrashStep
  <2>17. CASE SsdRestarts
    BY <2>0, <2>17, SsdRestartsStep
  <2>18. CASE SsdStops
    BY <2>0, <2>18, SsdStopsStep
  <2> QED BY <2>1, <2>2, <2>3, <2>4, <2>5, <2>6, <2>7, <2>8, <2>9, <2>10, <2>11, <2>12, <2>13, <2>14, <2>15,
             <2>16, <2>17, <2>18 DEF SsdNext
<1> QED BY <1>1, <1>2 DEF SsdInv

\* Whatever the writer, the readers, crashes and restarts interleave with: what is
\* promoted is of the prompt and whole, unless the process died between two files of a save;
\* and until an entry is quarantined there are at most as many directories as the limit and
\* one more, and one for each fault (ssd_cache.py, SSDCacheTier).
THEOREM TierServes == SsdSpec => []TierSound
<1>1. SsdInit => SsdInv
  BY SsdInvInit
<1>2. SsdInv /\ [SsdNext]_ssdVars => SsdInv'
  BY SsdInvStep
<1>3. SsdInv => TierSound
  <2> SUFFICES ASSUME SsdInv PROVE TierSound
    OBVIOUS
  <2>1. PromotedFits
    BY DEF SsdInv, TierParts, PromoteInv, PromotedIs, HitFits, PromotedFits
  <2>2. DiskBounded
    BY DiskTellsBound DEF SsdInv
  <2> QED BY <2>1, <2>2 DEF TierSound
<1> QED BY <1>1, <1>2, <1>3, PTL DEF SsdSpec

\* With the tier below it the memory cache keeps what it keeps by itself, though the
\* promotion borrows from its budget on the worker thread.
THEOREM TierMemoryServes == SsdSpec => []MemorySound
<1>1. SsdInit => SsdInv
  BY SsdInvInit
<1>2. SsdInv /\ [SsdNext]_ssdVars => SsdInv'
  BY SsdInvStep
<1>3. SsdInv => MemorySound
  BY MemPartsTell DEF SsdInv, MemInv, MemParts
<1> QED BY <1>1, <1>2, <1>3, PTL DEF SsdSpec

================================================================================
